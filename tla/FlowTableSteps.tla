---------------------------- MODULE FlowTableSteps ----------------------------
(***************************************************************************)
(* Lemmas about the flow table (FlowTable), for tables and search windows  *)
(* of every size that FlowTableAssumption allows, any flows, hashes and    *)
(* cores.  First arithmetic: a slot is a remainder, and inside the window  *)
(* of 5 * NBSZ slots the slots of a flow differ.  Then one lemma for each  *)
(* step of the cores, and each of the slow path that does not write into   *)
(* an entry it adds or moves: the step keeps LookupInv.                    *)
(***************************************************************************)
EXTENDS FlowTable, TLAPS

-----------------------------------------------------------------------------
(* Numbers.                                                                *)

(* Multiples of the size of the table are at least that far apart.         *)
LEMMA Multiples ==
    ASSUME NEW q \in Int, NEW p \in Int, q # p
    PROVE  q * ENTRIES - p * ENTRIES >= ENTRIES \/ q * ENTRIES - p * ENTRIES <= -ENTRIES
<1>1. ENTRIES \in Nat /\ ENTRIES > 0
    BY FlowTableAssumption
<1>2. q - p >= 1 => (q - p) * ENTRIES >= ENTRIES
    BY <1>1
<1>3. q - p <= -1 => (q - p) * ENTRIES <= -ENTRIES
    BY <1>1
<1> QED
    BY <1>1, <1>2, <1>3

(* A remainder is the only one.                                            *)
LEMMA RemainderIs ==
    ASSUME NEW q \in Int, NEW r \in Slots
    PROVE  (q * ENTRIES + r) % ENTRIES = r
<1>1. ENTRIES \in Nat /\ ENTRIES > 0
    BY FlowTableAssumption
<1> QED
    BY <1>1 DEF Slots

(* There is one.                                                           *)
LEMMA Remainder ==
    ASSUME NEW a \in Int
    PROVE  \E q \in Int, r \in Slots : a = q * ENTRIES + r /\ a % ENTRIES = r
<1>1. ENTRIES \in Nat /\ ENTRIES > 0
    BY FlowTableAssumption
<1>2. a \div ENTRIES \in Int /\ a % ENTRIES \in Slots
    BY <1>1 DEF Slots
<1>3. a = (a \div ENTRIES) * ENTRIES + (a % ENTRIES)
    BY <1>1
<1> QED
    BY <1>2, <1>3

(* Slots of the table.                                                     *)
LEMMA SlotIn ==
    ASSUME NEW a \in Int
    PROVE  a % ENTRIES \in Slots
BY Remainder

(* The slots of two sums that differ by less than the size of the table    *)
(* differ.                                                                 *)
LEMMA SlotsDiffer ==
    ASSUME NEW h \in Nat, NEW a \in Slots, NEW b \in Slots,
           (h + a) % ENTRIES = (h + b) % ENTRIES
    PROVE  a = b
<1>1. ENTRIES \in Nat /\ ENTRIES > 0 /\ a \in Nat /\ b \in Nat /\ a < ENTRIES /\ b < ENTRIES
    BY FlowTableAssumption DEF Slots
<1> h + a \in Int /\ h + b \in Int
    BY <1>1
<1>2. PICK p \in Int, r \in Slots : h + a = p * ENTRIES + r /\ (h + a) % ENTRIES = r
    BY Remainder
<1>3. PICK q \in Int, s \in Slots : h + b = q * ENTRIES + s /\ (h + b) % ENTRIES = s
    BY Remainder
<1>4. r = s /\ r \in Nat
    BY <1>2, <1>3 DEF Slots
<1>5. a - b = p * ENTRIES - q * ENTRIES
    BY <1>1, <1>2, <1>3, <1>4
<1>6. p = q
    BY <1>1, <1>5, Multiples
<1> QED
    BY <1>1, <1>5, <1>6

(* Moving on by the same distance from the same slot.                      *)
LEMMA SlotShift ==
    ASSUME NEW h \in Nat, NEW g \in Nat, NEW x \in Nat,
           h % ENTRIES = g % ENTRIES
    PROVE  (h + x) % ENTRIES = (g + x) % ENTRIES
<1>1. ENTRIES \in Nat /\ ENTRIES > 0
    BY FlowTableAssumption
<1>2. PICK p \in Int, r \in Slots : h = p * ENTRIES + r /\ h % ENTRIES = r
    BY Remainder
<1>3. PICK q \in Int, s \in Slots : g = q * ENTRIES + s /\ g % ENTRIES = s
    BY Remainder
<1>4. PICK v \in Int, u \in Slots : g + x = v * ENTRIES + u /\ (g + x) % ENTRIES = u
    BY Remainder
<1>5. r = s /\ r \in Int /\ u \in Int
    BY <1>2, <1>3, <1>1 DEF Slots
<1>6. h + x = (p - q + v) * ENTRIES + u
    BY <1>1, <1>2, <1>3, <1>4, <1>5
<1> QED
    BY <1>4, <1>6, RemainderIs

(* The distance between a slot and that of a hash.                         *)
LEMMA Distance ==
    ASSUME NEW h \in Nat, NEW s \in Slots
    PROVE  /\ (s - h) % ENTRIES \in Slots
           /\ s = (h + ((s - h) % ENTRIES)) % ENTRIES
           /\ \A k \in Slots : s = (h + k) % ENTRIES => (s - h) % ENTRIES = k
<1>1. ENTRIES \in Nat /\ ENTRIES > 0 /\ s \in Nat
    BY FlowTableAssumption DEF Slots
<1>2. PICK q \in Int, r \in Slots : s - h = q * ENTRIES + r /\ (s - h) % ENTRIES = r
    BY <1>1, Remainder
<1>3. r \in Nat
    BY <1>1 DEF Slots
<1>4. h + r = (0 - q) * ENTRIES + s
    BY <1>1, <1>2, <1>3
<1>5. (h + r) % ENTRIES = s
    BY <1>4, RemainderIs
<1>6. ASSUME NEW k \in Slots, s = (h + k) % ENTRIES PROVE r = k
    BY <1>5, <1>6, SlotsDiffer
<1> QED
    BY <1>2, <1>5, <1>6

-----------------------------------------------------------------------------
(* Lists of ids.                                                           *)

(* Taking an id from the front of a list.                                  *)
LEMMA TakeFirst ==
    ASSUME NEW s \in Seq(Ids), s # <<>>, Distinct(s)
    PROVE  /\ Head(s) \in Ids /\ Head(s) \in Range(s)
           /\ Tail(s) \in Seq(Ids) /\ Distinct(Tail(s))
           /\ Range(Tail(s)) \subseteq Range(s) /\ Head(s) \notin Range(Tail(s))
           /\ \A g \in Range(s) : g = Head(s) \/ g \in Range(Tail(s))
<1>1. Len(s) \in Nat \ {0} /\ DOMAIN s = 1 .. Len(s) /\ s[1] = Head(s)
    OBVIOUS
<1>2. Tail(s) \in Seq(Ids) /\ DOMAIN Tail(s) = 1 .. Len(s) - 1
    BY <1>1
<1>3. ASSUME NEW i \in 1 .. Len(s) - 1
      PROVE  Tail(s)[i] = s[i + 1] /\ i + 1 \in DOMAIN s /\ i + 1 # 1
    BY <1>1
<1>4. \A g \in Range(s) : g = Head(s) \/ g \in Range(Tail(s))
  <2> SUFFICES ASSUME NEW i \in 1 .. Len(s), i # 1 PROVE s[i] \in Range(Tail(s))
    BY <1>1 DEF Range
  <2>1. i - 1 \in 1 .. Len(s) - 1 /\ (i - 1) + 1 = i
    BY <1>1
  <2> QED
    BY <1>2, <1>3, <2>1, Zenon DEF Range
<1> QED
    BY <1>1, <1>2, <1>3, <1>4, SMTT(30) DEF Distinct, Range

(* Putting one at the front.                                               *)
LEMMA PutFirst ==
    ASSUME NEW s \in Seq(Ids), NEW f \in Ids, Distinct(s), f \notin Range(s)
    PROVE  /\ <<f>> \o s \in Seq(Ids) /\ Distinct(<<f>> \o s)
           /\ \A g \in Range(<<f>> \o s) : g = f \/ g \in Range(s)
<1> DEFINE r == <<f>> \o s
<1>1. r \in Seq(Ids) /\ DOMAIN r = 1 .. Len(s) + 1 /\ Len(s) \in Nat /\ DOMAIN s = 1 .. Len(s)
    OBVIOUS
<1>2. r[1] = f
    OBVIOUS
<1>3. ASSUME NEW i \in 2 .. Len(s) + 1 PROVE r[i] = s[i - 1] /\ i - 1 \in DOMAIN s
    BY <1>1
<1> HIDE DEF r
<1>4. ASSUME NEW i \in DOMAIN r, NEW j \in DOMAIN r, r[i] = r[j] PROVE i = j
  <2>1. i = 1 \/ i \in 2 .. Len(s) + 1
    BY <1>1
  <2>2. j = 1 \/ j \in 2 .. Len(s) + 1
    BY <1>1
  <2>3. CASE i \in 2 .. Len(s) + 1 /\ j \in 2 .. Len(s) + 1
    <3>1. i - 1 = j - 1
        BY <1>3, <1>4, <2>3 DEF Distinct
    <3> QED
        BY <1>1, <2>3, <3>1
  <2> QED
    BY <1>2, <1>3, <1>4, <2>1, <2>2, <2>3 DEF Range
<1>5. \A g \in Range(r) : g = f \/ g \in Range(s)
    BY <1>1, <1>2, <1>3 DEF Range
<1> QED
    BY <1>1, <1>4, <1>5 DEF r, Distinct

(* And at the end.                                                         *)
LEMMA PutLast ==
    ASSUME NEW s \in Seq(Ids), NEW f \in Ids, Distinct(s), f \notin Range(s)
    PROVE  /\ Append(s, f) \in Seq(Ids) /\ Distinct(Append(s, f))
           /\ \A g \in Range(Append(s, f)) : g = f \/ g \in Range(s)
           /\ f \in Range(Append(s, f)) /\ Range(s) \subseteq Range(Append(s, f))
<1> DEFINE r == Append(s, f)
<1>1. r \in Seq(Ids) /\ DOMAIN r = 1 .. Len(s) + 1 /\ Len(s) \in Nat /\ DOMAIN s = 1 .. Len(s)
    OBVIOUS
<1>2. r[Len(s) + 1] = f /\ \A i \in 1 .. Len(s) : r[i] = s[i]
    OBVIOUS
<1> HIDE DEF r
<1>4. Distinct(r)
    BY <1>1, <1>2 DEF Distinct, Range
<1>5. \A g \in Range(r) : g = f \/ g \in Range(s)
    BY <1>1, <1>2 DEF Range
<1>6. f \in Range(r) /\ Range(s) \subseteq Range(r)
    BY <1>1, <1>2 DEF Range
<1> QED
    BY <1>1, <1>4, <1>5, <1>6 DEF r

-----------------------------------------------------------------------------
(* The slots behind that of a flow.                                        *)

(* The constants.                                                          *)
LEMMA Sizes ==
    /\ NBSZ \in Nat /\ NBSZ >= 1 /\ ENTRIES \in Nat /\ 5 * NBSZ < ENTRIES
    /\ \A t \in Tuples : Hash[t] \in Nat
    /\ None \notin Tuples /\ None \notin Ids /\ FLOWST_NUM \in Nat
BY FlowTableAssumption DEF Ids, None

(* The 5 * NBSZ slots that flow_slot_alloc looks at are different ones.    *)
LEMMA FlowSlots ==
    ASSUME NEW t \in Tuples
    PROVE  /\ \A n \in Nat : Slot(t, n) \in Slots
           /\ \A a, b \in 0 .. 5 * NBSZ - 1 : Slot(t, a) = Slot(t, b) => a = b
<1>1. \A n \in Nat : Hash[t] + n \in Int
    BY Sizes
<1>2. \A n \in 0 .. 5 * NBSZ - 1 : n \in Slots
    BY Sizes DEF Slots
<1>3. ASSUME NEW n \in Nat PROVE Slot(t, n) \in Slots
    BY <1>1, SlotIn DEF Slot
<1>4. ASSUME NEW a \in 0 .. 5 * NBSZ - 1, NEW b \in 0 .. 5 * NBSZ - 1,
             Slot(t, a) = Slot(t, b)
      PROVE  a = b
    BY <1>2, <1>4, Sizes, SlotsDiffer DEF Slot
<1> QED
    BY <1>3, <1>4

(* A slot x places behind one is x places further from any hash.           *)
LEMMA FurtherBack ==
    ASSUME NEW t \in Tuples, NEW m \in Nat, NEW h \in Nat, NEW d \in Nat, NEW x \in Nat,
           Slot(t, m) = (h + d) % ENTRIES
    PROVE  Slot(t, m + x) = (h + (d + x)) % ENTRIES
<1>1. Hash[t] \in Nat /\ Hash[t] + m \in Nat /\ h + d \in Nat
    BY Sizes
<1>2. ((Hash[t] + m) + x) % ENTRIES = ((h + d) + x) % ENTRIES
    BY <1>1, SlotShift DEF Slot
<1>3. (Hash[t] + m) + x = Hash[t] + (m + x) /\ (h + d) + x = h + (d + x)
    BY <1>1
<1> QED
    BY <1>2, <1>3 DEF Slot

-----------------------------------------------------------------------------
(* The lookups keep the invariant.                                         *)

(* What a lookup may count on is not disturbed by a step that changes      *)
(* neither the table nor the flows, and is not the copy of a move.         *)
LEMMA KeptSame ==
    ASSUME NEW c \in LookupCores, Kept(c), fp'[c] = fp[c], flow' = flow,
           flowht' = flowht, sp' = sp \/ sp'.pc # "empty_i"
    PROVE  Kept(c)'
BY DEF Kept, InFront, EntryOf, Probed, From

(* The flow state of a flow.                                               *)
LEMMA StateOfFlow ==
    ASSUME IdOwned, NEW t \in Tuples, flow[t] # None
    PROVE  flowst[flow[t]].t = t /\ ~flowst[flow[t]].slowpath
<1>1. flowst[flow[t]] = [t |-> t, slowpath |-> FALSE]
    BY DEF IdOwned
<1> QED
    BY <1>1

(* A step of one core leaves all but its lookup as it was.                 *)
LEMMA CoreStep ==
    ASSUME LookupInv, NEW c \in LookupCores,
           UNCHANGED <<flowht, flowst, spvars>>,
           NEW x, fp' = [fp EXCEPT ![c] = x],
           x \in FpStates,
           x.pc # "idle" => x.t \in Tuples,
           x.pc \in {"id", "hash", "tuple"} => x.j < NBSZ,
           x.valid \/ x.pc \in {"tuple", "found"} => x.id \in Ids,
           inuse' \in [Ids -> SUBSET LookupCores],
           Kept(c)'
    PROVE  LookupInv'
<1> USE DEF LookupInv, spvars
<1>1. \A b \in LookupCores : fp'[b] = IF b = c THEN x ELSE fp[b]
    BY DEF TableTypes
<1>2. TableTypes'
    BY <1>1 DEF TableTypes
<1>3. IdOwned' /\ EntryNear' /\ HasEntry'
    BY DEF IdOwned, EntryNear, HasEntry, EntryOf
<1>4. SlotFree'
    BY DEF SlotFree, From, To
<1>5. ASSUME NEW b \in LookupCores, b # c PROVE Kept(b)'
    BY <1>1, <1>5, KeptSame DEF LookupKept
<1>6. LookupKept'
    BY <1>5 DEF LookupKept
<1> QED
    BY <1>2, <1>3, <1>4, <1>6

(* A lookup begins: the entry it has to find is where it searches.         *)
LEMMA LookupKeeps ==
    ASSUME LookupInv, NEW c \in LookupCores, NEW t \in Tuples, lookup(c, t)
    PROVE  LookupInv'
<1> DEFINE must == /\ flow[t] # None
                   /\ \A s \in Slots : flowht[s].valid
                         /\ flowht[s].id = flow[t] => flowht[s].moves < 2
<1>2. must \in BOOLEAN
    OBVIOUS
<1>3. ASSUME must PROVE \E k \in 0 .. NBSZ - 1 : EntryOf(t, Slot(t, k))
  <2>1. PICK s \in Slots : EntryOf(t, s)
    BY <1>3 DEF LookupInv, HasEntry
  <2>2. flowht[s].valid /\ flowht[s].hash = Hash[t] /\ flowht[s].moves \in {0, 1}
    BY <1>3, <2>1 DEF EntryOf, LookupInv, TableTypes, HtEntries
  <2>3. flowht[s].d \in 0 .. NBSZ - 1
    BY DEF LookupInv, TableTypes, HtEntries
  <2>4. \E k \in 0 .. NBSZ - 1 : s = Slot(t, k)
    BY <2>2, <2>3 DEF LookupInv, EntryNear, Slot
  <2> QED
    BY <2>1, <2>4
<1>4. ASSUME must, sp.pc = "empty_i", flowht[From].moves # 0
      PROVE  flow[t] # flowht[From].id
  <2>1. sp.t \in Tuples /\ sp.m \in Nat /\ sp.n \in Nat /\ sp.m < sp.n
    BY <1>4, Sizes DEF LookupInv, TableTypes, SlotFree, Moving, SpStates
  <2>2. From \in Slots /\ To \in Slots
    BY <2>1, FlowSlots DEF From, To
  <2>3. flowht[From].valid
    BY <1>4, <2>1 DEF LookupInv, SlotFree, Moving, From
  <2>4. flowht[To].valid /\ flowht[To].id = flowht[From].id /\ flowht[To].moves = 2
    BY <1>4, <2>2, <2>3 DEF LookupInv, SlotFree, TableTypes, HtEntries
  <2> QED
    BY <1>4, <2>2, <2>4
<1>1. PICK b \in BOOLEAN : b = must
    BY <1>2, Zenon
<1> DEFINE x == [FpIdle EXCEPT !.pc = "id", !.t = t, !.must = b]
<1>5. fp' = [fp EXCEPT ![c] = x] /\ UNCHANGED <<flowht, flowst, spvars, inuse>>
    BY <1>1, Zenon DEF lookup
<1> HIDE DEF must
<1>6. fp'[c] = x
    BY <1>5 DEF LookupInv, TableTypes
<1>7. /\ FpIdle \in FpStates
      /\ FpIdle.j = 0 /\ FpIdle.valid = FALSE /\ 0 < NBSZ
    BY Sizes DEF FpIdle, FpStates
<1>8. /\ x \in FpStates
      /\ x.pc = "id" /\ x.t = t /\ x.j = 0 /\ x.valid = FALSE /\ x.must = b
    BY <1>1, <1>7, Zenon DEF FpStates
<1>9. inuse' \in [Ids -> SUBSET LookupCores]
    BY <1>5 DEF LookupInv, TableTypes
<1> HIDE DEF x
<1>10. Kept(c)'
  <2>1. must => flow[t] # None
    BY DEF must
  <2>2. ASSUME must PROVE InFront(c, fp[c].j)'
    <3>1. PICK k \in 0 .. NBSZ - 1 : EntryOf(t, Slot(t, k))
      BY <1>3, <2>2
    <3>2. EntryOf(t, Slot(t, k))'
      BY <1>5, <3>1 DEF EntryOf, spvars
    <3> QED
      BY <1>6, <1>8, <3>1, <3>2 DEF InFront
  <2> QED
    BY <1>1, <1>4, <1>5, <1>6, <1>8, <2>1, <2>2 DEF Kept, spvars, From
<1> QED
    BY <1>5, <1>7, <1>8, <1>9, <1>10, CoreStep, Zenon

(* The next slot.                                                          *)
LEMMA NextSlotKeeps ==
    ASSUME LookupInv, NEW c \in LookupCores, fp[c].pc \in {"hash", "tuple"},
           fp[c].must => InFront(c, fp[c].j + 1),
           fp' = Next_j(c), UNCHANGED <<flowht, flowst, spvars, inuse>>
    PROVE  LookupInv'
<1> DEFINE pc == IF fp[c].j + 1 = NBSZ THEN "miss" ELSE "id"
           x == [pc |-> pc, t |-> fp[c].t, j |-> fp[c].j + 1, valid |-> FALSE,
                 id |-> None, must |-> fp[c].must]
<1>1. /\ fp[c] \in FpStates
      /\ fp[c].t \in Tuples /\ fp[c].j < NBSZ /\ inuse \in [Ids -> SUBSET LookupCores]
    BY DEF LookupInv, TableTypes
<1>2. fp' = [fp EXCEPT ![c] = x] /\ fp'[c] = x
    BY <1>1 DEF Next_j, LookupInv, TableTypes, FpStates
<1>3. /\ x \in FpStates
      /\ x.pc \in {"id", "miss"} /\ (x.pc = "id" => x.j < NBSZ) /\ x.t \in Tuples /\ ~x.valid
      /\ x.j = fp[c].j + 1 /\ x.must = fp[c].must /\ x.t = fp[c].t
    BY <1>1, Sizes DEF FpStates
<1>4. fp[c].must => x.pc = "id"
    BY <1>1, Sizes DEF InFront
<1> HIDE DEF x
<1>5. Kept(c)
    BY SMTT(30) DEF LookupInv, LookupKept
<1>6. Kept(c)'
  <2>1. x.must => InFront(c, fp[c].j)'
    BY <1>2, <1>3 DEF InFront, EntryOf, spvars
  <2> QED
    BY <1>2, <1>3, <1>4, <1>5, <2>1, SMTT(30) DEF Kept, spvars, From
<1> QED
    BY <1>1, <1>2, <1>3, <1>6, CoreStep, Zenon

(* The core reads the valid bit and the id of a slot.                      *)
LEMMA ReadIdKeeps ==
    ASSUME LookupInv, NEW c \in LookupCores, read_id(c)
    PROVE  LookupInv'
<1> DEFINE e == flowht[Probed(c)]
<1>1. /\ fp[c] \in FpStates
      /\ fp[c].pc = "id" /\ fp[c].t \in Tuples /\ fp[c].j < NBSZ /\ fp[c].j \in Nat
      /\ inuse \in [Ids -> SUBSET LookupCores]
    BY Sizes DEF LookupInv, TableTypes, read_id, FpStates
<1>2. Probed(c) \in Slots
    BY <1>1, FlowSlots DEF Probed
<1>3. e.valid \in BOOLEAN /\ e.id \in Ids \cup {None} /\ (e.valid => e.id \in Ids)
    BY <1>2 DEF LookupInv, TableTypes, HtEntries
<1> HIDE DEF e
<1> DEFINE x == [fp[c] EXCEPT !.valid = e.valid, !.id = e.id, !.pc = "hash"]
<1>4. /\ fp' = [fp EXCEPT ![c] = x] /\ fp'[c] = x
      /\ UNCHANGED <<flowht, flowst, spvars, inuse>>
    BY Zenon DEF read_id, LookupInv, TableTypes, e
<1>5. /\ x \in FpStates
      /\ x.pc = "hash" /\ x.t = fp[c].t /\ x.j = fp[c].j /\ x.must = fp[c].must
      /\ x.valid = e.valid /\ x.id = e.id
    BY <1>1, <1>3, Zenon DEF FpStates
<1> HIDE DEF x
<1>6. Kept(c)
    BY DEF LookupInv, LookupKept
<1>7. ASSUME fp[c].must
      PROVE  \/ InFront(c, fp[c].j + 1)'
             \/ e.valid /\ e.id = flow[fp[c].t] /\ EntryOf(fp[c].t, Probed(c))'
  <2>1. PICK k \in fp[c].j .. NBSZ - 1 : EntryOf(fp[c].t, Slot(fp[c].t, k))
    BY <1>1, <1>6, <1>7, SMTT(30) DEF Kept, InFront
  <2>2. EntryOf(fp[c].t, Slot(fp[c].t, k))'
    BY <1>4, <1>5, <2>1, SMTT(30) DEF EntryOf, spvars
  <2>3. CASE k = fp[c].j
    BY <1>4, <1>5, <2>1, <2>2, <2>3 DEF EntryOf, Probed, e
  <2>4. CASE k # fp[c].j
    <3>1. k \in fp[c].j + 1 .. NBSZ - 1
        BY <1>1, <2>4, SMTT(30)
    <3> QED
        BY <1>4, <1>5, <2>2, <3>1 DEF InFront
  <2> QED
    BY <2>3, <2>4
<1>8. Kept(c)'
    BY <1>1, <1>4, <1>5, <1>6, <1>7, SMTT(30) DEF Kept, spvars, From
<1> QED
    BY <1>1, <1>3, <1>4, <1>5, <1>8, CoreStep, Zenon

(* The core reads the hash of the slot: it goes on with the id that it     *)
(* holds, or to the next slot.                                             *)
LEMMA ReadHashKeeps ==
    ASSUME LookupInv, NEW c \in LookupCores, read_hash(c)
    PROVE  LookupInv'
<1>1. /\ fp[c] \in FpStates
      /\ fp[c].pc = "hash" /\ fp[c].t \in Tuples /\ fp[c].j < NBSZ
      /\ fp[c].valid => fp[c].id \in Ids
      /\ inuse \in [Ids -> SUBSET LookupCores]
    BY DEF LookupInv, TableTypes, read_hash
<1>2. Kept(c) /\ UNCHANGED <<flowht, flowst, spvars, inuse>>
    BY DEF LookupInv, LookupKept, read_hash
<1>3. CASE fp[c].valid /\ flowht[Probed(c)].hash = Hash[fp[c].t]
  <2> DEFINE x == [fp[c] EXCEPT !.pc = "tuple"]
  <2>1. fp' = [fp EXCEPT ![c] = x] /\ fp'[c] = x
    BY <1>3 DEF read_hash, LookupInv, TableTypes
  <2>2. /\ x \in FpStates
        /\ x.pc = "tuple" /\ x.t = fp[c].t /\ x.j = fp[c].j /\ x.must = fp[c].must
        /\ x.valid = fp[c].valid /\ x.id = fp[c].id
    BY <1>1 DEF FpStates
  <2> HIDE DEF x
  <2>3. InFront(c, fp[c].j + 1)' = InFront(c, fp[c].j + 1)
    BY <1>2, <2>1, <2>2, SMTT(30) DEF InFront, EntryOf, spvars
  <2>4. Kept(c)'
    BY <1>1, <1>2, <2>1, <2>2, <2>3 DEF Kept, spvars, From
  <2> QED
    BY <1>1, <1>2, <1>3, <2>1, <2>2, <2>4, CoreStep, Zenon
<1>4. CASE ~(fp[c].valid /\ flowht[Probed(c)].hash = Hash[fp[c].t])
  <2>1. fp' = Next_j(c)
    BY <1>4 DEF read_hash
  <2>2. fp[c].must => InFront(c, fp[c].j + 1)
    BY <1>1, <1>2, <1>4 DEF Kept, EntryOf
  <2> QED
    BY <1>1, <1>2, <2>1, <2>2, NextSlotKeeps
<1> QED
    BY <1>3, <1>4

(* The core compares the flow's addresses and ports with the packet's.     *)
LEMMA CompareKeeps ==
    ASSUME LookupInv, NEW c \in LookupCores, compare_tuple(c)
    PROVE  LookupInv'
<1>1. /\ fp[c] \in FpStates
      /\ fp[c].pc = "tuple" /\ fp[c].t \in Tuples /\ fp[c].id \in Ids
      /\ inuse \in [Ids -> SUBSET LookupCores]
    BY DEF LookupInv, TableTypes, compare_tuple
<1>2. Kept(c) /\ UNCHANGED <<flowht, flowst, spvars, inuse>>
    BY DEF LookupInv, LookupKept, compare_tuple
<1>3. CASE flowst[fp[c].id].t = fp[c].t
  <2> DEFINE x == [fp[c] EXCEPT !.pc = "found"]
  <2>1. fp' = [fp EXCEPT ![c] = x] /\ fp'[c] = x
    BY <1>3 DEF compare_tuple, LookupInv, TableTypes
  <2>2. /\ x \in FpStates
        /\ x.pc = "found" /\ x.t = fp[c].t /\ x.must = fp[c].must /\ x.id = fp[c].id
    BY <1>1, SMTT(30) DEF FpStates
  <2> HIDE DEF x
  <2>3. Kept(c)'
    BY <1>1, <1>2, <2>1, <2>2 DEF Kept, spvars, From
  <2> QED
    BY <1>1, <1>2, <2>1, <2>2, <2>3, CoreStep, Zenon
<1>4. CASE flowst[fp[c].id].t # fp[c].t
  <2>1. fp' = Next_j(c)
    BY <1>4 DEF compare_tuple
  <2>2. ASSUME fp[c].must PROVE InFront(c, fp[c].j + 1)
    <3>1. flow[fp[c].t] # None => flowst[flow[fp[c].t]].t = fp[c].t
        BY <1>1, StateOfFlow DEF LookupInv
    <3>2. fp[c].id # flow[fp[c].t]
        BY <1>1, <1>4, <3>1, Sizes
    <3> QED
        BY <1>1, <1>2, <2>2, <3>2 DEF Kept
  <2> QED
    BY <1>1, <1>2, <2>1, <2>2, NextSlotKeeps
<1> QED
    BY <1>3, <1>4

(* The core is done with the packet.                                       *)
LEMMA FinishKeeps ==
    ASSUME LookupInv, NEW c \in LookupCores, finish(c)
    PROVE  LookupInv'
<1>1. /\ FpIdle \in FpStates
      /\ FpIdle.pc = "idle" /\ FpIdle.valid = FALSE /\ FpIdle.must = FALSE
    BY Sizes DEF FpIdle, FpStates
<1>2. fp' = [fp EXCEPT ![c] = FpIdle] /\ UNCHANGED <<flowht, flowst, spvars>>
    BY DEF finish
<1>3. inuse' \in [Ids -> SUBSET LookupCores]
    BY DEF finish, LookupInv, TableTypes
<1>4. fp'[c] = FpIdle
    BY <1>2 DEF LookupInv, TableTypes
<1>5. Kept(c)'
    BY <1>1, <1>4 DEF Kept
<1> QED
    BY <1>1, <1>2, <1>3, <1>5, CoreStep, Zenon

-----------------------------------------------------------------------------
(* The slow path keeps the invariant.                                      *)

(* A step that only goes on to another place in the slow path.             *)
LEMMA PlaceStep ==
    ASSUME LookupInv, UNCHANGED <<flowht, flow, closes, inuse, fp>>,
           flowst' \in [Ids -> [t : Tuples \cup {None}, slowpath : BOOLEAN]],
           flow_id_freelist' \in Seq(Ids), closing' \in Seq(Ids),
           sp' \in SpStates, sp'.pc # "empty_i",
           sp'.pc # "idle" => sp'.t \in Tuples /\ sp'.id \in Ids /\ flow[sp'.t] = None,
           IdOwned', SlotFree'
    PROVE  LookupInv'
<1>1. TableTypes'
    BY SMTT(30) DEF LookupInv, TableTypes
<1>2. EntryNear' /\ HasEntry'
    BY SMTT(30) DEF LookupInv, EntryNear, HasEntry, EntryOf
<1>3. ASSUME NEW c \in LookupCores PROVE Kept(c)'
    BY KeptSame, SMTT(30) DEF LookupInv, LookupKept
<1>4. LookupKept'
    BY <1>3 DEF LookupKept
<1> QED
    BY <1>1, <1>2, <1>4, SMTT(30) DEF LookupInv

(* The entry that flow_slot_alloc moves.                                   *)
LEMMA MovableFirst ==
    ASSUME NEW ht, NEW t \in Tuples, NEW n \in NBSZ .. 5 * NBSZ - 1,
           NEW m \in First(Movable(ht, t, n))
    PROVE  m \in 0 .. n - 1 /\ n - m <= NBSZ - 1 - ht[Slot(t, m)].d
BY Sizes DEF Movable, First

(* Taking an id for a flow that is being added.                            *)
LEMMA IdTaken ==
    ASSUME LookupInv, sp.pc = "idle", flow_id_freelist # <<>>,
           flow_id_freelist' = Tail(flow_id_freelist),
           UNCHANGED <<flowst, flow, closing>>,
           sp'.pc \in {"state", "hash_k"}, sp'.id = Head(flow_id_freelist)
    PROVE  /\ IdOwned' /\ flow_id_freelist' \in Seq(Ids) /\ sp'.id \in Ids
<1>1. flow_id_freelist \in Seq(Ids) /\ Distinct(flow_id_freelist)
    BY DEF LookupInv, TableTypes, IdOwned
<1>2. /\ Head(flow_id_freelist) \in Ids
      /\ Head(flow_id_freelist) \in Range(flow_id_freelist)
      /\ flow_id_freelist' \in Seq(Ids) /\ Distinct(flow_id_freelist')
      /\ Range(flow_id_freelist') \subseteq Range(flow_id_freelist)
      /\ Head(flow_id_freelist) \notin Range(flow_id_freelist')
    BY <1>1, TakeFirst
<1>3. IdOwned'
    BY <1>2 DEF LookupInv, IdOwned
<1> QED
    BY <1>2, <1>3, SMTT(30)

(* nicif_connection_add finds a free slot, an entry to move, or neither.   *)
LEMMA AddKeeps ==
    ASSUME LookupInv, NEW t \in Tuples, nicif_connection_add(t)
    PROVE  LookupInv'
<1> DEFINE f == Head(flow_id_freelist)
<1>1. /\ sp.pc = "idle" /\ flow[t] = None /\ flow_id_freelist # <<>>
      /\ UNCHANGED <<flowht, flowst, flow, closing, inuse, closes, fp>>
      /\ flowst' \in [Ids -> [t : Tuples \cup {None}, slowpath : BOOLEAN]]
      /\ closing' \in Seq(Ids)
    BY SMTT(30) DEF nicif_connection_add, LookupInv, TableTypes
<1>2. CASE /\ \E n \in First(Near(t)) : sp' = Found(t, f, n)
           /\ flow_id_freelist' = Tail(flow_id_freelist)
  <2>1. PICK n \in First(Near(t)) : sp' = Found(t, f, n)
    BY <1>2
  <2>2. n \in 0 .. NBSZ - 1 /\ ~flowht[Slot(t, n)].valid
    BY DEF First, Near, Used
  <2>3. sp' = [pc |-> "state", t |-> t, id |-> f, n |-> n, m |-> 0]
    BY <2>1 DEF Found
  <2>4. IdOwned' /\ flow_id_freelist' \in Seq(Ids) /\ f \in Ids
    BY <1>1, <1>2, <2>3, IdTaken
  <2> HIDE DEF f
  <2>5. sp' \in SpStates /\ sp'.pc = "state" /\ sp'.t = t /\ sp'.id = f /\ sp'.n = n
    BY <2>2, <2>3, <2>4, Sizes DEF SpStates
  <2>6. SlotFree'
    BY <1>1, <2>2, <2>5, Sizes DEF SlotFree, Moving, To
  <2> QED
    BY <1>1, <2>4, <2>5, <2>6, PlaceStep
<1>3. CASE /\ Near(t) = {}
           /\ \E n \in First(Far(t)) : \E m \in First(Movable(flowht, t, n)) :
                  sp' = Move(t, f, n, m)
           /\ flow_id_freelist' = Tail(flow_id_freelist)
  <2>0. PICK n \in First(Far(t)) : \E m \in First(Movable(flowht, t, n)) :
             sp' = Move(t, f, n, m)
    BY <1>3
  <2>1. PICK m \in First(Movable(flowht, t, n)) : sp' = Move(t, f, n, m)
    BY <2>0
  <2>2. /\ n \in NBSZ .. 5 * NBSZ - 1 /\ ~flowht[Slot(t, n)].valid
        /\ \A i \in NBSZ .. 5 * NBSZ - 1 : ~Used(t, i) => n <= i
    BY Zenon DEF First, Far, Used
  <2>3. \A i \in 0 .. NBSZ - 1 : Used(t, i)
    BY <1>3, SMTT(30) DEF Near
  <2>4. m \in 0 .. n - 1 /\ n - m <= NBSZ - 1 - flowht[Slot(t, m)].d
    BY <2>2, Sizes, SMTT(30) DEF First, Movable
  <2>5. sp' = [pc |-> "hash_k", t |-> t, id |-> f, n |-> n, m |-> m]
    BY <2>1 DEF Move
  <2>6. \A i \in 0 .. n - 1 : flowht[Slot(t, i)].valid
    BY <2>2, <2>3, Sizes, SMTT(30) DEF Used
  <2>7. IdOwned' /\ flow_id_freelist' \in Seq(Ids) /\ f \in Ids
    BY <1>1, <1>3, <2>5, IdTaken, SMTT(30)
  <2> HIDE DEF f
  <2>8. /\ sp' \in SpStates /\ sp'.pc = "hash_k" /\ sp'.t = t /\ sp'.id = f
        /\ sp'.n = n /\ sp'.m = m
    BY <2>2, <2>4, <2>5, <2>7, Sizes DEF SpStates
  <2>9. SlotFree'
    BY <1>1, <2>2, <2>4, <2>6, <2>8 DEF SlotFree, Moving, To, From
  <2> QED
    BY <1>1, <2>7, <2>8, <2>9, PlaceStep
<1>4. CASE UNCHANGED <<sp, flow_id_freelist>>
  <2>1. IdOwned' /\ SlotFree'
    BY <1>1, <1>4, SMTT(30) DEF LookupInv, IdOwned, SlotFree, Moving, To, From
  <2>2. sp' \in SpStates /\ sp'.pc = "idle" /\ flow_id_freelist' \in Seq(Ids)
    BY <1>1, <1>4 DEF LookupInv, TableTypes
  <2> QED
    BY <1>1, <2>1, <2>2, PlaceStep, SMTT(30)
<1> QED
    BY <1>2, <1>3, <1>4, SMTT(30) DEF nicif_connection_add

(* nicif_connection_add writes the flow state.                             *)
LEMMA AddStateKeeps ==
    ASSUME LookupInv, add_state
    PROVE  LookupInv'
<1>1. /\ sp \in SpStates /\ sp.pc = "state" /\ sp.t \in Tuples /\ sp.id \in Ids
      /\ flow[sp.t] = None /\ flow_id_freelist \in Seq(Ids) /\ closing \in Seq(Ids)
    BY DEF add_state, LookupInv, TableTypes
<1>2. /\ UNCHANGED <<flowht, flow_id_freelist, flow, closing, inuse, closes, fp>>
      /\ sp' = [sp EXCEPT !.pc = "hash"]
      /\ flowst' = [flowst EXCEPT ![sp.id] = [t |-> sp.t, slowpath |-> FALSE]]
    BY DEF add_state
<1>3. /\ sp' \in SpStates /\ sp'.pc = "hash" /\ sp'.t = sp.t /\ sp'.id = sp.id
      /\ sp'.n = sp.n
    BY <1>1, <1>2 DEF SpStates
<1>4. /\ flowst' \in [Ids -> [t : Tuples \cup {None}, slowpath : BOOLEAN]]
      /\ flowst'[sp.id] = [t |-> sp.t, slowpath |-> FALSE]
      /\ \A g \in Ids : g # sp.id => flowst'[g] = flowst[g]
    BY <1>1, <1>2 DEF LookupInv, TableTypes
<1>5. IdOwned'
  <2>1. \A t \in Tuples : flow[t] # None => flow[t] \in Ids /\ flow[t] # sp.id
    BY <1>1, Zenon DEF LookupInv, IdOwned, TableTypes
  <2>2. \A t \in Tuples : flow[t] # None => flowst'[flow[t]] = flowst[flow[t]]
    BY <1>4, <2>1
  <2> QED
    BY <1>1, <1>2, <1>3, <1>4, <2>2, SMTT(30) DEF LookupInv, IdOwned
<1>6. SlotFree'
    BY <1>1, <1>2, <1>3, SMTT(30) DEF LookupInv, SlotFree, Moving, To
<1> QED
    BY <1>1, <1>2, <1>3, <1>4, <1>5, <1>6, PlaceStep

(* nicif_connection_free gives the id back.                                *)
LEMMA FreeKeeps ==
    ASSUME LookupInv, nicif_connection_free
    PROVE  LookupInv'
<1> DEFINE f == Head(closing)
<1>1. /\ flow_id_freelist \in Seq(Ids) /\ Distinct(flow_id_freelist)
      /\ closing \in Seq(Ids) /\ Distinct(closing) /\ closing # <<>>
      /\ sp \in SpStates /\ sp.pc = "idle"
    BY DEF LookupInv, TableTypes, IdOwned, nicif_connection_free
<1>2. /\ UNCHANGED <<flowht, flow, inuse, closes, sp, fp>>
      /\ closing' = Tail(closing) /\ flow_id_freelist' = <<f>> \o flow_id_freelist
      /\ flowst' = [flowst EXCEPT ![f] = NoFlow]
    BY DEF nicif_connection_free
<1>3. /\ f \in Ids /\ f \in Range(closing) /\ closing' \in Seq(Ids) /\ Distinct(closing')
      /\ Range(closing') \subseteq Range(closing) /\ f \notin Range(closing')
    BY <1>1, <1>2, TakeFirst, SMTT(30)
<1>4. f \notin Range(flow_id_freelist)
    BY <1>3 DEF LookupInv, IdOwned
<1>5. /\ flow_id_freelist' \in Seq(Ids) /\ Distinct(flow_id_freelist')
      /\ \A g \in Range(flow_id_freelist') : g = f \/ g \in Range(flow_id_freelist)
    BY <1>1, <1>2, <1>3, <1>4, PutFirst, SMTT(30)
<1> HIDE DEF f
<1>6. /\ flowst' \in [Ids -> [t : Tuples \cup {None}, slowpath : BOOLEAN]]
      /\ \A g \in Ids : g # f => flowst'[g] = flowst[g]
    BY <1>2, <1>3, SMTT(30) DEF LookupInv, TableTypes, NoFlow
<1>7. \A t \in Tuples : flow[t] # None => flow[t] \in Ids /\ flow[t] # f
    BY <1>3, Zenon DEF LookupInv, IdOwned, TableTypes
<1>8. \A t \in Tuples : flow[t] # None => flowst'[flow[t]] = flowst[flow[t]]
    BY <1>6, <1>7
<1>9. IdOwned'
    BY <1>1, <1>2, <1>3, <1>4, <1>5, <1>7, <1>8, Zenon DEF LookupInv, IdOwned
<1>10. SlotFree'
    BY <1>1, <1>2, SMTT(30) DEF SlotFree, Moving
<1> QED
    BY <1>1, <1>2, <1>3, <1>5, <1>6, <1>9, <1>10, PlaceStep, SMTT(30)

(* Excused cores go on as they were, but need not find the flow.           *)
LEMMA Excused ==
    ASSUME TableTypes, NEW ts, Excuse(ts), NEW c \in LookupCores
    PROVE  /\ fp'[c] \in FpStates
           /\ fp'[c].pc = fp[c].pc /\ fp'[c].t = fp[c].t /\ fp'[c].j = fp[c].j
           /\ fp'[c].valid = fp[c].valid /\ fp'[c].id = fp[c].id
           /\ fp'[c].must => fp[c].must /\ fp[c].t \notin ts
<1>1. fp[c] \in FpStates
    BY DEF TableTypes
<1>2. fp'[c] = IF fp[c].t \in ts THEN [fp[c] EXCEPT !.must = FALSE] ELSE fp[c]
    BY DEF Excuse
<1>3. CASE fp[c].t \in ts
  <2>1. fp'[c] = [fp[c] EXCEPT !.must = FALSE]
    BY <1>2, <1>3
  <2> QED
    BY <1>1, <2>1, Zenon DEF FpStates
<1>4. CASE fp[c].t \notin ts
    BY <1>1, <1>2, <1>4
<1> QED
    BY <1>3, <1>4, SMTT(30)

(* All of them are of the right type.                                      *)
LEMMA ExcusedTypes ==
    ASSUME TableTypes, NEW ts, Excuse(ts)
    PROVE  /\ fp' \in [LookupCores -> FpStates]
           /\ \A c \in LookupCores :
                /\ fp'[c].pc # "idle" => fp'[c].t \in Tuples
                /\ fp'[c].pc \in {"id", "hash", "tuple"} => fp'[c].j < NBSZ
                /\ fp'[c].valid \/ fp'[c].pc \in {"tuple", "found"} => fp'[c].id \in Ids
<1>1. \A c \in LookupCores : fp'[c] \in FpStates
    BY Excused
<1>2. fp' = [c \in LookupCores |-> fp'[c]]
    BY DEF Excuse
<1>3. fp' \in [LookupCores -> FpStates]
    BY <1>1, <1>2, SMTT(30)
<1>4. ASSUME NEW c \in LookupCores
      PROVE  /\ fp'[c].pc # "idle" => fp'[c].t \in Tuples
             /\ fp'[c].pc \in {"id", "hash", "tuple"} => fp'[c].j < NBSZ
             /\ fp'[c].valid \/ fp'[c].pc \in {"tuple", "found"} => fp'[c].id \in Ids
  <2>1. /\ fp'[c].pc = fp[c].pc /\ fp'[c].t = fp[c].t /\ fp'[c].j = fp[c].j
        /\ fp'[c].valid = fp[c].valid /\ fp'[c].id = fp[c].id
    BY Excused
  <2> QED
    BY <2>1 DEF TableTypes
<1> QED
    BY <1>3, <1>4

(* nicif_connection_disable: the flow is forgotten and its state marked.   *)
LEMMA DisableKeeps ==
    ASSUME LookupInv, NEW t \in Tuples, nicif_connection_disable(t)
    PROVE  LookupInv'
<1> DEFINE f == flow[t]
<1>1. /\ f \in Ids /\ f # None /\ sp.pc = "idle" /\ closes \in Nat
    BY DEF LookupInv, TableTypes, nicif_connection_disable
<1>2. /\ closes' = closes + 1
      /\ flowst' = [flowst EXCEPT ![f].slowpath = TRUE]
      /\ flow' = [flow EXCEPT ![t] = None]
      /\ sp' = [SpIdle EXCEPT !.pc = "clear", !.t = t, !.id = f]
      /\ Excuse({t})
      /\ UNCHANGED <<flowht, flow_id_freelist, closing, inuse>>
    BY DEF nicif_connection_disable
<1> HIDE DEF f
<1>3. sp' \in SpStates /\ sp'.pc = "clear" /\ sp'.t = t /\ sp'.id = f
  <2>1. SpIdle \in SpStates
    BY Sizes DEF SpIdle, SpStates
  <2> QED
    BY <1>1, <1>2, <2>1, Zenon DEF SpStates
<1>4. /\ flow' \in [Tuples -> Ids \cup {None}] /\ flow'[t] = None
      /\ \A u \in Tuples : u # t => flow'[u] = flow[u]
    BY <1>1, <1>2 DEF LookupInv, TableTypes
<1>5. /\ flowst' \in [Ids -> [t : Tuples \cup {None}, slowpath : BOOLEAN]]
      /\ flowst'[f].t = flowst[f].t /\ \A g \in Ids : g # f => flowst'[g] = flowst[g]
    BY <1>1, <1>2, Zenon DEF LookupInv, TableTypes
<1>6. TableTypes'
  <2>1. closes' \in Nat
    BY <1>1, <1>2
  <2> QED
    BY <1>1, <1>2, <1>3, <1>4, <1>5, <2>1, ExcusedTypes, SMTT(30) DEF LookupInv, TableTypes
<1>7. flowst[f].t = t
    BY <1>1, StateOfFlow, SMTT(30) DEF LookupInv, f
<1>8. \A u \in Tuples : u # t /\ flow[u] # None => flow[u] \in Ids /\ flow[u] # f
    BY <1>1, Zenon DEF LookupInv, IdOwned, TableTypes, f
<1>9. IdOwned'
  <2>1. \A u \in Tuples : flow'[u] # None =>
            u # t /\ flow'[u] = flow[u] /\ flowst'[flow'[u]] = flowst[flow[u]]
    BY <1>4, <1>5, <1>8
  <2>2. f \notin Range(flow_id_freelist) /\ f \notin Range(closing)
    BY <1>1, Zenon DEF LookupInv, IdOwned, f
  <2> QED
    BY <1>2, <1>3, <1>4, <1>5, <1>7, <1>8, <2>1, <2>2, SMTT(30) DEF LookupInv, IdOwned
<1>10. SlotFree' /\ EntryNear'
    BY <1>2, <1>3 DEF LookupInv, SlotFree, Moving, EntryNear
<1>11. HasEntry'
    BY <1>2, <1>4 DEF LookupInv, HasEntry, EntryOf
<1>12. ASSUME NEW c \in LookupCores, fp'[c].must PROVE Kept(c)'
  <2>1. /\ fp'[c].pc = fp[c].pc /\ fp'[c].t = fp[c].t /\ fp'[c].j = fp[c].j
        /\ fp'[c].valid = fp[c].valid /\ fp'[c].id = fp[c].id
        /\ fp[c].must /\ fp[c].t # t
    BY <1>2, <1>12, Excused DEF LookupInv
  <2>2. Kept(c)
    BY SMTT(30) DEF LookupInv, LookupKept
  <2>3. fp[c].pc # "idle" => fp[c].t \in Tuples /\ flow'[fp[c].t] = flow[fp[c].t]
    BY <1>4, <2>1 DEF LookupInv, TableTypes
  <2>4. fp[c].pc # "idle" => /\ InFront(c, fp[c].j)' <=> InFront(c, fp[c].j)
                             /\ InFront(c, fp[c].j + 1)' <=> InFront(c, fp[c].j + 1)
    BY <1>2, <2>1, <2>3 DEF InFront, EntryOf
  <2>5. fp[c].pc # "idle" => (EntryOf(fp[c].t, Probed(c))' <=> EntryOf(fp[c].t, Probed(c)))
    BY <1>2, <2>1, <2>3, SMTT(30) DEF EntryOf, Probed
  <2> QED
    BY <1>3, <2>1, <2>2, <2>3, <2>4, <2>5, Zenon DEF Kept
<1>13. LookupKept'
    BY <1>12, SMTT(30) DEF LookupKept, Kept
<1> QED
    BY <1>6, <1>9, <1>10, <1>11, <1>13 DEF LookupInv

(* Lookups are not disturbed by a step of the slow path that leaves the    *)
(* entries of the flows where they are.                                    *)
LEMMA EntriesStay ==
    ASSUME LookupInv, fp' = fp, sp'.pc # "empty_i",
           \A t \in Tuples : flow[t] # None =>
               /\ flow'[t] = flow[t]
               /\ \A s \in Slots : EntryOf(t, s) => EntryOf(t, s)'
    PROVE  LookupKept'
<1> SUFFICES ASSUME NEW c \in LookupCores, fp[c].must, fp[c].pc # "idle" PROVE Kept(c)'
    BY SMTT(30) DEF LookupKept, Kept
<1>1. fp[c] \in FpStates /\ fp[c].t \in Tuples /\ fp[c].j \in Nat /\ Kept(c)
  <2>1. fp[c] \in FpStates /\ fp[c].t \in Tuples
    BY SMTT(30) DEF LookupInv, TableTypes
  <2>2. Kept(c)
    BY Zenon DEF LookupInv, LookupKept
  <2> QED
    BY <2>1, <2>2, Sizes, SMTT(30) DEF FpStates
<1>2. flow[fp[c].t] # None /\ flow'[fp[c].t] = flow[fp[c].t]
  <2>1. flow[fp[c].t] # None
    BY <1>1, Zenon DEF Kept
  <2> QED
    BY <1>1, <2>1, Zenon
<1>3. \A k \in Nat : Slot(fp[c].t, k) \in Slots
    BY <1>1, FlowSlots, SMTT(30)
<1>4. ASSUME NEW j \in Nat, InFront(c, j) PROVE InFront(c, j)'
    BY <1>1, <1>2, <1>3, <1>4, SMTT(30) DEF InFront
<1>5. EntryOf(fp[c].t, Probed(c)) => EntryOf(fp[c].t, Probed(c))'
    BY <1>1, <1>2, <1>3, SMTT(30) DEF Probed
<1>6. fp[c].j + 1 \in Nat
    BY <1>1
<1>7. /\ InFront(c, fp[c].j) => InFront(c, fp[c].j)'
      /\ InFront(c, fp[c].j + 1) => InFront(c, fp[c].j + 1)'
    BY <1>1, <1>4, <1>6
<1> QED
    BY <1>1, <1>2, <1>5, <1>7, ZenonT(60) DEF Kept

(* An emptied slot keeps its hash only.                                    *)
LEMMA EmptiedIs ==
    ASSUME NEW e \in HtEntries
    PROVE  Emptied(e) \in HtEntries /\ Emptied(e).valid = FALSE
<1>1. Empty \in HtEntries /\ Empty.valid = FALSE
    BY Sizes DEF Empty, HtEntries
<1>2. e.hash \in Nat
    BY DEF HtEntries
<1> QED
    BY <1>1, <1>2 DEF Emptied, HtEntries

(* flow_slot_clear empties at most one slot, one of the flow's.            *)
LEMMA ClearKeeps ==
    ASSUME LookupInv, flow_slot_clear
    PROVE  LookupInv'
<1> DEFINE hits == {n \in 0 .. NBSZ - 1 :
                      /\ Used(sp.t, n)
                      /\ flowht[Slot(sp.t, n)].hash = Hash[sp.t]
                      /\ flowht[Slot(sp.t, n)].id = sp.id}
<1>1. /\ sp \in SpStates /\ sp.pc = "clear" /\ sp.t \in Tuples /\ sp.id \in Ids
      /\ closing \in Seq(Ids) /\ Distinct(closing) /\ sp.id \notin Range(closing)
    BY ZenonT(60) DEF flow_slot_clear, LookupInv, TableTypes, IdOwned
<1>2. /\ \/ hits = {} /\ flowht' = flowht
         \/ \E n \in First(hits) : flowht' = [flowht EXCEPT ![Slot(sp.t, n)] = Emptied(@)]
      /\ closing' = Append(closing, sp.id)
      /\ inuse' = [inuse EXCEPT ![sp.id] = {c \in LookupCores : fp[c].pc # "idle"}]
      /\ sp' = SpIdle
      /\ UNCHANGED <<flowst, flow_id_freelist, flow, closes, fp>>
    BY Zenon DEF flow_slot_clear
<1>3. /\ flowht' \in [Slots -> HtEntries]
      /\ \A s \in Slots : \/ flowht'[s] = flowht[s]
                          \/ flowht[s].id = sp.id /\ ~flowht'[s].valid
  <2>1. CASE flowht' = flowht
    BY <2>1 DEF LookupInv, TableTypes
  <2>2. CASE \E n \in First(hits) : flowht' = [flowht EXCEPT ![Slot(sp.t, n)] = Emptied(@)]
    <3>1. PICK n \in First(hits) :
               flowht' = [flowht EXCEPT ![Slot(sp.t, n)] = Emptied(flowht[Slot(sp.t, n)])]
      BY <2>2, Zenon
    <3>2. n \in hits
      BY DEF First
    <3>3. n \in Nat /\ flowht[Slot(sp.t, n)].id = sp.id
      BY <3>2, Sizes
    <3> HIDE DEF hits
    <3>4. Slot(sp.t, n) \in Slots
      BY <1>1, <3>3, FlowSlots, SMTT(30)
    <3>5. flowht \in [Slots -> HtEntries]
      BY SMTT(30) DEF LookupInv, TableTypes
    <3> QED
      BY <3>1, <3>3, <3>4, <3>5, EmptiedIs, ZenonT(60)
  <2> QED
    BY <1>2, <2>1, <2>2, Zenon
<1> HIDE DEF hits
<1>4. /\ closing' \in Seq(Ids) /\ Distinct(closing')
      /\ \A g \in Range(closing') : g = sp.id \/ g \in Range(closing)
    BY <1>1, <1>2, PutLast, SMTT(30)
<1>5. sp' \in SpStates /\ sp'.pc = "idle"
    BY <1>2, Sizes, SMTT(30) DEF SpIdle, SpStates
<1>6. TableTypes'
  <2>1. inuse' \in [Ids -> SUBSET LookupCores]
    BY <1>2, Zenon DEF LookupInv, TableTypes
  <2> QED
    BY <1>2, <1>3, <1>4, <1>5, <2>1, ZenonT(60) DEF LookupInv, TableTypes
<1>7. IdOwned'
    BY <1>1, <1>2, <1>4, <1>5, SMTT(30) DEF LookupInv, IdOwned
<1>8. SlotFree' /\ EntryNear'
    BY <1>3, <1>5, SMTT(30) DEF LookupInv, SlotFree, Moving, EntryNear
<1>9. ASSUME NEW t \in Tuples, flow[t] # None, NEW s \in Slots, EntryOf(t, s)
      PROVE  EntryOf(t, s)'
  <2>1. flow[t] # sp.id
    BY <1>1, <1>9, Zenon DEF LookupInv, IdOwned
  <2> QED
    BY <1>2, <1>3, <1>9, <2>1, ZenonT(60) DEF EntryOf
<1>10. HasEntry'
    BY <1>2, <1>9, SMTT(30) DEF LookupInv, HasEntry
<1>11. LookupKept'
    BY <1>2, <1>5, <1>9, EntriesStay, Zenon
<1> QED
    BY <1>6, <1>7, <1>8, <1>10, <1>11, SMTT(30) DEF LookupInv
=============================================================================
