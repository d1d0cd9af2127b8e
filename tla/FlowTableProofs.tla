---------------------------- MODULE FlowTableProofs ----------------------------
(***************************************************************************)
(* The stores of flow_slot_alloc and nicif_connection_add keep LookupInv   *)
(* too, so that lookups find their flows and the assertions of             *)
(* flow_slot_alloc hold, in every execution.                               *)
(***************************************************************************)
EXTENDS FlowTableSteps

(* The stores of an entry that is added or moved.                          *)

(* A store to the hash of a slot that is free disturbs nothing.            *)
LEMMA StoreHash ==
    ASSUME LookupInv, NEW s \in Slots, ~flowht[s].valid, NEW h \in Nat,
           flowht' = [flowht EXCEPT ![s].hash = h],
           UNCHANGED <<flowst, flow_id_freelist, flow, closing, inuse, closes, fp>>,
           sp' \in SpStates, sp'.t = sp.t, sp'.id = sp.id, sp'.pc # "empty_i",
           sp'.pc # "idle" => sp.pc # "idle", IdOwned', SlotFree'
    PROVE  LookupInv'
<1>1. flowht \in [Slots -> HtEntries]
    BY DEF LookupInv, TableTypes
<1>2. /\ flowht' \in [Slots -> HtEntries]
      /\ ~flowht'[s].valid /\ \A r \in Slots : r # s => flowht'[r] = flowht[r]
    BY <1>1 DEF HtEntries
<1>3. TableTypes'
    BY <1>2 DEF LookupInv, TableTypes
<1>4. EntryNear'
    BY <1>2 DEF LookupInv, EntryNear
<1>5. \A t \in Tuples, r \in Slots : EntryOf(t, r) => EntryOf(t, r)'
    BY <1>2 DEF EntryOf
<1>6. HasEntry'
    BY <1>5 DEF LookupInv, HasEntry
<1>7. LookupKept'
    BY <1>5, EntriesStay
<1> QED
    BY <1>3, <1>4, <1>6, <1>7 DEF LookupInv

(* nicif_connection_add writes the hash.                                   *)
LEMMA AddHashKeeps ==
    ASSUME LookupInv, add_hash
    PROVE  LookupInv'
<1>1. /\ sp \in SpStates /\ sp.pc = "hash" /\ sp.t \in Tuples /\ sp.id \in Ids
      /\ sp.n \in Nat /\ Hash[sp.t] \in Nat /\ ~flowht[To].valid /\ sp.n < NBSZ
    BY Sizes DEF add_hash, LookupInv, TableTypes, SpStates, SlotFree
<1>2. To \in Slots
    BY <1>1, FlowSlots DEF To
<1>3. /\ flowht' = [flowht EXCEPT ![To].hash = Hash[sp.t]]
      /\ sp' = [sp EXCEPT !.pc = "id"]
      /\ UNCHANGED <<flowst, flow_id_freelist, flow, closing, inuse, closes, fp>>
    BY DEF add_hash
<1>4. sp' \in SpStates /\ sp'.pc = "id" /\ sp'.t = sp.t /\ sp'.id = sp.id /\ sp'.n = sp.n
    BY <1>1, <1>3 DEF SpStates
<1>5. IdOwned'
    BY <1>1, <1>3, <1>4 DEF LookupInv, IdOwned
<1>6. To' = To
    BY <1>4 DEF To
<1>7. flowht'[To] = [flowht[To] EXCEPT !.hash = Hash[sp.t]] /\ flowht[To] \in HtEntries
    BY <1>2, <1>3 DEF LookupInv, TableTypes
<1>8. ~flowht'[To].valid /\ flowht'[To].hash = Hash[sp.t]
    BY <1>1, <1>7 DEF HtEntries
<1>9. SlotFree'
    BY <1>1, <1>4, <1>6, <1>8 DEF SlotFree, Moving
<1> HIDE DEF To
<1> QED
    BY <1>1, <1>2, <1>3, <1>4, <1>5, <1>9, StoreHash, Zenon

(* nicif_connection_add writes the id, and with it the entry is there.     *)
LEMMA AddIdKeeps ==
    ASSUME LookupInv, add_id
    PROVE  LookupInv'
<1> DEFINE h == flowht[To].hash
           e == [valid |-> TRUE, d |-> sp.n, id |-> sp.id, hash |-> h, moves |-> 0]
<1>1. /\ sp \in SpStates /\ sp.pc = "id" /\ sp.t \in Tuples /\ sp.id \in Ids
      /\ sp.n \in 0 .. NBSZ - 1 /\ ~flowht[To].valid /\ flow[sp.t] = None
      /\ h = Hash[sp.t] /\ h \in Nat /\ flowht \in [Slots -> HtEntries]
    BY Sizes, SMTT(30) DEF add_id, LookupInv, TableTypes, SpStates, SlotFree
<1>2. To \in Slots /\ To = (h + sp.n) % ENTRIES
    BY <1>1, FlowSlots DEF To, Slot
<1>3. /\ flowht' = [flowht EXCEPT ![To] = e]
      /\ flow' = [flow EXCEPT ![sp.t] = sp.id] /\ sp' = SpIdle
      /\ UNCHANGED <<flowst, flow_id_freelist, closing, inuse, closes, fp>>
    BY DEF add_id
<1> HIDE DEF h
<1>4. /\ e \in HtEntries /\ e.valid /\ e.d = sp.n /\ e.id = sp.id /\ e.hash = h
      /\ e.moves = 0
    BY <1>1 DEF HtEntries
<1> HIDE DEF e
<1>5. /\ flowht' \in [Slots -> HtEntries] /\ flowht'[To] = e
      /\ \A s \in Slots : s # To => flowht'[s] = flowht[s]
    BY <1>1, <1>2, <1>3, <1>4
<1>6. /\ flow' \in [Tuples -> Ids \cup {None}] /\ flow'[sp.t] = sp.id
      /\ \A u \in Tuples : u # sp.t => flow'[u] = flow[u]
    BY <1>1, <1>3 DEF LookupInv, TableTypes
<1>7. sp' \in SpStates /\ sp'.pc = "idle"
    BY <1>3, Sizes DEF SpIdle, SpStates
<1>8. TableTypes'
    BY <1>1, <1>3, <1>4, <1>5, <1>6, <1>7, SMTT(30) DEF LookupInv, TableTypes
<1>9. IdOwned'
  <2>1. \A u \in Tuples : u # sp.t /\ flow[u] # None => flow[u] # sp.id
    BY <1>1, Zenon DEF LookupInv, IdOwned
  <2>2. /\ sp.id \notin Range(flow_id_freelist) /\ sp.id \notin Range(closing)
        /\ flowst[sp.id] = [t |-> sp.t, slowpath |-> FALSE]
    BY <1>1 DEF LookupInv, IdOwned
  <2>3. sp.id # None
    BY <1>1, Sizes
  <2>4. ASSUME NEW u \in Tuples, flow'[u] # None
        PROVE  /\ flow'[u] \notin Range(flow_id_freelist)
               /\ flow'[u] \notin Range(closing)
               /\ \A v \in Tuples : flow'[v] = flow'[u] => v = u
               /\ flowst[flow'[u]] = [t |-> u, slowpath |-> FALSE]
    <3>1. CASE u = sp.t
      BY <1>6, <2>1, <2>2, <2>3, <3>1, SMTT(30)
    <3>2. CASE u # sp.t
      BY <1>6, <2>1, <2>4, <3>2 DEF LookupInv, IdOwned
    <3> QED
      BY <3>1, <3>2
  <2> QED
    BY <1>3, <1>7, <2>4, SMTT(30) DEF LookupInv, IdOwned
<1>10. SlotFree'
    BY <1>7 DEF SlotFree, Moving
<1>11. EntryNear'
    BY <1>1, <1>2, <1>4, <1>5 DEF LookupInv, EntryNear
<1>12. ASSUME NEW t \in Tuples, flow[t] # None
       PROVE  /\ flow'[t] = flow[t]
              /\ \A s \in Slots : EntryOf(t, s) => EntryOf(t, s)'
  <2>1. flow'[t] = flow[t]
    BY <1>1, <1>6, <1>12
  <2> QED
    BY <1>1, <1>5, <2>1 DEF EntryOf
<1>14. HasEntry'
  <2> SUFFICES ASSUME NEW t \in Tuples, flow'[t] # None
               PROVE  \E s \in Slots : EntryOf(t, s)'
    BY DEF HasEntry
  <2>1. CASE t = sp.t
    BY <1>1, <1>2, <1>4, <1>5, <1>6, <2>1 DEF EntryOf
  <2>2. CASE t # sp.t
    BY <1>6, <1>12, <2>2 DEF LookupInv, HasEntry
  <2> QED
    BY <2>1, <2>2
<1>15. LookupKept'
    BY <1>3, <1>7, <1>12, EntriesStay
<1> QED
    BY <1>8, <1>9, <1>10, <1>11, <1>14, <1>15 DEF LookupInv

(* What is known of the two slots of a move.                               *)
LEMMA MoveSlots ==
    ASSUME LookupInv, sp.pc \in Moving
    PROVE  /\ sp \in SpStates /\ sp.t \in Tuples /\ sp.id \in Ids /\ flow[sp.t] = None
           /\ sp.n \in 0 .. 5 * NBSZ - 1 /\ sp.m \in 0 .. 5 * NBSZ - 1 /\ sp.m < sp.n
           /\ NBSZ <= sp.n
           /\ From \in Slots /\ To \in Slots /\ From # To
           /\ flowht \in [Slots -> HtEntries] /\ flowht[From].valid /\ flowht[From].id \in Ids
           /\ \A i \in 0 .. sp.n - 1 : flowht[Slot(sp.t, i)].valid /\ Slot(sp.t, i) # To
           /\ \A i \in 0 .. sp.m - 1 : Slot(sp.t, i) # From
           /\ sp.n - sp.m <= NBSZ - 1 - flowht[From].d
<1>1. /\ sp \in SpStates /\ sp.t \in Tuples /\ sp.id \in Ids /\ flow[sp.t] = None
      /\ flowht \in [Slots -> HtEntries]
    BY DEF LookupInv, TableTypes, Moving
<1>2. /\ sp.n \in 0 .. 5 * NBSZ - 1 /\ sp.m \in 0 .. 5 * NBSZ - 1 /\ sp.m < sp.n
      /\ NBSZ <= sp.n
      /\ sp.n - sp.m <= NBSZ - 1 - flowht[From].d
      /\ \A i \in 0 .. sp.n - 1 : flowht[Slot(sp.t, i)].valid
    BY <1>1 DEF LookupInv, SlotFree, SpStates
<1>3. From \in Slots /\ To \in Slots
    BY <1>1, <1>2, Sizes, FlowSlots DEF From, To
<1>4. \A i \in 0 .. sp.n - 1 : i \in 0 .. 5 * NBSZ - 1 /\ i # sp.n
    BY <1>2, Sizes
<1>5. \A i \in 0 .. sp.n - 1 : Slot(sp.t, i) # To
    BY <1>1, <1>2, <1>4, FlowSlots DEF To
<1>6. \A i \in 0 .. sp.m - 1 : i \in 0 .. 5 * NBSZ - 1 /\ i # sp.m
    BY <1>2, Sizes
<1>7. \A i \in 0 .. sp.m - 1 : Slot(sp.t, i) # From
    BY <1>1, <1>2, <1>6, FlowSlots DEF From
<1>8. sp.m \in 0 .. sp.n - 1
    BY <1>2, Sizes
<1>9. From # To /\ flowht[From].valid
    BY <1>2, <1>5, <1>8 DEF From
<1>10. flowht[From].id \in Ids
    BY <1>3, <1>9 DEF LookupInv, TableTypes
<1> QED
    BY <1>1, <1>2, <1>3, <1>5, <1>7, <1>9, <1>10

(* The first store of a move.                                              *)
LEMMA MoveHashKeeps ==
    ASSUME LookupInv, move_hash
    PROVE  LookupInv'
<1> DEFINE h == flowht[From].hash
<1>1. sp.pc = "hash_k" /\ sp.pc \in Moving /\ ~flowht[To].valid
    BY DEF move_hash, Moving, LookupInv, SlotFree
<1>2. /\ flowht' = [flowht EXCEPT ![To].hash = h]
      /\ sp' = [sp EXCEPT !.pc = "id_k"]
      /\ UNCHANGED <<flowst, flow_id_freelist, flow, closing, inuse, closes, fp>>
    BY DEF move_hash
<1>3. h \in Nat
    BY <1>1, MoveSlots DEF HtEntries
<1>4. sp \in SpStates
    BY <1>1, MoveSlots
<1>5. /\ sp' \in SpStates /\ sp'.pc = "id_k" /\ sp'.t = sp.t /\ sp'.id = sp.id
      /\ sp'.n = sp.n /\ sp'.m = sp.m
    BY <1>2, <1>4 DEF SpStates
<1>6. IdOwned'
    BY <1>1, <1>2, <1>5 DEF LookupInv, IdOwned
<1>7. To' = To /\ From' = From
    BY <1>5 DEF To, From
<1>8. /\ flowht'[To] = [flowht[To] EXCEPT !.hash = h] /\ flowht[To] \in HtEntries
      /\ \A s \in Slots : s # To => flowht'[s] = flowht[s]
    BY <1>1, <1>2, MoveSlots
<1> HIDE DEF h
<1>9. ~flowht'[To].valid /\ flowht'[To].hash = h
    BY <1>1, <1>3, <1>8 DEF HtEntries
<1>10. flowht'[From] = flowht[From] /\ flowht[From].hash = h
    BY <1>1, <1>8, MoveSlots DEF h
<1>11. \A i \in 0 .. sp.n - 1 : flowht'[Slot(sp.t, i)] = flowht[Slot(sp.t, i)]
  <2> TAKE i \in 0 .. sp.n - 1
  <2>1. i \in Nat /\ sp.t \in Tuples /\ Slot(sp.t, i) # To
    BY <1>1, MoveSlots
  <2>2. Slot(sp.t, i) \in Slots
    BY <2>1, FlowSlots
  <2> QED
    BY <1>8, <2>1, <2>2
<1>12. SlotFree'
    BY <1>1, <1>5, <1>7, <1>9, <1>10, <1>11, SMTT(30) DEF LookupInv, SlotFree, Moving
<1> HIDE DEF To, From
<1> QED
    BY <1>1, <1>2, <1>3, <1>5, <1>6, <1>12, MoveSlots, StoreHash, Zenon

(* The second store of a move: there are two entries now.                  *)
LEMMA MoveIdKeeps ==
    ASSUME LookupInv, move_id
    PROVE  LookupInv'
<1> DEFINE e == flowht[From]
           w == IF e.moves = 0 THEN 1 ELSE 2
           g == flowht[To].hash
           x == [e EXCEPT !.hash = g, !.moves = w]
           ts == IF e.moves = 0 THEN {} ELSE {flowst[e.id].t}
<1>1. /\ sp.pc = "id_k" /\ sp.pc \in Moving /\ ~flowht[To].valid
      /\ g = e.hash
    BY DEF move_id, Moving, LookupInv, SlotFree
<1>2. /\ flowht' = [flowht EXCEPT ![To] = x]
      /\ sp' = [sp EXCEPT !.pc = "empty_i"] /\ Excuse(ts)
      /\ UNCHANGED <<flowst, flow_id_freelist, flow, closing, inuse, closes>>
    BY DEF move_id
<1>3. e \in HtEntries /\ e.valid /\ e.id \in Ids
    BY <1>1, MoveSlots
<1>4. w = (IF e.moves = 0 THEN 1 ELSE 2) /\ w \in 0 .. 2
    OBVIOUS
<1> HIDE DEF w
<1>5. /\ x \in HtEntries /\ x.valid /\ x.id = e.id /\ x.hash = e.hash /\ x.moves = w
      /\ x = [e EXCEPT !.moves = IF @ = 0 THEN 1 ELSE 2]
    BY <1>1, <1>3, <1>4, Zenon DEF HtEntries
<1> HIDE DEF x
<1>6. /\ flowht' \in [Slots -> HtEntries] /\ flowht'[To] = x
      /\ \A s \in Slots : s # To => flowht'[s] = flowht[s]
    BY <1>1, <1>2, <1>5, MoveSlots
<1>7. flowht'[From] = e
    BY <1>1, <1>6, MoveSlots
<1>8. /\ sp' \in SpStates /\ sp'.pc = "empty_i" /\ sp'.t = sp.t /\ sp'.id = sp.id
      /\ sp'.n = sp.n /\ sp'.m = sp.m
  <2>1. sp \in SpStates
    BY <1>1, MoveSlots
  <2> QED
    BY <1>2, <2>1 DEF SpStates
<1>9. To' = To /\ From' = From
    BY <1>8 DEF To, From
<1>10. TableTypes'
  <2>1. /\ fp' \in [LookupCores -> FpStates]
        /\ \A c \in LookupCores :
              /\ fp'[c].pc # "idle" => fp'[c].t \in Tuples
              /\ fp'[c].pc \in {"id", "hash", "tuple"} => fp'[c].j < NBSZ
              /\ fp'[c].valid \/ fp'[c].pc \in {"tuple", "found"} => fp'[c].id \in Ids
    BY <1>2, ExcusedTypes DEF LookupInv
  <2>2. \A s \in Slots : flowht'[s].valid => flowht'[s].id \in Ids
    BY <1>3, <1>5, <1>6, Zenon DEF LookupInv, TableTypes
  <2>3. sp.t \in Tuples /\ sp.id \in Ids /\ flow[sp.t] = None
    BY <1>1, MoveSlots
  <2> QED
    BY <1>2, <1>6, <1>8, <2>1, <2>2, <2>3, SMTT(30) DEF LookupInv, TableTypes
<1>11. IdOwned'
    BY <1>1, <1>2, <1>8, SMTT(30) DEF LookupInv, IdOwned
<1>12. SlotFree'
  <2>1. \A i \in 0 .. sp.n - 1 : flowht'[Slot(sp.t, i)].valid
    <3> TAKE i \in 0 .. sp.n - 1
    <3>1. i \in Nat /\ sp.t \in Tuples /\ Slot(sp.t, i) # To /\ flowht[Slot(sp.t, i)].valid
      BY <1>1, MoveSlots
    <3>2. Slot(sp.t, i) \in Slots
      BY <3>1, FlowSlots
    <3> QED
      BY <1>6, <3>1, <3>2
  <2>2. NBSZ <= sp.n /\ sp.m < sp.n /\ sp.n - sp.m <= NBSZ - 1 - e.d
    BY <1>1, MoveSlots
  <2> HIDE DEF e
  <2> QED
    BY <1>5, <1>6, <1>7, <1>8, <1>9, <2>1, <2>2, SMTT(30) DEF SlotFree, Moving
<1>13. EntryNear'
  <2>1. ASSUME e.moves = 0 PROVE \E k \in 0 .. NBSZ - 1 : To = (e.hash + k) % ENTRIES
    <3>1. e.d \in Nat /\ e.hash \in Nat
      BY <1>3, Sizes DEF HtEntries
    <3>2. From = (e.hash + e.d) % ENTRIES
      BY <1>1, <1>3, <2>1, MoveSlots DEF LookupInv, EntryNear
    <3>3. /\ sp.t \in Tuples /\ sp.m \in Nat /\ sp.n \in Nat /\ sp.m < sp.n
          /\ sp.n - sp.m <= NBSZ - 1 - e.d
      BY <1>1, MoveSlots
    <3>4. sp.n - sp.m \in Nat /\ sp.m + (sp.n - sp.m) = sp.n
      BY <3>3
    <3>5. Slot(sp.t, sp.m + (sp.n - sp.m)) = (e.hash + (e.d + (sp.n - sp.m))) % ENTRIES
      BY <3>1, <3>2, <3>3, <3>4, FurtherBack DEF From
    <3>6. e.d + (sp.n - sp.m) \in 0 .. NBSZ - 1
      BY <3>1, <3>3, <3>4, Sizes
    <3> QED
      BY <3>4, <3>5, <3>6 DEF To
  <2>2. x.moves # 0 /\ (x.moves = 1 => e.moves = 0)
    BY <1>4, <1>5
  <2> HIDE DEF e
  <2> SUFFICES ASSUME NEW s \in Slots, flowht'[s].valid
               PROVE  /\ flowht'[s].moves = 0 =>
                            s = (flowht'[s].hash + flowht'[s].d) % ENTRIES
                      /\ flowht'[s].moves = 1 => \E k \in 0 .. NBSZ - 1 :
                            s = (flowht'[s].hash + k) % ENTRIES
    BY DEF EntryNear
  <2>3. CASE s = To
    <3>1. flowht'[s] = x
      BY <1>6, <2>3
    <3>2. ASSUME x.moves = 1 PROVE \E k \in 0 .. NBSZ - 1 : s = (x.hash + k) % ENTRIES
      BY <1>5, <2>1, <2>2, <2>3, <3>2
    <3> QED
      BY <2>2, <3>1, <3>2
  <2>4. CASE s # To
    BY <1>6, <2>4 DEF LookupInv, EntryNear
  <2> QED
    BY <2>3, <2>4
<1>14. \A t \in Tuples, s \in Slots : EntryOf(t, s) => EntryOf(t, s)'
    BY <1>1, <1>2, <1>6 DEF EntryOf
<1>15. HasEntry'
    BY <1>2, <1>14, SMTT(30) DEF LookupInv, HasEntry
<1>16. ASSUME NEW c \in LookupCores, fp'[c].must, fp'[c].pc # "idle" PROVE Kept(c)'
  <2>1. /\ fp'[c].pc = fp[c].pc /\ fp'[c].t = fp[c].t /\ fp'[c].j = fp[c].j
        /\ fp'[c].valid = fp[c].valid /\ fp'[c].id = fp[c].id
        /\ fp[c].must /\ fp[c].t \notin ts
    BY <1>2, <1>16, Excused, SMTT(30) DEF LookupInv
  <2>2. Kept(c) /\ fp[c].t \in Tuples /\ fp[c].j \in Nat
    BY <1>16, <2>1, Sizes, SMTT(30) DEF LookupInv, LookupKept, TableTypes, FpStates
  <2>3. flow[fp[c].t] # None /\ flow' = flow
    BY <1>2, <1>16, <2>1, <2>2 DEF Kept
  <2>4. \A k \in Nat : Slot(fp[c].t, k) \in Slots
    BY <2>2, FlowSlots, SMTT(30)
  <2>5. /\ InFront(c, fp[c].j) => InFront(c, fp[c].j)'
        /\ InFront(c, fp[c].j + 1) => InFront(c, fp[c].j + 1)'
    BY <1>14, <2>1, <2>2, <2>4 DEF InFront
  <2>6. EntryOf(fp[c].t, Probed(c)) => EntryOf(fp[c].t, Probed(c))'
    BY <1>14, <2>1, <2>2, <2>4, SMTT(30) DEF Probed
  <2>7. e.moves # 0 => flow[fp[c].t] # e.id
    <3>1. flowst[flow[fp[c].t]].t = fp[c].t
      BY <2>2, <2>3, StateOfFlow DEF LookupInv
    <3> QED
      BY <2>1, <3>1
  <2> HIDE DEF e, ts
  <2> QED
    BY <1>7, <1>9, <2>1, <2>2, <2>3, <2>5, <2>6, <2>7, SMTT(30) DEF Kept
<1>17. LookupKept'
    BY <1>16 DEF LookupKept, Kept
<1> QED
    BY <1>10, <1>11, <1>12, <1>13, <1>15, <1>17 DEF LookupInv

(* The third store of a move.  A lookup that counts on the entry which is  *)
(* emptied finds the copy: it lies in front of it, and within its reach.   *)
LEMMA CopyInFront ==
    ASSUME LookupInv, sp.pc = "empty_i", NEW c \in LookupCores, fp[c].must,
           fp[c].pc # "idle", NEW k \in 0 .. NBSZ - 1,
           EntryOf(fp[c].t, Slot(fp[c].t, k)), Slot(fp[c].t, k) = From
    PROVE  \E i \in k + 1 .. NBSZ - 1 : Slot(fp[c].t, i) = To
<1> DEFINE e == flowht[From]
           t == fp[c].t
<1>1. sp.pc \in Moving /\ t \in Tuples /\ Kept(c)
    BY DEF Moving, LookupInv, TableTypes, LookupKept
<1>2. e.valid /\ e.id = flow[t] /\ e.hash = Hash[t] /\ e \in HtEntries
    BY <1>1, MoveSlots, SMTT(30) DEF EntryOf
<1>3. e.moves = 0
    BY <1>2, SMTT(30) DEF LookupInv, LookupKept, Kept
<1>4. From = (e.hash + e.d) % ENTRIES /\ e.d \in 0 .. NBSZ - 1 /\ e.hash \in Nat
    BY <1>1, <1>2, <1>3, MoveSlots, SMTT(30) DEF LookupInv, EntryNear, HtEntries
<1>5. From = Slot(t, e.d)
    BY <1>2, <1>4 DEF Slot
<1>6. e.d \in 0 .. 5 * NBSZ - 1 /\ k \in 0 .. 5 * NBSZ - 1
    BY <1>4, Sizes
<1>7. k = e.d
    BY <1>1, <1>5, <1>6, FlowSlots, SMTT(30)
<1>8. /\ sp.t \in Tuples /\ sp.m \in Nat /\ sp.n \in Nat /\ sp.m < sp.n
      /\ sp.n - sp.m <= NBSZ - 1 - e.d
    BY <1>1, MoveSlots
<1>9. sp.n - sp.m \in Nat /\ sp.m + (sp.n - sp.m) = sp.n /\ e.d \in Nat
    BY <1>4, <1>8
<1> HIDE DEF e
<1>10. Slot(sp.t, sp.m + (sp.n - sp.m)) = (e.hash + (e.d + (sp.n - sp.m))) % ENTRIES
    BY <1>4, <1>8, <1>9, FurtherBack DEF From
<1>11. Slot(t, e.d + (sp.n - sp.m)) = To
    BY <1>2, <1>9, <1>10 DEF Slot, To
<1>12. e.d + (sp.n - sp.m) \in k + 1 .. NBSZ - 1
    BY <1>4, <1>7, <1>8, <1>9, Sizes
<1> QED
    BY <1>11, <1>12

(* The slot that was emptied is the next one to be filled; the lookups     *)
(* that counted on it count on the copy.                                   *)
LEMMA MoveEmptyKeeps ==
    ASSUME LookupInv, move_empty
    PROVE  LookupInv'
<1> DEFINE e == flowht[From]
<1>1. sp.pc = "empty_i" /\ sp.pc \in Moving
    BY DEF move_empty, Moving
<1>2. /\ flowht' = [flowht EXCEPT ![From] = Emptied(e)]
      /\ UNCHANGED <<flowst, flow, closing, inuse, closes, fp>>
    BY DEF move_empty
<1>3. /\ flowht' \in [Slots -> HtEntries] /\ ~flowht'[From].valid
      /\ \A s \in Slots : s # From => flowht'[s] = flowht[s]
    BY <1>1, <1>2, MoveSlots, EmptiedIs, Zenon
<1>4. /\ flowht[To].valid /\ flowht[To].id = e.id /\ flowht[To].hash = e.hash
      /\ flowht'[To] = flowht[To]
  <2>1. e \in HtEntries /\ e.valid /\ To \in Slots /\ To # From
    BY <1>1, MoveSlots
  <2>2. flowht[To] = [e EXCEPT !.moves = IF @ = 0 THEN 1 ELSE 2]
    BY <1>1 DEF LookupInv, SlotFree
  <2> QED
    BY <1>3, <2>1, <2>2 DEF HtEntries
<1>14. PICK a \in Slots, b \in Slots : a = From /\ b = To
    BY <1>1, MoveSlots
<1>5. ASSUME NEW t \in Tuples, NEW s \in Slots, EntryOf(t, s)
      PROVE  /\ s # a => EntryOf(t, s)'
             /\ s = a => EntryOf(t, b)'
    BY <1>2, <1>3, <1>4, <1>5, <1>14 DEF EntryOf
<1>6. HasEntry'
    BY <1>2, <1>5, <1>14 DEF LookupInv, HasEntry
<1>7. EntryNear'
    BY <1>3 DEF LookupInv, EntryNear
<1>8. /\ sp \in SpStates /\ sp.t \in Tuples /\ sp.id \in Ids /\ flow[sp.t] = None
      /\ sp.n \in 0 .. 5 * NBSZ - 1 /\ sp.m \in 0 .. 5 * NBSZ - 1 /\ sp.m < sp.n
    BY <1>1, MoveSlots
<1>9. \A i \in 0 .. sp.m - 1 : flowht'[Slot(sp.t, i)].valid
  <2> TAKE i \in 0 .. sp.m - 1
  <2>1. i \in Nat /\ i \in 0 .. sp.n - 1
    BY <1>8, Sizes
  <2>2. Slot(sp.t, i) # From /\ flowht[Slot(sp.t, i)].valid /\ Slot(sp.t, i) \in Slots
    BY <1>1, <1>8, <2>1, MoveSlots, FlowSlots, SMTT(30)
  <2> QED
    BY <1>3, <2>2
<1>10. /\ sp' \in SpStates /\ sp'.pc # "empty_i"
       /\ sp'.pc # "idle" => sp'.t \in Tuples /\ sp'.id \in Ids /\ flow[sp'.t] = None
       /\ flow_id_freelist' \in Seq(Ids) /\ IdOwned' /\ SlotFree'
  <2>1. flow_id_freelist \in Seq(Ids) /\ Distinct(flow_id_freelist)
    BY DEF LookupInv, TableTypes, IdOwned
  <2>2. CASE /\ sp.m < NBSZ /\ sp' = Found(sp.t, sp.id, sp.m)
             /\ UNCHANGED flow_id_freelist
    <3>1. /\ sp' \in SpStates /\ sp'.pc = "state" /\ sp'.t = sp.t /\ sp'.id = sp.id
          /\ sp'.n = sp.m
      BY <1>8, <2>2, Sizes, SMTT(30) DEF Found, SpStates
    <3>2. IdOwned'
      BY <1>1, <1>2, <2>2, <3>1, SMTT(30) DEF LookupInv, IdOwned
    <3>3. SlotFree'
      BY <1>3, <2>2, <3>1 DEF SlotFree, Moving, To, From
    <3> QED
      BY <1>8, <2>1, <2>2, <3>1, <3>2, <3>3, SMTT(30)
  <2>3. CASE /\ sp.m >= NBSZ
             /\ \E m \in First(Movable(flowht', sp.t, sp.m)) :
                    sp' = Move(sp.t, sp.id, sp.m, m)
             /\ UNCHANGED flow_id_freelist
    <3>0. PICK m \in First(Movable(flowht', sp.t, sp.m)) : sp' = Move(sp.t, sp.id, sp.m, m)
      BY <2>3
    <3>1. sp.m \in NBSZ .. 5 * NBSZ - 1
      BY <1>8, <2>3, Sizes
    <3>2. m \in 0 .. sp.m - 1 /\ sp.m - m <= NBSZ - 1 - flowht'[Slot(sp.t, m)].d
      BY <1>8, <3>1, MovableFirst, Zenon
    <3>3. sp' = [pc |-> "hash_k", t |-> sp.t, id |-> sp.id, n |-> sp.m, m |-> m]
      BY <3>0 DEF Move
    <3>4. m \in 0 .. 5 * NBSZ - 1
      BY <1>8, <3>2, Sizes
    <3>5. /\ sp' \in SpStates /\ sp'.pc = "hash_k" /\ sp'.t = sp.t /\ sp'.id = sp.id
          /\ sp'.n = sp.m /\ sp'.m = m
      BY <1>8, <3>3, <3>4 DEF SpStates
    <3>6. IdOwned'
      BY <1>1, <1>2, <2>3, <3>5, Zenon DEF LookupInv, IdOwned
    <3>7. SlotFree'
      <4>1. To' = From /\ From' = Slot(sp.t, m)
        BY <3>5 DEF To, From
      <4> HIDE DEF From, To
      <4>2. ~flowht'[To'].valid /\ m < sp.m
        BY <1>3, <1>8, <3>2, <4>1
      <4> QED
        BY <1>9, <2>3, <3>2, <3>5, <4>1, <4>2 DEF SlotFree, Moving
    <3> QED
      BY <1>8, <2>1, <2>3, <3>5, <3>6, <3>7, SMTT(30)
  <2>4. CASE sp' = SpIdle /\ flow_id_freelist' = <<sp.id>> \o flow_id_freelist
    <3>1. sp' \in SpStates /\ sp'.pc = "idle"
      BY <2>4, Sizes DEF SpIdle, SpStates
    <3>2. sp.id \notin Range(flow_id_freelist) /\ sp.id \notin Range(closing)
      BY <1>1 DEF LookupInv, IdOwned
    <3>3. /\ flow_id_freelist' \in Seq(Ids) /\ Distinct(flow_id_freelist')
          /\ \A g \in Range(flow_id_freelist') : g = sp.id \/ g \in Range(flow_id_freelist)
      BY <1>8, <2>1, <2>4, <3>2, PutFirst, SMTT(30)
    <3>4. \A t \in Tuples : flow[t] # None => flow[t] # sp.id
      BY <1>1, Zenon DEF LookupInv, IdOwned
    <3>5. IdOwned'
      BY <1>2, <3>1, <3>2, <3>3, <3>4, SMTT(30) DEF LookupInv, IdOwned
    <3>6. SlotFree'
      BY <3>1, SMTT(30) DEF SlotFree, Moving
    <3> QED
      BY <3>1, <3>3, <3>5, <3>6
  <2> QED
    BY <1>2, <2>2, <2>3, <2>4, Zenon DEF move_empty
<1>11. TableTypes'
    BY <1>2, <1>3, <1>10, SMTT(30) DEF LookupInv, TableTypes
<1>12. ASSUME NEW c \in LookupCores, fp[c].must, fp[c].pc # "idle" PROVE Kept(c)'
  <2>1. Kept(c) /\ fp[c].t \in Tuples /\ fp[c].j \in Nat
    BY <1>12, Sizes, SMTT(30) DEF LookupInv, LookupKept, TableTypes, FpStates
  <2> PICK t \in Tuples : t = fp[c].t
    BY <2>1
  <2>2. \A k \in Nat : Slot(t, k) \in Slots
    BY <2>1, FlowSlots
  <2>3. ASSUME NEW j \in Nat, NEW k \in j .. NBSZ - 1, EntryOf(t, Slot(t, k))
        PROVE  \E i \in k .. NBSZ - 1 : EntryOf(t, Slot(t, i))'
    <3>1. k \in 0 .. NBSZ - 1 /\ k \in Nat
      BY <2>3, Sizes
    <3>2. CASE Slot(t, k) # a
      <4>1. k \in k .. NBSZ - 1 /\ EntryOf(t, Slot(t, k))'
        BY <1>5, <2>2, <2>3, <3>1, <3>2, Sizes
      <4> QED
        BY <4>1
    <3>3. CASE Slot(t, k) = a
      <4>1. PICK i \in k + 1 .. NBSZ - 1 : Slot(t, i) = b
        BY <1>1, <1>12, <1>14, <2>3, <3>1, <3>3, CopyInFront, SMTT(30)
      <4>2. EntryOf(t, b)'
        BY <1>5, <2>2, <2>3, <3>1, <3>3
      <4>3. i \in k .. NBSZ - 1 /\ i # k
        BY <3>1, <4>1, Sizes
      <4> QED
        BY <4>1, <4>2, <4>3
    <3> QED
      BY <3>2, <3>3
  <2>4. /\ InFront(c, fp[c].j) => InFront(c, fp[c].j)'
        /\ InFront(c, fp[c].j + 1) => InFront(c, fp[c].j + 1)'
    <3>1. ASSUME NEW j \in Nat, InFront(c, j) PROVE InFront(c, j)'
      <4>1. PICK k \in j .. NBSZ - 1 : EntryOf(t, Slot(t, k))
        BY <3>1 DEF InFront
      <4>2. PICK i \in k .. NBSZ - 1 : EntryOf(t, Slot(t, i))'
        BY <2>3, <4>1
      <4>3. i \in j .. NBSZ - 1
        BY <4>1, <4>2, Sizes
      <4> QED
        BY <1>2, <4>2, <4>3 DEF InFront
    <3>2. fp[c].j + 1 \in Nat
      BY <2>1, SMTT(30)
    <3> QED
      BY <1>2, <2>1, <3>1, <3>2
  <2>5. ASSUME fp[c].pc = "hash", EntryOf(t, Probed(c))
        PROVE  InFront(c, fp[c].j + 1)' \/ EntryOf(t, Probed(c))'
    <3>1. fp[c].j \in fp[c].j .. NBSZ - 1
      BY <2>1, <2>5, Sizes, SMTT(30) DEF LookupInv, TableTypes
    <3>2. PICK i \in fp[c].j .. NBSZ - 1 : EntryOf(t, Slot(t, i))'
      BY <2>1, <2>3, <2>5, <3>1 DEF Probed
    <3>3. i = fp[c].j \/ i \in fp[c].j + 1 .. NBSZ - 1
      BY <2>1, <3>2, Sizes, SMTT(30)
    <3> QED
      BY <1>2, <3>2, <3>3, SMTT(30) DEF InFront, Probed
  <2> QED
    BY <1>2, <1>10, <1>12, <2>1, <2>4, <2>5, SMTT(30) DEF Kept
<1>13. LookupKept'
    BY <1>2, <1>12 DEF LookupKept, Kept
<1> QED
    BY <1>6, <1>7, <1>10, <1>11, <1>13 DEF LookupInv

-----------------------------------------------------------------------------
(* The theorems about the search of a table that is being changed.         *)

(* At the start the table is empty and every id is free.                   *)
LEMMA InitLookup == TableInit => LookupInv
<1> SUFFICES ASSUME TableInit PROVE LookupInv
    OBVIOUS
<1>1. /\ flow_id_freelist \in Seq(Ids) /\ Distinct(flow_id_freelist)
      /\ closing \in Seq(Ids) /\ Distinct(closing) /\ Range(closing) = {}
    BY Sizes, SMTT(30) DEF TableInit, Ids, Distinct, Range
<1>2. /\ SpIdle \in SpStates /\ SpIdle.pc = "idle"
      /\ FpIdle \in FpStates /\ FpIdle.pc = "idle" /\ ~FpIdle.valid /\ ~FpIdle.must
      /\ Empty \in HtEntries /\ ~Empty.valid
      /\ NoFlow \in [t : Tuples \cup {None}, slowpath : BOOLEAN]
    BY Sizes DEF SpIdle, SpStates, FpIdle, FpStates, Empty, HtEntries, NoFlow
<1>3. /\ sp = SpIdle /\ fp = [c \in LookupCores |-> FpIdle]
      /\ flowht = [s \in Slots |-> Empty] /\ flowst = [f \in Ids |-> NoFlow]
      /\ flow = [t \in Tuples |-> None] /\ inuse = [f \in Ids |-> {}] /\ closes = 0
    BY SMTT(30) DEF TableInit
<1>4. TableTypes
    BY <1>1, <1>2, <1>3 DEF TableTypes
<1>5. IdOwned /\ SlotFree
    BY <1>1, <1>2, <1>3, SMTT(30) DEF IdOwned, SlotFree, Moving
<1>6. EntryNear /\ HasEntry /\ LookupKept
    BY <1>2, <1>3 DEF EntryNear, HasEntry, LookupKept, Kept
<1> QED
    BY <1>4, <1>5, <1>6 DEF LookupInv

(* Every step of the slow path and of the cores keeps the invariant.       *)
LEMMA NextLookup == LookupInv /\ [TableNext]_tablevars => LookupInv'
<1> SUFFICES ASSUME LookupInv, [TableNext]_tablevars PROVE LookupInv'
    OBVIOUS
<1>1. CASE UNCHANGED tablevars
  <2>1. TableTypes'
    BY <1>1, SMTT(30) DEF tablevars, spvars, LookupInv, TableTypes
  <2>2. IdOwned' /\ EntryNear' /\ HasEntry'
    BY <1>1, Zenon DEF tablevars, spvars, LookupInv, IdOwned, EntryNear, HasEntry, EntryOf
  <2>3. SlotFree'
    BY <1>1 DEF tablevars, spvars, LookupInv, SlotFree, From, To
  <2>4. LookupKept'
    BY <1>1, KeptSame DEF tablevars, spvars, LookupInv, LookupKept
  <2> QED
    BY <2>1, <2>2, <2>3, <2>4, SMTT(30) DEF LookupInv
<1>2. CASE TableNext
    BY <1>2, AddKeeps, DisableKeeps, MoveHashKeeps, MoveIdKeeps, MoveEmptyKeeps,
       AddStateKeeps, AddHashKeeps, AddIdKeeps, ClearKeeps, FreeKeeps, LookupKeeps,
       ReadIdKeeps, ReadHashKeeps, CompareKeeps, FinishKeeps, SMTT(30)
    DEF TableNext, fast_flows_packet_fss
<1> QED
    BY <1>1, <1>2

(* The flow table (nicif.c and fast_flows_packet_fss), for tables of every *)
(* size, any number of flows and cores, and every interleaving of the      *)
(* stores of the slow path with the loads of the cores: each flow has an   *)
(* entry, an entry moved at most once lies where a lookup searches, and a  *)
(* lookup in progress still has the entry in front of itself or its id in  *)
(* its hand.                                                               *)
THEOREM LookupInvariant == TableSpec => []LookupInv
BY InitLookup, NextLookup, PTL DEF TableSpec

(* A core that looks up a flow which is in the table all the time finds    *)
(* it, unless its entry is moved a second time.                            *)
THEOREM LookupsFind == TableSpec => []LookupFinds
<1>1. LookupInv => LookupFinds
    BY SMTT(30) DEF LookupInv, LookupKept, Kept, LookupFinds
<1> QED
    BY <1>1, LookupInvariant, PTL

(* The assertions of flow_slot_alloc never fail.                           *)
THEOREM MovesAssert == TableSpec => []MoveAsserts
<1>1. LookupInv => MoveAsserts
  <2> SUFFICES ASSUME LookupInv, sp.pc \in {"hash_k", "id_k"}
               PROVE  /\ ~flowht[To].valid
                      /\ \A m \in sp.n - NBSZ .. sp.m : flowht[Slot(sp.t, m)].valid
    BY DEF MoveAsserts
  <2>1. ~flowht[To].valid /\ sp.pc \in Moving
    BY DEF LookupInv, SlotFree, Moving
  <2>2. \A m \in sp.n - NBSZ .. sp.m : m \in 0 .. sp.n - 1
    BY <2>1, MoveSlots, Sizes
  <2> QED
    BY <2>1, <2>2, MoveSlots
<1> QED
    BY <1>1, LookupInvariant, PTL
=============================================================================
