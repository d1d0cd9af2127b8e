----------------------------- MODULE FlowTable -----------------------------
(***************************************************************************)
(* The flow lookup table: the slow path adds, moves and clears entries     *)
(* (nicif.c) while fast path cores look flows up without a lock            *)
(* (fast_flows_packet_fss).  An entry lies at most NBSZ - 1 slots behind   *)
(* the slot of its hash; when these are taken, flow_slot_alloc frees one   *)
(* by moving entries further back, copying each before it empties the old  *)
(* slot.  The steps are single loads and stores, in program order: that is *)
(* what the barriers and the memory model of the machine guarantee.        *)
(***************************************************************************)
EXTENDS Integers, Sequences, Functions

CONSTANTS
    ENTRIES,        \* FLEXNIC_PL_FLOWHT_ENTRIES
    NBSZ,           \* FLEXNIC_PL_FLOWHT_NBSZ
    FLOWST_NUM,     \* FLEXNIC_PL_FLOWST_NUM
    Tuples,         \* flows, by their addresses and ports
    Hash,           \* their hashes
    LookupCores,    \* fast path cores
    MaxCloses       \* connections that are closed (bounds the model)

None == 0
Ids == 1 .. FLOWST_NUM
Slots == 0 .. ENTRIES - 1

ASSUME FlowTableAssumption ==
    /\ NBSZ \in Nat \ {0}
    /\ ENTRIES \in Nat /\ ENTRIES > 5 * NBSZ
    /\ FLOWST_NUM \in Nat /\ MaxCloses \in Nat
    /\ Hash \in [Tuples -> Nat] /\ None \notin Tuples

VARIABLES
    flowht,     \* the table; moves is not in the code, it counts the moves
                \* of an entry up to two
    flowst,     \* flow states: the flow, and FLEXNIC_PL_FLOWST_SLOWPATH
    flow_id_freelist,
    flow,       \* the id of each flow, from the end of nicif_connection_add
                \* to the beginning of nicif_connection_disable
    closing,    \* disabled ids, in the order of their timers
    inuse,      \* cores that were looking up or applying a packet when an
                \* id was disabled, and have not finished
    closes,     \* connections closed so far
    sp,         \* what the slow path is doing
    fp          \* what each core is doing

spvars == <<flow_id_freelist, flow, closing, closes, sp>>
tablevars == <<flowht, flowst, spvars, inuse, fp>>

Empty == [valid |-> FALSE, d |-> 0, id |-> None, hash |-> 0, moves |-> 0]
Emptied(e) == [Empty EXCEPT !.hash = e.hash]
NoFlow == [t |-> None, slowpath |-> FALSE]
SpIdle == [pc |-> "idle", t |-> None, id |-> None, n |-> 0, m |-> 0]
FpIdle == [pc |-> "idle", t |-> None, j |-> 0, valid |-> FALSE, id |-> None,
           must |-> FALSE]

\* The slot n places behind the one of t's hash.
Slot(t, n) == (Hash[t] + n) % ENTRIES
Used(t, n) == flowht[Slot(t, n)].valid

TableInit ==
    /\ flowht = [s \in Slots |-> Empty]
    /\ flowst = [f \in Ids |-> NoFlow]
    /\ flow_id_freelist = [f \in Ids |-> f]
    /\ flow = [t \in Tuples |-> None]
    /\ closing = <<>> /\ closes = 0
    /\ inuse = [f \in Ids |-> {}]
    /\ sp = SpIdle
    /\ fp = [c \in LookupCores |-> FpIdle]

-----------------------------------------------------------------------------
(* The slow path.                                                          *)

\* Mutant: the first search goes one slot too far.
Near_wide(t) == {n \in 0 .. NBSZ : ~Used(t, n)}

\* The free slots flow_slot_alloc looks for first, and then.
Near(t) == {n \in 0 .. NBSZ - 1 : ~Used(t, n)}

\* Mutant: the second search leaves out its first slot.
Far_late(t) == {n \in NBSZ + 1 .. 5 * NBSZ - 1 : ~Used(t, n)}

Far(t) == {n \in NBSZ .. 5 * NBSZ - 1 : ~Used(t, n)}

\* Mutant: an entry is moved whatever its distance is.
Movable_any(ht, t, n) == {m \in n - NBSZ .. n - 1 : n - m <= NBSZ - 1}

\* The entries of ht that flow_slot_alloc can move to the slot n places
\* behind t's: their d tells how much further they may go.
Movable(ht, t, n) ==
    {m \in n - NBSZ .. n - 1 : n - m <= NBSZ - 1 - ht[Slot(t, m)].d}

\* Where a loop that goes up through the members of S stops.
First(S) == {n \in S : \A m \in S : n <= m}

\* flow_slot_alloc once the slot n places behind t's is free: it is near
\* enough, or the first entry that can is moved there.
Found(t, f, n) == [pc |-> "state", t |-> t, id |-> f, n |-> n, m |-> 0]
Move(t, f, n, m) == [pc |-> "hash_k", t |-> t, id |-> f, n |-> n, m |-> m]

\* nicif_connection_add, flow_id_alloc and the search for a free slot.
nicif_connection_add(t) ==
    LET f == Head(flow_id_freelist) IN
    /\ sp.pc = "idle" /\ flow[t] = None /\ flow_id_freelist # <<>>
    /\ \/ /\ \E n \in First(Near(t)) : sp' = Found(t, f, n)
          /\ flow_id_freelist' = Tail(flow_id_freelist)
       \/ /\ Near(t) = {}
          /\ \E n \in First(Far(t)) : \E m \in First(Movable(flowht, t, n)) :
                 sp' = Move(t, f, n, m)
          /\ flow_id_freelist' = Tail(flow_id_freelist)
       \/ /\ Near(t) = {} /\ \A n \in First(Far(t)) : Movable(flowht, t, n) = {}
          /\ UNCHANGED <<sp, flow_id_freelist>>
    /\ UNCHANGED <<flowht, flowst, flow, closing, inuse, closes, fp>>

From == Slot(sp.t, sp.m)
To   == Slot(sp.t, sp.n)

\* A core need not find a flow whose entry is moved a second time.
Excuse(ts) == fp' = [c \in LookupCores |->
    IF fp[c].t \in ts THEN [fp[c] EXCEPT !.must = FALSE] ELSE fp[c]]

\* The three stores of a move.  The copy keeps the d of the entry.
move_hash ==
    /\ sp.pc = "hash_k"
    /\ flowht' = [flowht EXCEPT ![To].hash = flowht[From].hash]
    /\ sp' = [sp EXCEPT !.pc = "id_k"]
    /\ UNCHANGED <<flowst, flow_id_freelist, flow, closing, inuse, closes, fp>>

move_id ==
    LET e == flowht[From] IN
    /\ sp.pc = "id_k"
    /\ flowht' = [flowht EXCEPT ![To] =
                    [e EXCEPT !.hash = flowht[To].hash, !.moves = IF @ = 0 THEN 1 ELSE 2]]
    /\ sp' = [sp EXCEPT !.pc = "empty_i"]
    /\ Excuse(IF e.moves = 0 THEN {} ELSE {flowst[e.id].t})
    /\ UNCHANGED <<flowst, flow_id_freelist, flow, closing, inuse, closes>>

\* The old slot is emptied, and is the one the search goes on with.
move_empty ==
    LET ht == [flowht EXCEPT ![From] = Emptied(@)] IN
    /\ sp.pc = "empty_i"
    /\ flowht' = ht
    /\ \/ /\ sp.m < NBSZ
          /\ sp' = Found(sp.t, sp.id, sp.m)
          /\ UNCHANGED flow_id_freelist
       \/ /\ sp.m >= NBSZ
          /\ \E m \in First(Movable(ht, sp.t, sp.m)) : sp' = Move(sp.t, sp.id, sp.m, m)
          /\ UNCHANGED flow_id_freelist
       \/ /\ sp.m >= NBSZ /\ Movable(ht, sp.t, sp.m) = {}
          /\ sp' = SpIdle
          /\ flow_id_freelist' = <<sp.id>> \o flow_id_freelist
    /\ UNCHANGED <<flowst, flow, closing, inuse, closes, fp>>

\* nicif_connection_add: the flow state, then the hash, then the id.
add_state ==
    /\ sp.pc = "state"
    /\ flowst' = [flowst EXCEPT ![sp.id] = [t |-> sp.t, slowpath |-> FALSE]]
    /\ sp' = [sp EXCEPT !.pc = "hash"]
    /\ UNCHANGED <<flowht, flow_id_freelist, flow, closing, inuse, closes, fp>>

add_hash ==
    /\ sp.pc = "hash"
    /\ flowht' = [flowht EXCEPT ![To].hash = Hash[sp.t]]
    /\ sp' = [sp EXCEPT !.pc = "id"]
    /\ UNCHANGED <<flowst, flow_id_freelist, flow, closing, inuse, closes, fp>>

add_id ==
    /\ sp.pc = "id"
    /\ flowht' = [flowht EXCEPT ![To] =
           [valid |-> TRUE, d |-> sp.n, id |-> sp.id, hash |-> @.hash, moves |-> 0]]
    /\ flow' = [flow EXCEPT ![sp.t] = sp.id]
    /\ sp' = SpIdle
    /\ UNCHANGED <<flowst, flow_id_freelist, closing, inuse, closes, fp>>

\* nicif_connection_disable up to the unlock.
nicif_connection_disable(t) ==
    LET f == flow[t] IN
    /\ sp.pc = "idle" /\ f # None
    /\ closes < MaxCloses /\ closes' = closes + 1
    /\ flowst' = [flowst EXCEPT ![f].slowpath = TRUE]
    /\ flow' = [flow EXCEPT ![t] = None]
    /\ sp' = [SpIdle EXCEPT !.pc = "clear", !.t = t, !.id = f]
    /\ Excuse({t})
    /\ UNCHANGED <<flowht, flow_id_freelist, closing, inuse>>

\* flow_slot_clear, the only writer while it searches.
flow_slot_clear ==
    LET hits == {n \in 0 .. NBSZ - 1 :
                    /\ Used(sp.t, n)
                    /\ flowht[Slot(sp.t, n)].hash = Hash[sp.t]
                    /\ flowht[Slot(sp.t, n)].id = sp.id}
    IN
    /\ sp.pc = "clear"
    /\ \/ hits = {} /\ UNCHANGED flowht
       \/ \E n \in First(hits) : flowht' = [flowht EXCEPT ![Slot(sp.t, n)] = Emptied(@)]
    /\ closing' = Append(closing, sp.id)
    /\ inuse' = [inuse EXCEPT ![sp.id] = {c \in LookupCores : fp[c].pc # "idle"}]
    /\ sp' = SpIdle
    /\ UNCHANGED <<flowst, flow_id_freelist, flow, closes, fp>>

\* Mutant: the id is given back without waiting.
nicif_connection_free_now ==
    /\ sp.pc = "idle" /\ closing # <<>>
    /\ closing' = Tail(closing)
    /\ flow_id_freelist' = <<Head(closing)>> \o flow_id_freelist
    /\ flowst' = [flowst EXCEPT ![Head(closing)] = NoFlow]
    /\ UNCHANGED <<flowht, flow, inuse, closes, sp, fp>>

\* nicif_connection_free, from the timer of 10 ms that tcp_close has armed:
\* a core has finished with a packet it had taken up before.  All these
\* timers are equally long.  What is left in a free flow state is not kept.
nicif_connection_free ==
    /\ sp.pc = "idle" /\ closing # <<>>
    /\ inuse[Head(closing)] = {}
    /\ closing' = Tail(closing)
    /\ flow_id_freelist' = <<Head(closing)>> \o flow_id_freelist
    /\ flowst' = [flowst EXCEPT ![Head(closing)] = NoFlow]
    /\ UNCHANGED <<flowht, flow, inuse, closes, sp, fp>>

-----------------------------------------------------------------------------
(* A core looks up the flow of a packet (fast_flows_packet_fss) and applies *)
(* the packet to it (fast_flows_packet).                                   *)

\* Mutant: the slots are searched in the opposite order.
Probed_back(c) == Slot(fp[c].t, NBSZ - 1 - fp[c].j)

Probed(c) == Slot(fp[c].t, fp[c].j)

\* The next slot, or none is left: the packet goes to the slow path.
Next_j(c) == [fp EXCEPT ![c].j = @ + 1, ![c].valid = FALSE, ![c].id = None,
                        ![c].pc = IF fp[c].j + 1 = NBSZ THEN "miss" ELSE "id"]

lookup(c, t) ==
    /\ fp[c].pc = "idle"
    /\ fp' = [fp EXCEPT ![c] = [FpIdle EXCEPT !.pc = "id", !.t = t,
                 !.must = /\ flow[t] # None
                          /\ \A s \in Slots : flowht[s].valid
                                /\ flowht[s].id = flow[t] => flowht[s].moves < 2]]
    /\ UNCHANGED <<flowht, flowst, spvars, inuse>>

read_id(c) ==
    LET e == flowht[Probed(c)] IN
    /\ fp[c].pc = "id"
    /\ fp' = [fp EXCEPT ![c].valid = e.valid, ![c].id = e.id, ![c].pc = "hash"]
    /\ UNCHANGED <<flowht, flowst, spvars, inuse>>

read_hash(c) ==
    /\ fp[c].pc = "hash"
    /\ fp' = IF fp[c].valid /\ flowht[Probed(c)].hash = Hash[fp[c].t]
             THEN [fp EXCEPT ![c].pc = "tuple"] ELSE Next_j(c)
    /\ UNCHANGED <<flowht, flowst, spvars, inuse>>

compare_tuple(c) ==
    /\ fp[c].pc = "tuple"
    /\ fp' = IF flowst[fp[c].id].t = fp[c].t
             THEN [fp EXCEPT ![c].pc = "found"] ELSE Next_j(c)
    /\ UNCHANGED <<flowht, flowst, spvars, inuse>>

\* The core is done with the packet: it went to the slow path (no flow, or
\* the flag is set) or was applied under the lock.
finish(c) ==
    /\ fp[c].pc \in {"miss", "found"}
    /\ fp' = [fp EXCEPT ![c] = FpIdle]
    /\ inuse' = [f \in Ids |-> inuse[f] \ {c}]
    /\ UNCHANGED <<flowht, flowst, spvars>>

fast_flows_packet_fss(c) ==
    \/ \E t \in Tuples : lookup(c, t)
    \/ read_id(c) \/ read_hash(c) \/ compare_tuple(c) \/ finish(c)

TableNext ==
    \/ \E t \in Tuples : nicif_connection_add(t) \/ nicif_connection_disable(t)
    \/ move_hash \/ move_id \/ move_empty
    \/ add_state \/ add_hash \/ add_id
    \/ flow_slot_clear
    \/ nicif_connection_free
    \/ \E c \in LookupCores : fast_flows_packet_fss(c)

TableSpec == TableInit /\ [][TableNext]_tablevars

-----------------------------------------------------------------------------
TableTypeOK ==
    /\ flowht \in [Slots -> [valid : BOOLEAN, d : 0 .. NBSZ - 1,
                             id : Ids \cup {None}, hash : Nat, moves : 0 .. 2]]
    /\ flowst \in [Ids -> [t : Tuples \cup {None}, slowpath : BOOLEAN]]
    /\ Range(flow_id_freelist) \subseteq Ids
    /\ flow \in [Tuples -> Ids \cup {None}]
    /\ Range(closing) \subseteq Ids /\ inuse \in [Ids -> SUBSET LookupCores]

\* The assertions of flow_slot_alloc: an entry is moved only to a slot that
\* is free, and the search for it passes over no free slot.
MoveAsserts ==
    sp.pc \in {"hash_k", "id_k"} =>
        /\ ~flowht[To].valid
        /\ \A m \in sp.n - NBSZ .. sp.m : flowht[Slot(sp.t, m)].valid

\* A core that looks up a flow which is in the table all the time finds it,
\* whatever entries the slow path copies, empties, clears or closes meanwhile.
\* The exception is an entry that has been moved twice.
LookupFinds == \A c \in LookupCores : fp[c].pc = "miss" => ~fp[c].must

\* A packet is only applied to the flow it belongs to: when a core has found
\* a flow state that is not marked for the slow path, it is that of the
\* packet's flow, although no lock is held between the lookup and the update
\* and ids are used again.
OwnFlow ==
    \A c \in LookupCores : fp[c].pc = "found" /\ ~flowst[fp[c].id].slowpath =>
        flowst[fp[c].id].t = fp[c].t

\* An entry that has been moved at most once lies where a lookup searches,
\* and is that of a flow that exists; a flow has at most two entries.
Placed ==
    \A s \in Slots : flowht[s].valid /\ flowht[s].moves < 2 =>
        /\ (s - flowht[s].hash) % ENTRIES < NBSZ
        /\ LET t == flowst[flowht[s].id].t IN
           /\ Hash[t] = flowht[s].hash
           /\ flow[t] = flowht[s].id \/ (sp.pc = "clear" /\ sp.t = t)

\* Every entry lies where a lookup searches: flow_slot_alloc moves it only
\* as much further as it can be moved.
Reachable ==
    \A s \in Slots : flowht[s].valid => (s - flowht[s].hash) % ENTRIES < NBSZ

-----------------------------------------------------------------------------
(***************************************************************************)
(* The inductive invariants, from which FlowTableProofs derives the        *)
(* properties: LookupInv those that always hold, OwnInv those that hold    *)
(* as long as Reachable does.                                              *)
(***************************************************************************)
\* No id is in the list s twice.
Distinct(s) == \A i, j \in DOMAIN s : s[i] = s[j] => i = j

\* The slow path is moving an entry.
Moving == {"hash_k", "id_k", "empty_i"}

\* The entries of the table, and the states of the slow path and of a core.
HtEntries ==
    [valid : BOOLEAN, d : 0 .. NBSZ - 1, id : Ids \cup {None}, hash : Nat,
     moves : 0 .. 2]

SpStates ==
    [pc : {"idle", "hash_k", "id_k", "empty_i", "state", "hash", "id", "clear"},
     t : Tuples \cup {None}, id : Ids \cup {None}, n : 0 .. 5 * NBSZ - 1,
     m : 0 .. 5 * NBSZ - 1]

FpStates ==
    [pc : {"idle", "id", "hash", "tuple", "miss", "found"}, t : Tuples \cup {None},
     j : 0 .. NBSZ, valid : BOOLEAN, id : Ids \cup {None}, must : BOOLEAN]

\* The types, and what is set in each state.
TableTypes ==
    /\ flowht \in [Slots -> HtEntries]
    /\ flowst \in [Ids -> [t : Tuples \cup {None}, slowpath : BOOLEAN]]
    /\ flow_id_freelist \in Seq(Ids) /\ closing \in Seq(Ids)
    /\ flow \in [Tuples -> Ids \cup {None}]
    /\ inuse \in [Ids -> SUBSET LookupCores] /\ closes \in Nat
    /\ sp \in SpStates
    /\ sp.pc # "idle" => sp.t \in Tuples /\ sp.id \in Ids /\ flow[sp.t] = None
    /\ fp \in [LookupCores -> FpStates]
    /\ \A c \in LookupCores :
          /\ fp[c].pc # "idle" => fp[c].t \in Tuples
          /\ fp[c].pc \in {"id", "hash", "tuple"} => fp[c].j < NBSZ
          /\ fp[c].valid \/ fp[c].pc \in {"tuple", "found"} => fp[c].id \in Ids
    /\ \A s \in Slots : flowht[s].valid => flowht[s].id \in Ids

\* An id is free, being added or cleared, that of a flow or closing.
IdOwned ==
    /\ Distinct(flow_id_freelist) /\ Distinct(closing)
    /\ \A f \in Range(flow_id_freelist) :
          f \notin Range(closing) /\ (sp.pc # "idle" => f # sp.id)
    /\ sp.pc # "idle" => sp.id \notin Range(closing)
    /\ \A t \in Tuples : flow[t] # None =>
          /\ flow[t] \notin Range(flow_id_freelist)
          /\ flow[t] \notin Range(closing)
          /\ sp.pc # "idle" => flow[t] # sp.id
          /\ \A u \in Tuples : flow[u] = flow[t] => u = t
          /\ flowst[flow[t]] = [t |-> t, slowpath |-> FALSE]
    /\ sp.pc \in {"hash", "id"} => flowst[sp.id] = [t |-> sp.t, slowpath |-> FALSE]
    /\ sp.pc = "clear" => flowst[sp.id].t = sp.t

\* The slot the slow path works on is free, and it found the ones before it
\* taken.
SlotFree ==
    /\ sp.pc \in {"hash_k", "id_k", "state", "hash", "id"} => ~flowht[To].valid
    /\ sp.pc \in {"state", "hash", "id"} => sp.n < NBSZ
    /\ sp.pc = "id" => flowht[To].hash = Hash[sp.t]
    /\ sp.pc \in Moving =>
          /\ NBSZ <= sp.n /\ sp.m < sp.n
          /\ \A n \in 0 .. sp.n - 1 : flowht[Slot(sp.t, n)].valid
          /\ sp.n - sp.m <= NBSZ - 1 - flowht[From].d
    /\ sp.pc = "id_k" => flowht[To].hash = flowht[From].hash
    /\ sp.pc = "empty_i" =>
          flowht[To] = [flowht[From] EXCEPT !.moves = IF @ = 0 THEN 1 ELSE 2]

\* An entry that was not moved lies d slots behind that of its hash, one that
\* was moved once is still near.
EntryNear ==
    \A s \in Slots : flowht[s].valid =>
        /\ flowht[s].moves = 0 => s = (flowht[s].hash + flowht[s].d) % ENTRIES
        /\ flowht[s].moves = 1 =>
              \E k \in 0 .. NBSZ - 1 : s = (flowht[s].hash + k) % ENTRIES

\* The slot s holds an entry of the flow t.
EntryOf(t, s) ==
    flowht[s].valid /\ flowht[s].id = flow[t] /\ flowht[s].hash = Hash[t]

\* A flow has an entry.
HasEntry == \A t \in Tuples : flow[t] # None => \E s \in Slots : EntryOf(t, s)

\* A lookup that has to find its flow has it before itself, or in its hand.
\* (The entry is in one of the slots from the j-th on that c has to probe.)
InFront(c, j) == \E k \in j .. NBSZ - 1 : EntryOf(fp[c].t, Slot(fp[c].t, k))

Kept(c) ==
    fp[c].must =>
        /\ fp[c].pc # "miss"
        /\ fp[c].pc # "idle" => flow[fp[c].t] # None
        /\ fp[c].pc = "id" => InFront(c, fp[c].j)
        /\ fp[c].pc = "hash" =>
              \/ InFront(c, fp[c].j + 1)
              \/ /\ fp[c].valid /\ fp[c].id = flow[fp[c].t]
                 /\ EntryOf(fp[c].t, Probed(c))
        /\ fp[c].pc = "tuple" => InFront(c, fp[c].j + 1) \/ fp[c].id = flow[fp[c].t]
        /\ sp.pc = "empty_i" /\ flowht[From].moves # 0 /\ fp[c].pc # "idle" =>
              flow[fp[c].t] # flowht[From].id

LookupKept == \A c \in LookupCores : Kept(c)

(* What the slow path and the cores keep whatever they do: every id has    *)
(* one owner, the slot being worked on is free, an entry moved at most     *)
(* once is near its hash's slot, a flow has an entry, and a lookup in      *)
(* progress has not missed it.                                             *)
LookupInv ==
    TableTypes /\ IdOwned /\ SlotFree /\ EntryNear /\ HasEntry /\ LookupKept

\* As long as Reachable holds: one entry for a flow, and none for an id that
\* is not in use.
EntryOwned ==
    \A s \in Slots : flowht[s].valid =>
        /\ flowst[flowht[s].id].t \in Tuples
        /\ flowht[s].hash = Hash[flowst[flowht[s].id].t]
        /\ \/ flow[flowst[flowht[s].id].t] = flowht[s].id
           \/ sp.pc = "clear" /\ sp.id = flowht[s].id
        /\ \A r \in Slots : flowht[r].valid /\ flowht[r].id = flowht[s].id =>
              r = s \/ (sp.pc = "empty_i" /\ {r, s} = {From, To})

\* An id that a core has read is not given to another flow: its flow is in
\* the table or being cleared, or the timer waits for this core.
Held(c) ==
    /\ (fp[c].pc = "hash" /\ fp[c].valid) \/ fp[c].pc \in {"tuple", "found"} =>
          \/ \E t \in Tuples : flow[t] = fp[c].id
          \/ sp.pc = "clear" /\ sp.id = fp[c].id
          \/ fp[c].id \in Range(closing) /\ c \in inuse[fp[c].id]
    /\ fp[c].pc = "found" => flowst[fp[c].id].t = fp[c].t

IdHeld == \A c \in LookupCores : Held(c)

(* What is kept as well as long as no entry is moved out of reach: an      *)
(* entry is of a flow that exists or is being cleared, and an id that a    *)
(* core holds still belongs to the flow it was read for.                   *)
OwnInv == LookupInv /\ EntryOwned /\ IdHeld
=============================================================================
