--------------------------- MODULE FlowTableOwnProofs ---------------------------
(***************************************************************************)
(* Whose entry, and whose id: OwnInv, for executions in which every entry  *)
(* stays in reach.                                                         *)
(***************************************************************************)
EXTENDS FlowTableProofs

(* Whose entry, and whose id.  From here on every entry is assumed to lie  *)
(* where a lookup, and flow_slot_clear, searches (Reachable).              *)

(* An id that is in an entry is neither free nor closing, nor given to a   *)
(* flow that is being added.                                               *)
LEMMA EntryIds ==
    ASSUME OwnInv, NEW s \in Slots, flowht[s].valid
    PROVE  /\ flowht[s].id \in Ids /\ flowst[flowht[s].id].t \in Tuples
           /\ flowht[s].hash = Hash[flowst[flowht[s].id].t]
           /\ sp.pc \notin {"idle", "clear"} => flowht[s].id # sp.id
           /\ sp.pc # "clear" => flow[flowst[flowht[s].id].t] = flowht[s].id
           /\ flowht[s].id \notin Range(closing)
<1> DEFINE f == flowht[s].id
           t == flowst[f].t
<1>1. f \in Ids /\ f # None /\ t \in Tuples /\ flowht[s].hash = Hash[t]
    BY Sizes DEF OwnInv, LookupInv, TableTypes, EntryOwned
<1>2. flow[t] = f \/ (sp.pc = "clear" /\ sp.id = f)
    BY DEF OwnInv, EntryOwned
<1> HIDE DEF f, t
<1>3. /\ flow[t] = f => f \notin Range(closing) /\ (sp.pc # "idle" => f # sp.id)
      /\ sp.pc = "clear" => sp.id \notin Range(closing)
    BY <1>1, Zenon DEF OwnInv, LookupInv, IdOwned
<1> QED
    BY <1>1, <1>2, <1>3 DEF f, t

(* HtEntries that are left alone keep their owners.                          *)
LEMMA OwnersStay ==
    ASSUME OwnInv, sp'.pc # "clear",
           \A s \in Slots : flowht'[s].valid =>
               /\ flowht[s].valid /\ flowht'[s] = flowht[s]
               /\ sp.pc = "clear" => flowht[s].id # sp.id
               /\ flowst'[flowht[s].id].t = flowst[flowht[s].id].t,
           \A t \in Tuples : flow[t] # None => flow'[t] = flow[t],
           sp.pc = "empty_i" => ~flowht'[From].valid
    PROVE  EntryOwned'
<1> SUFFICES ASSUME NEW s \in Slots, flowht'[s].valid
             PROVE  /\ flowst'[flowht'[s].id].t \in Tuples
                    /\ flowht'[s].hash = Hash[flowst'[flowht'[s].id].t]
                    /\ flow'[flowst'[flowht'[s].id].t] = flowht'[s].id
                    /\ \A r \in Slots :
                          flowht'[r].valid /\ flowht'[r].id = flowht'[s].id => r = s
    BY DEF EntryOwned
<1> DEFINE f == flowht[s].id
           t == flowst[f].t
<1>1. f \in Ids /\ f # None /\ t \in Tuples /\ flowht[s].hash = Hash[t]
    BY EntryIds, Sizes
<1>2. flow[t] = f
    BY DEF OwnInv, EntryOwned
<1>3. ASSUME NEW r \in Slots, flowht'[r].valid, flowht'[r].id = f PROVE r = s
  <2>1. flowht[r].valid /\ flowht[r].id = f
    BY <1>3
  <2>2. r = s \/ (sp.pc = "empty_i" /\ {r, s} = {From, To})
    BY <2>1, Zenon DEF OwnInv, EntryOwned
  <2>3. CASE sp.pc = "empty_i" /\ {r, s} = {From, To}
    <3>1. r = From \/ s = From
      BY <2>3
    <3> QED
      BY <1>3, <2>3, <3>1
  <2> QED
    BY <2>2, <2>3
<1> HIDE DEF f, t
<1>4. flowht'[s].id = f /\ flowht'[s].hash = Hash[t] /\ flowst'[f].t = t /\ flow'[t] = f
    BY <1>1, <1>2 DEF f, t
<1> QED
    BY <1>1, <1>3, <1>4

(* A step of a core changes no owner.                                      *)
LEMMA CoreOwners ==
    ASSUME OwnInv, UNCHANGED <<flowht, flowst, spvars>>
    PROVE  EntryOwned'
BY DEF OwnInv, EntryOwned, spvars, From, To

(* flow_slot_clear finds the entry of the flow.                            *)
LEMMA ClearOwners ==
    ASSUME OwnInv, Reachable, flow_slot_clear
    PROVE  EntryOwned'
<1> DEFINE hits == {n \in 0 .. NBSZ - 1 :
                      /\ Used(sp.t, n)
                      /\ flowht[Slot(sp.t, n)].hash = Hash[sp.t]
                      /\ flowht[Slot(sp.t, n)].id = sp.id}
<1>1. /\ sp.pc = "clear" /\ sp.t \in Tuples /\ sp.id \in Ids /\ flowst[sp.id].t = sp.t
      /\ flowht \in [Slots -> HtEntries]
    BY DEF flow_slot_clear, OwnInv, LookupInv, TableTypes, IdOwned
<1>2. /\ \/ hits = {} /\ flowht' = flowht
         \/ \E n \in First(hits) : flowht' = [flowht EXCEPT ![Slot(sp.t, n)] = Emptied(@)]
      /\ sp' = SpIdle /\ UNCHANGED <<flowst, flow>>
    BY DEF flow_slot_clear
<1>3. ASSUME NEW s \in Slots, flowht[s].valid, flowht[s].id = sp.id
      PROVE  \E n \in hits : s = Slot(sp.t, n)
  <2>1. flowht[s].hash = Hash[sp.t] /\ Hash[sp.t] \in Nat
    BY <1>1, <1>3, EntryIds, Sizes
  <2>2. (s - Hash[sp.t]) % ENTRIES \in 0 .. NBSZ - 1
    BY <1>3, <2>1, Distance, Sizes DEF Reachable, Slots
  <2>3. PICK n \in 0 .. NBSZ - 1 : s = Slot(sp.t, n)
    BY <2>1, <2>2, Distance DEF Slot
  <2>4. n \in hits
    BY <1>3, <2>1, <2>3 DEF Used
  <2> QED
    BY <2>3, <2>4
<1>4. \A n \in hits : /\ n \in Nat /\ Slot(sp.t, n) \in Slots
                      /\ flowht[Slot(sp.t, n)].valid /\ flowht[Slot(sp.t, n)].id = sp.id
    BY <1>1, Sizes, FlowSlots DEF Used
<1> HIDE DEF hits
<1>5. ASSUME NEW s \in Slots, flowht'[s].valid
      PROVE  flowht[s].valid /\ flowht'[s] = flowht[s] /\ flowht[s].id # sp.id
  <2>1. CASE hits = {} /\ flowht' = flowht
    BY <1>3, <1>5, <2>1
  <2>2. CASE \E n \in First(hits) : flowht' = [flowht EXCEPT ![Slot(sp.t, n)] = Emptied(@)]
    <3>3. PICK n \in First(hits) :
               flowht' = [flowht EXCEPT ![Slot(sp.t, n)] = Emptied(flowht[Slot(sp.t, n)])]
      BY <2>2
    <3>2. n \in hits
      BY DEF First
    <3>4. s # Slot(sp.t, n) /\ flowht'[s] = flowht[s]
      BY <1>1, <1>4, <1>5, <3>2, <3>3, EmptiedIs, Zenon
    <3>5. ASSUME flowht[s].id = sp.id PROVE FALSE
      BY <1>1, <1>4, <1>5, <3>2, <3>4, <3>5 DEF OwnInv, EntryOwned
    <3> QED
      BY <1>5, <3>4, <3>5
  <2> QED
    BY <1>2, <2>1, <2>2, Zenon
<1>6. sp'.pc = "idle"
    BY <1>2 DEF SpIdle
<1> QED
    BY <1>1, <1>2, <1>5, <1>6, OwnersStay, SMTT(30)

(* nicif_connection_disable: the entry is now one to be cleared.           *)
LEMMA DisableOwners ==
    ASSUME OwnInv, NEW t \in Tuples, nicif_connection_disable(t)
    PROVE  EntryOwned'
<1> DEFINE f == flow[t]
<1>1. /\ f \in Ids /\ f # None /\ sp.pc = "idle"
      /\ flowst' = [flowst EXCEPT ![f].slowpath = TRUE]
      /\ flow' = [flow EXCEPT ![t] = None]
      /\ sp' = [SpIdle EXCEPT !.pc = "clear", !.t = t, !.id = f]
      /\ flowht' = flowht
    BY DEF nicif_connection_disable, OwnInv, LookupInv, TableTypes
<1> HIDE DEF f
<1>2. sp'.pc = "clear" /\ sp'.id = f
    BY <1>1 DEF SpIdle
<1>3. \A g \in Ids : flowst'[g].t = flowst[g].t
    BY <1>1 DEF OwnInv, LookupInv, TableTypes
<1>4. \A u \in Tuples : u # t => flow'[u] = flow[u]
    BY <1>1 DEF OwnInv, LookupInv, TableTypes
<1> SUFFICES ASSUME NEW s \in Slots, flowht[s].valid
             PROVE  /\ flowst'[flowht[s].id].t \in Tuples
                    /\ flowht[s].hash = Hash[flowst'[flowht[s].id].t]
                    /\ \/ flow'[flowst'[flowht[s].id].t] = flowht[s].id
                       \/ flowht[s].id = f
                    /\ \A r \in Slots : flowht[r].valid /\ flowht[r].id = flowht[s].id => r = s
    BY <1>1, <1>2, Zenon DEF EntryOwned
<1>5. \A r \in Slots : flowht[r].valid /\ flowht[r].id = flowht[s].id => r = s
    BY <1>1 DEF OwnInv, EntryOwned
<1> DEFINE g == flowht[s].id
           u == flowst[g].t
<1>6. g \in Ids /\ u \in Tuples /\ flowht[s].hash = Hash[u] /\ flow[u] = g
    BY <1>1, EntryIds
<1>7. u = t => g = f
    BY <1>6, SMTT(30) DEF f
<1> QED
    BY <1>3, <1>4, <1>5, <1>6, <1>7

(* nicif_connection_add: the new entry is the only one with its id.        *)
LEMMA AddIdOwners ==
    ASSUME OwnInv, add_id
    PROVE  EntryOwned'
<1> DEFINE e == [valid |-> TRUE, d |-> sp.n, id |-> sp.id, hash |-> flowht[To].hash,
                 moves |-> 0]
<1>1. /\ sp.pc = "id" /\ sp.t \in Tuples /\ sp.id \in Ids /\ flow[sp.t] = None
      /\ flowht[To].hash = Hash[sp.t] /\ sp.n \in Nat /\ flowht \in [Slots -> HtEntries]
      /\ flowst[sp.id] = [t |-> sp.t, slowpath |-> FALSE]
    BY Sizes, SMTT(30) DEF add_id, OwnInv, LookupInv, TableTypes, SpStates, SlotFree, IdOwned
<1>2. To \in Slots
    BY <1>1, FlowSlots DEF To
<1>3. /\ flowht' = [flowht EXCEPT ![To] = e] /\ flowst' = flowst
      /\ flow' = [flow EXCEPT ![sp.t] = sp.id] /\ sp' = SpIdle
    BY DEF add_id
<1>4. e.id = sp.id /\ e.hash = Hash[sp.t] /\ flowst[sp.id].t = sp.t
    BY <1>1
<1> HIDE DEF e
<1>5. flowht'[To] = e /\ \A s \in Slots : s # To => flowht'[s] = flowht[s]
    BY <1>1, <1>2, <1>3
<1>6. flow'[sp.t] = sp.id /\ \A u \in Tuples : u # sp.t => flow'[u] = flow[u]
    BY <1>1, <1>3 DEF OwnInv, LookupInv, TableTypes
<1>7. sp'.pc = "idle"
    BY <1>3 DEF SpIdle
<1>8. ASSUME NEW s \in Slots, flowht[s].valid
      PROVE  /\ flowht[s].id # sp.id
             /\ flowst[flowht[s].id].t \in Tuples
             /\ flowht[s].hash = Hash[flowst[flowht[s].id].t]
             /\ flow'[flowst[flowht[s].id].t] = flowht[s].id
             /\ \A r \in Slots : flowht[r].valid /\ flowht[r].id = flowht[s].id => r = s
  <2> DEFINE g == flowht[s].id
             u == flowst[g].t
  <2>1. /\ g \in Ids /\ g # None /\ u \in Tuples /\ flowht[s].hash = Hash[u]
        /\ flow[u] = g /\ g # sp.id
    BY <1>1, <1>8, EntryIds, Sizes
  <2>2. u # sp.t
    BY <1>1, <2>1
  <2>3. \A r \in Slots : flowht[r].valid /\ flowht[r].id = flowht[s].id => r = s
    BY <1>1, <1>8, SMTT(30) DEF OwnInv, EntryOwned
  <2> QED
    BY <1>6, <2>1, <2>2, <2>3
<1>9. ASSUME NEW s \in Slots, flowht'[s].valid
      PROVE  /\ flowst[flowht'[s].id].t \in Tuples
             /\ flowht'[s].hash = Hash[flowst[flowht'[s].id].t]
             /\ flow'[flowst[flowht'[s].id].t] = flowht'[s].id
             /\ \A r \in Slots : flowht'[r].valid /\ flowht'[r].id = flowht'[s].id => r = s
  <2>1. CASE s = To
    BY <1>1, <1>4, <1>5, <1>6, <1>8, <2>1, SMTT(30)
  <2>2. CASE s # To
    BY <1>4, <1>5, <1>8, <1>9, <2>2, SMTT(30)
  <2> QED
    BY <2>1, <2>2
<1> QED
    BY <1>3, <1>9, SMTT(30) DEF EntryOwned

(* The copy of an entry has the owner of the entry.                        *)
LEMMA MoveIdOwners ==
    ASSUME OwnInv, move_id
    PROVE  EntryOwned'
<1> DEFINE e == flowht[From]
           x == [e EXCEPT !.hash = flowht[To].hash, !.moves = IF e.moves = 0 THEN 1 ELSE 2]
<1>1. /\ sp.pc = "id_k" /\ sp.pc \in Moving /\ flowht[To].hash = e.hash /\ LookupInv
    BY DEF move_id, Moving, OwnInv, LookupInv, SlotFree
<1>2. /\ flowht' = [flowht EXCEPT ![To] = x]
      /\ sp' = [sp EXCEPT !.pc = "empty_i"] /\ UNCHANGED <<flowst, flow>>
    BY DEF move_id
<1>3. /\ e \in HtEntries /\ e.valid /\ sp \in SpStates /\ From \in Slots /\ To \in Slots
      /\ From # To /\ flowht \in [Slots -> HtEntries]
    BY <1>1, MoveSlots
<1>4. x.id = e.id /\ x.hash = e.hash
    BY <1>1, <1>3 DEF HtEntries
<1> HIDE DEF x
<1>5. flowht'[To] = x /\ \A s \in Slots : s # To => flowht'[s] = flowht[s]
    BY <1>2, <1>3
<1>6. sp'.pc = "empty_i" /\ From' = From /\ To' = To
    BY <1>2, <1>3, SMTT(30) DEF SpStates, From, To
<1>7. ASSUME NEW s \in Slots, flowht[s].valid
      PROVE  /\ flowst[flowht[s].id].t \in Tuples
             /\ flowht[s].hash = Hash[flowst[flowht[s].id].t]
             /\ flow[flowst[flowht[s].id].t] = flowht[s].id
             /\ \A r \in Slots : flowht[r].valid /\ flowht[r].id = flowht[s].id => r = s
    BY <1>1, <1>7, SMTT(30) DEF OwnInv, EntryOwned
<1>8. ASSUME NEW s \in Slots, flowht'[s].valid
      PROVE  /\ flowst[flowht'[s].id].t \in Tuples
             /\ flowht'[s].hash = Hash[flowst[flowht'[s].id].t]
             /\ flow[flowst[flowht'[s].id].t] = flowht'[s].id
             /\ \A r \in Slots : flowht'[r].valid /\ flowht'[r].id = flowht'[s].id =>
                   r = s \/ {r, s} = {From, To}
  <2>1. CASE s = To
    <3>1. ASSUME NEW r \in Slots, flowht'[r].valid, flowht'[r].id = e.id, r # To
          PROVE  r = From
      BY <1>3, <1>5, <1>7, <3>1
    <3> HIDE DEF From, To
    <3> QED
      BY <1>3, <1>4, <1>5, <1>7, <2>1, <3>1
  <2>2. CASE s # To
    <3>1. flowht'[s] = flowht[s] /\ flowht[s].valid
      BY <1>5, <1>8, <2>2
    <3>2. ASSUME NEW r \in Slots, flowht'[r].valid, flowht'[r].id = flowht[s].id, r # s
          PROVE  {r, s} = {From, To}
      <4>1. r = To
        BY <1>5, <1>7, <3>1, <3>2
      <4>2. flowht[s].id = e.id
        BY <1>4, <1>5, <3>2, <4>1
      <4>3. s = From
        BY <1>3, <1>7, <3>1, <4>2
      <4> QED
        BY <4>1, <4>3
    <3> QED
      BY <1>7, <3>1, <3>2
  <2> QED
    BY <2>1, <2>2
<1> HIDE DEF From, To
<1> QED
    BY <1>2, <1>6, <1>8, Zenon DEF EntryOwned

(* Every step keeps the owners of the entries.                             *)
LEMMA NextOwners ==
    ASSUME OwnInv, Reachable, TableNext
    PROVE  EntryOwned'
<1>1. LookupInv /\ flowht \in [Slots -> HtEntries]
    BY DEF OwnInv, LookupInv, TableTypes
<1>2. \A s \in Slots : flowht[s].valid => flowht[s].id \in Ids
    BY EntryIds
<1>3. ASSUME NEW t \in Tuples, nicif_connection_add(t) PROVE EntryOwned'
  <2>1. sp.pc = "idle" /\ UNCHANGED <<flowht, flowst, flow>>
    BY <1>3 DEF nicif_connection_add
  <2>2. sp' = sp \/ sp'.pc \in {"state", "hash_k"}
    BY <1>3 DEF nicif_connection_add, Found, Move
  <2> QED
    BY <2>1, <2>2, OwnersStay
<1>4. CASE move_hash \/ add_hash
  <2>1. PICK h : flowht' = [flowht EXCEPT ![To].hash = h]
    BY <1>4 DEF move_hash, add_hash
  <2>2. /\ sp.pc \in {"hash_k", "hash"} /\ UNCHANGED <<flowst, flow>>
        /\ ~flowht[To].valid /\ sp.t \in Tuples /\ sp.n \in Nat /\ sp \in SpStates
    BY <1>1, <1>4, Sizes, SMTT(30)
    DEF move_hash, add_hash, LookupInv, SlotFree, TableTypes, SpStates
  <2>3. To \in Slots
    BY <2>2, FlowSlots DEF To
  <2>4. flowht'[To] = [flowht[To] EXCEPT !.hash = h] /\ flowht[To] \in HtEntries
    BY <1>1, <2>1, <2>3
  <2>5. ~flowht'[To].valid
    BY <2>2, <2>4 DEF HtEntries
  <2>6. \A s \in Slots : s # To => flowht'[s] = flowht[s]
    BY <1>1, <2>1
  <2>7. sp'.pc \in {"id_k", "id"}
    BY <1>4, <2>2 DEF move_hash, add_hash, SpStates
  <2> QED
    BY <2>2, <2>5, <2>6, <2>7, OwnersStay
<1>5. CASE move_empty
  <2>1. /\ sp.pc = "empty_i" /\ sp.pc \in Moving /\ UNCHANGED <<flowst, flow>>
        /\ flowht' = [flowht EXCEPT ![From] = Emptied(flowht[From])]
    BY <1>5 DEF move_empty, Moving
  <2>2. From \in Slots /\ ~flowht'[From].valid
    BY <1>1, <2>1, MoveSlots, EmptiedIs, Zenon
  <2>3. \A s \in Slots : s # From => flowht'[s] = flowht[s]
    BY <1>1, <2>1
  <2>4. sp'.pc # "clear"
    BY <1>5 DEF move_empty, Found, Move, SpIdle
  <2> QED
    BY <2>1, <2>2, <2>3, <2>4, OwnersStay
<1>6. CASE add_state
  <2>1. /\ sp.pc = "state" /\ UNCHANGED <<flowht, flow>> /\ sp \in SpStates
        /\ flowst' = [flowst EXCEPT ![sp.id] = [t |-> sp.t, slowpath |-> FALSE]]
        /\ sp' = [sp EXCEPT !.pc = "hash"]
    BY <1>1, <1>6, SMTT(30) DEF add_state, LookupInv, TableTypes
  <2>2. \A s \in Slots : flowht[s].valid => flowht[s].id # sp.id
    BY <2>1, EntryIds
  <2>3. \A f \in Ids : f # sp.id => flowst'[f] = flowst[f]
    BY <1>1, <2>1 DEF LookupInv, TableTypes
  <2>4. sp'.pc = "hash"
    BY <2>1 DEF SpStates
  <2> QED
    BY <1>2, <2>1, <2>2, <2>3, <2>4, OwnersStay
<1>7. CASE nicif_connection_free
  <2> DEFINE h == Head(closing)
  <2>1. /\ sp.pc = "idle" /\ UNCHANGED <<flowht, flow, sp>> /\ closing # <<>>
        /\ flowst' = [flowst EXCEPT ![h] = NoFlow]
    BY <1>7, SMTT(30) DEF nicif_connection_free
  <2>2. h \in Range(closing)
    BY <1>1, <2>1, TakeFirst, SMTT(30) DEF LookupInv, TableTypes, IdOwned
  <2>3. \A s \in Slots : flowht[s].valid => flowht[s].id # h
    BY <2>2, EntryIds
  <2>4. \A f \in Ids : f # h => flowst'[f] = flowst[f]
    BY <1>1, <2>1 DEF LookupInv, TableTypes
  <2> QED
    BY <1>2, <2>1, <2>3, <2>4, OwnersStay
<1>8. ASSUME NEW c \in LookupCores, fast_flows_packet_fss(c) PROVE EntryOwned'
  <2>1. UNCHANGED <<flowht, flowst, spvars>>
    BY <1>8, Zenon DEF fast_flows_packet_fss, lookup, read_id, read_hash, compare_tuple, finish
  <2> QED
    BY <2>1, CoreOwners, SMTT(30)
<1> QED
    BY <1>3, <1>4, <1>5, <1>6, <1>7, <1>8, DisableOwners, AddIdOwners, MoveIdOwners,
       ClearOwners, SMTT(30), SMTT(30) DEF TableNext

(* What a core holds is not disturbed by the steps that add a flow.        *)
LEMMA HeldStay ==
    ASSUME OwnInv, sp.pc # "clear", UNCHANGED <<closing, inuse>>,
           \A t \in Tuples : flow[t] # None => flow'[t] = flow[t],
           \A f \in Ids : f # sp.id \/ sp.pc = "idle" => flowst'[f].t = flowst[f].t,
           \A c \in LookupCores :
               /\ fp'[c].pc = fp[c].pc /\ fp'[c].t = fp[c].t
               /\ fp'[c].valid = fp[c].valid /\ fp'[c].id = fp[c].id
    PROVE  IdHeld'
<1> SUFFICES ASSUME NEW c \in LookupCores,
                    (fp[c].pc = "hash" /\ fp[c].valid) \/ fp[c].pc \in {"tuple", "found"}
             PROVE  Held(c)'
    BY DEF IdHeld, Held
<1> DEFINE f == fp[c].id
<1>1. f \in Ids /\ f # None /\ Held(c)
    BY Sizes, SMTT(30) DEF OwnInv, LookupInv, TableTypes, IdHeld
<1>2. \/ \E t \in Tuples : flow[t] = f
      \/ f \in Range(closing) /\ c \in inuse[f]
    BY <1>1 DEF Held
<1>3. f # sp.id \/ sp.pc = "idle"
    BY <1>1, <1>2, Zenon DEF OwnInv, LookupInv, IdOwned
<1>4. flowst'[f].t = flowst[f].t
    BY <1>1, <1>3
<1>5. (\E t \in Tuples : flow[t] = f) => \E t \in Tuples : flow'[t] = f
    BY <1>1
<1> HIDE DEF f
<1>6. fp'[c].id = f /\ fp[c].id = f
    BY DEF f
<1> QED
    BY <1>1, <1>2, <1>4, <1>5, <1>6 DEF Held

(* nicif_connection_disable: the id goes from a flow to flow_slot_clear.   *)
LEMMA HeldDisable ==
    ASSUME OwnInv, NEW u \in Tuples, nicif_connection_disable(u)
    PROVE  IdHeld'
<1> DEFINE g == flow[u]
<1>1. /\ g \in Ids /\ g # None /\ sp.pc = "idle"
      /\ flowst' = [flowst EXCEPT ![g].slowpath = TRUE]
      /\ flow' = [flow EXCEPT ![u] = None]
      /\ sp' = [SpIdle EXCEPT !.pc = "clear", !.t = u, !.id = g]
      /\ Excuse({u}) /\ UNCHANGED <<closing, inuse>>
    BY DEF nicif_connection_disable, OwnInv, LookupInv, TableTypes
<1>2. \A t \in Tuples : t # u => flow'[t] = flow[t]
    BY <1>1 DEF OwnInv, LookupInv, TableTypes
<1>3. \A f \in Ids : flowst'[f].t = flowst[f].t
    BY <1>1 DEF OwnInv, LookupInv, TableTypes
<1>4. sp'.pc = "clear" /\ sp'.id = g
    BY <1>1 DEF SpIdle
<1> SUFFICES ASSUME NEW c \in LookupCores PROVE Held(c)'
    BY DEF IdHeld
<1>5. /\ fp'[c].pc = fp[c].pc /\ fp'[c].t = fp[c].t
      /\ fp'[c].valid = fp[c].valid /\ fp'[c].id = fp[c].id
    BY <1>1, Excused DEF OwnInv, LookupInv
<1>6. Held(c) /\ (fp[c].pc \in {"tuple", "found"} => fp[c].id \in Ids)
    BY DEF OwnInv, IdHeld, LookupInv, TableTypes
<1>7. (\E t \in Tuples : flow[t] = fp[c].id) =>
          (\E t \in Tuples : flow'[t] = fp[c].id) \/ fp[c].id = g
    BY <1>2, SMTT(30)
<1> HIDE DEF g
<1> QED
    BY <1>1, <1>3, <1>4, <1>5, <1>6, <1>7, SMTT(30) DEF Held

(* flow_slot_clear: from here on the timer waits for the cores that may    *)
(* have read the id.                                                       *)
LEMMA HeldClear ==
    ASSUME OwnInv, flow_slot_clear
    PROVE  IdHeld'
<1>1. /\ sp.pc = "clear" /\ sp.id \in Ids /\ sp.id \notin Range(closing)
      /\ closing \in Seq(Ids) /\ Distinct(closing)
      /\ inuse \in [Ids -> SUBSET LookupCores]
    BY Zenon DEF flow_slot_clear, OwnInv, LookupInv, TableTypes, IdOwned
<1>2. /\ closing' = Append(closing, sp.id)
      /\ inuse' = [inuse EXCEPT ![sp.id] = {c \in LookupCores : fp[c].pc # "idle"}]
      /\ UNCHANGED <<flowst, flow, fp>>
    BY DEF flow_slot_clear
<1>3. sp.id \in Range(closing') /\ Range(closing) \subseteq Range(closing')
    BY <1>1, <1>2, PutLast
<1>4. /\ inuse'[sp.id] = {c \in LookupCores : fp[c].pc # "idle"}
      /\ \A f \in Ids : f # sp.id => inuse'[f] = inuse[f]
    BY <1>1, <1>2
<1> SUFFICES ASSUME NEW c \in LookupCores PROVE Held(c)'
    BY DEF IdHeld
<1>5. /\ Held(c)
      /\ fp[c].valid \/ fp[c].pc \in {"tuple", "found"} => fp[c].id \in Ids
    BY DEF OwnInv, IdHeld, LookupInv, TableTypes
<1> QED
    BY <1>1, <1>2, <1>3, <1>4, <1>5, SMTT(30) DEF Held

(* nicif_connection_free: no core holds the id that is given back.         *)
LEMMA HeldFree ==
    ASSUME OwnInv, nicif_connection_free
    PROVE  IdHeld'
<1> DEFINE h == Head(closing)
<1>1. /\ sp.pc = "idle" /\ closing # <<>> /\ inuse[h] = {}
      /\ closing \in Seq(Ids) /\ Distinct(closing)
      /\ closing' = Tail(closing) /\ flowst' = [flowst EXCEPT ![h] = NoFlow]
      /\ UNCHANGED <<flow, inuse, sp, fp>>
    BY DEF nicif_connection_free, OwnInv, LookupInv, TableTypes, IdOwned
<1>2. h \in Range(closing) /\ \A f \in Range(closing) : f = h \/ f \in Range(closing')
    BY <1>1, TakeFirst, SMTT(30)
<1>3. \A f \in Ids : f # h => flowst'[f] = flowst[f]
    BY <1>1, SMTT(30) DEF OwnInv, LookupInv, TableTypes
<1> HIDE DEF h
<1> SUFFICES ASSUME NEW c \in LookupCores,
                    (fp[c].pc = "hash" /\ fp[c].valid) \/ fp[c].pc \in {"tuple", "found"}
             PROVE  Held(c)'
    BY <1>1 DEF IdHeld, Held
<1>4. fp[c].id \in Ids /\ fp[c].id # None /\ Held(c)
    BY Sizes, SMTT(30) DEF OwnInv, IdHeld, LookupInv, TableTypes
<1>5. fp[c].id # h
    BY <1>1, <1>2, <1>4, ZenonT(60) DEF Held, OwnInv, LookupInv, IdOwned
<1> QED
    BY <1>1, <1>2, <1>3, <1>4, <1>5, SMTT(30) DEF Held

(* A core reads an id from an entry, which has an owner, and finds the     *)
(* flow by comparing.                                                      *)
LEMMA HeldCores ==
    ASSUME OwnInv, NEW c \in LookupCores, fast_flows_packet_fss(c)
    PROVE  IdHeld'
<1>1. /\ UNCHANGED <<flowst, flow, closing, sp>> /\ fp \in [LookupCores -> FpStates]
      /\ inuse \in [Ids -> SUBSET LookupCores]
    BY Zenon DEF OwnInv, LookupInv, TableTypes, fast_flows_packet_fss, lookup, read_id, read_hash,
           compare_tuple, finish, spvars
<1>2. fp[c] \in FpStates /\ Held(c)
    BY <1>1 DEF OwnInv, IdHeld
<1>3. ASSUME NEW b \in LookupCores, b # c PROVE Held(b)'
  <2>1. fp'[b] = fp[b]
    BY <1>1, <1>3, ZenonT(60)
    DEF fast_flows_packet_fss, lookup, read_id, read_hash, compare_tuple, finish, Next_j
  <2>2. \A f \in Ids : b \in inuse[f] => b \in inuse'[f]
    BY <1>1, <1>3, Zenon
    DEF fast_flows_packet_fss, lookup, read_id, read_hash, compare_tuple, finish
  <2>3. /\ Held(b)
        /\ fp[b].valid \/ fp[b].pc \in {"tuple", "found"} => fp[b].id \in Ids
    BY DEF OwnInv, IdHeld, LookupInv, TableTypes
  <2> QED
    BY <1>1, <2>1, <2>2, <2>3 DEF Held
<1>4. ASSUME NEW t \in Tuples, lookup(c, t) PROVE fp'[c].pc = "id"
  <2>1. PICK b \in BOOLEAN :
            fp' = [fp EXCEPT ![c] = [FpIdle EXCEPT !.pc = "id", !.t = t, !.must = b]]
    BY <1>4, Zenon DEF lookup
  <2> QED
    BY <1>1, <2>1 DEF FpIdle
<1>5. ASSUME fp' = Next_j(c) PROVE fp'[c].pc \in {"miss", "id"}
    BY <1>1, <1>2, <1>5 DEF Next_j, FpStates
<1>6. ASSUME read_id(c) PROVE Held(c)'
  <2> DEFINE e == flowht[Probed(c)]
  <2>1. fp[c].t \in Tuples /\ fp[c].j \in Nat
    BY <1>2, <1>6, Sizes, SMTT(30) DEF read_id, OwnInv, LookupInv, TableTypes, FpStates
  <2>2. Probed(c) \in Slots
    BY <2>1, FlowSlots DEF Probed
  <2>3. e.valid => \/ \E t \in Tuples : flow[t] = e.id
                   \/ sp.pc = "clear" /\ sp.id = e.id
    BY <2>2 DEF OwnInv, EntryOwned
  <2> HIDE DEF e
  <2>4. fp'[c].valid = e.valid /\ fp'[c].id = e.id /\ fp'[c].pc = "hash"
    BY <1>1, <1>2, <1>6 DEF read_id, FpStates, e
  <2> QED
    BY <1>1, <2>3, <2>4, SMTT(30) DEF Held
<1>7. ASSUME read_hash(c) PROVE Held(c)'
  <2>1. CASE fp[c].valid /\ flowht[Probed(c)].hash = Hash[fp[c].t]
    <3>1. fp'[c] = [fp[c] EXCEPT !.pc = "tuple"] /\ fp[c].pc = "hash" /\ inuse' = inuse
      BY <1>1, <1>7, <2>1 DEF read_hash
    <3>2. fp'[c].id = fp[c].id /\ fp'[c].pc = "tuple"
      BY <1>2, <3>1, SMTT(30) DEF FpStates
    <3> QED
      BY <1>1, <1>2, <2>1, <3>1, <3>2 DEF Held
  <2>2. CASE ~(fp[c].valid /\ flowht[Probed(c)].hash = Hash[fp[c].t])
    BY <1>5, <1>7, <2>2 DEF read_hash, Held
  <2> QED
    BY <2>1, <2>2
<1>8. ASSUME compare_tuple(c) PROVE Held(c)'
  <2>1. CASE flowst[fp[c].id].t = fp[c].t
    <3>1. fp'[c] = [fp[c] EXCEPT !.pc = "found"] /\ fp[c].pc = "tuple" /\ inuse' = inuse
      BY <1>1, <1>8, <2>1 DEF compare_tuple
    <3>2. fp'[c].id = fp[c].id /\ fp'[c].pc = "found" /\ fp'[c].t = fp[c].t
      BY <1>2, <3>1 DEF FpStates
    <3> QED
      BY <1>1, <1>2, <2>1, <3>1, <3>2 DEF Held
  <2>2. CASE flowst[fp[c].id].t # fp[c].t
    BY <1>5, <1>8, <2>2 DEF compare_tuple, Held
  <2> QED
    BY <2>1, <2>2
<1>9. ASSUME finish(c) PROVE Held(c)'
  <2>1. fp'[c].pc = "idle"
    BY <1>1, <1>9, SMTT(30) DEF finish, FpIdle
  <2> QED
    BY <2>1 DEF Held
<1>10. Held(c)'
    BY <1>4, <1>6, <1>7, <1>8, <1>9 DEF fast_flows_packet_fss, Held
<1> QED
    BY <1>3, <1>10 DEF IdHeld

(* No step gives an id that a core has read to another flow.               *)
LEMMA NextHeld ==
    ASSUME OwnInv, TableNext
    PROVE  IdHeld'
<1>1. TableTypes
    BY SMTT(30) DEF OwnInv, LookupInv
<1>2. ASSUME NEW t \in Tuples, nicif_connection_add(t) PROVE IdHeld'
    BY <1>2, HeldStay DEF nicif_connection_add
<1>3. CASE move_hash \/ move_empty \/ add_hash
    BY <1>3, HeldStay DEF move_hash, move_empty, add_hash
<1>4. CASE move_id
  <2>1. PICK ts : Excuse(ts)
    BY <1>4 DEF move_id
  <2> QED
    BY <1>1, <1>4, <2>1, Excused, HeldStay DEF move_id
<1>5. CASE add_state
  <2>1. /\ flowst' = [flowst EXCEPT ![sp.id] = [t |-> sp.t, slowpath |-> FALSE]]
        /\ sp.pc = "state" /\ UNCHANGED <<closing, inuse, flow, fp>>
    BY <1>5 DEF add_state
  <2>2. \A f \in Ids : f # sp.id \/ sp.pc = "idle" => flowst'[f].t = flowst[f].t
    BY <1>1, <2>1 DEF TableTypes
  <2> QED
    BY <2>1, <2>2, HeldStay
<1>6. CASE add_id
  <2>1. /\ flow' = [flow EXCEPT ![sp.t] = sp.id] /\ flow[sp.t] = None
        /\ sp.pc = "id" /\ UNCHANGED <<closing, inuse, flowst, fp>>
    BY <1>1, <1>6 DEF add_id, TableTypes
  <2>2. \A t \in Tuples : flow[t] # None => flow'[t] = flow[t]
    BY <1>1, <2>1 DEF TableTypes
  <2> QED
    BY <2>1, <2>2, HeldStay
<1> QED
    BY <1>2, <1>3, <1>4, <1>5, <1>6, HeldDisable, HeldClear, HeldFree, HeldCores
    DEF TableNext

(* At the start there is neither an entry nor a lookup.                    *)
LEMMA InitOwn == TableInit => OwnInv
<1> SUFFICES ASSUME TableInit PROVE OwnInv
    OBVIOUS
<1>1. EntryOwned
    BY DEF TableInit, EntryOwned, Empty
<1>2. \A c \in LookupCores : fp[c].pc = "idle"
    BY DEF TableInit, FpIdle
<1>3. IdHeld
    BY <1>2 DEF IdHeld, Held
<1> QED
    BY <1>1, <1>3, InitLookup DEF OwnInv

(* A step from a state in which every entry is in reach keeps all of it.   *)
LEMMA NextOwn == OwnInv /\ Reachable /\ [TableNext]_tablevars => OwnInv'
<1> SUFFICES ASSUME OwnInv, Reachable, [TableNext]_tablevars PROVE OwnInv'
    OBVIOUS
<1>1. LookupInv'
    BY NextLookup DEF OwnInv
<1>2. CASE UNCHANGED tablevars
  <2>1. EntryOwned'
    BY <1>2, CoreOwners DEF tablevars, spvars
  <2>2. IdHeld'
    BY <1>2 DEF tablevars, spvars, OwnInv, IdHeld, Held
  <2> QED
    BY <1>1, <2>1, <2>2 DEF OwnInv
<1>3. CASE TableNext
    BY <1>1, <1>3, NextOwners, NextHeld DEF OwnInv
<1> QED
    BY <1>2, <1>3

(* As long as flow_slot_alloc moves no entry out of reach: an entry is of  *)
(* a flow in the table or one that is being cleared, and an id that a core *)
(* has read is not given to another flow before the core has finished.     *)
THEOREM OwnInvariant == TableSpec /\ []Reachable => []OwnInv
BY InitOwn, NextOwn, PTL DEF TableSpec

(* Then a packet is only ever applied to the flow it belongs to, although  *)
(* the lookup takes no lock and ids are used again.                        *)
THEOREM PacketsReachTheirFlow == TableSpec /\ []Reachable => []OwnFlow
<1>1. OwnInv => OwnFlow
    BY DEF OwnInv, IdHeld, Held, OwnFlow
<1> QED
    BY <1>1, OwnInvariant, PTL

(* And an entry is where its flow is looked up and carries its hash; no    *)
(* entry is left behind by a flow that has been closed.                    *)
THEOREM EntriesArePlaced == TableSpec /\ []Reachable => []Placed
<1>1. OwnInv /\ Reachable => Placed
  <2> SUFFICES ASSUME OwnInv, Reachable, NEW s \in Slots, flowht[s].valid
               PROVE  /\ (s - flowht[s].hash) % ENTRIES < NBSZ
                      /\ LET t == flowst[flowht[s].id].t IN
                         /\ Hash[t] = flowht[s].hash
                         /\ flow[t] = flowht[s].id \/ (sp.pc = "clear" /\ sp.t = t)
    BY DEF Placed
  <2>1. (s - flowht[s].hash) % ENTRIES < NBSZ
    BY DEF Reachable
  <2>2. /\ flowht[s].hash = Hash[flowst[flowht[s].id].t]
        /\ \/ flow[flowst[flowht[s].id].t] = flowht[s].id
           \/ sp.pc = "clear" /\ sp.id = flowht[s].id
    BY SMTT(30) DEF OwnInv, EntryOwned
  <2>3. sp.pc = "clear" => flowst[sp.id].t = sp.t
    BY DEF OwnInv, LookupInv, IdOwned
  <2> QED
    BY <2>1, <2>2, <2>3, SMTT(30)
<1> QED
    BY <1>1, OwnInvariant, PTL
=============================================================================
