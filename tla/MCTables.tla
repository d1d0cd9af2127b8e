------------------------------ MODULE MCTables ------------------------------
(***************************************************************************)
(* The three tables the slow path shares with the fast path, for TLC: the  *)
(* packet memory, the flow lookup table and the redirection table.  They   *)
(* have no state in common, so a behaviour is one of a single table, which *)
(* the initial state chooses; the other two stay as they were set up.      *)
(***************************************************************************)
EXTENDS Packetmem, FlowTable, Scale

VARIABLE part       \* the table this behaviour is about

Parts == {"packetmem", "flowtable", "scale"}

tablesvars == <<part, memvars, tablevars, scalevars>>

\* Flows whose slots overlap: 1, 3 and 5 have the same slot and two of them
\* the same hash; 2 and 4 have the next two slots.
MCHash == <<0, 1, 11, 2, 0>>

TablesInit == part \in Parts /\ packetmem_init /\ TableInit /\ ScaleInit

TablesNext ==
    /\ UNCHANGED part
    /\ \/ part = "packetmem" /\ MemNext /\ UNCHANGED <<tablevars, scalevars>>
       \/ part = "flowtable" /\ TableNext /\ UNCHANGED <<memvars, scalevars>>
       \/ part = "scale" /\ ScaleNext /\ UNCHANGED <<memvars, tablevars>>

TablesSpec ==
    /\ TablesInit /\ [][TablesNext]_tablesvars
    /\ WF_scalevars(core0)

(* The three tables are well formed, and the assertions that               *)
(* flow_slot_alloc makes while it moves entries hold: it never passes over *)
(* a free slot, overwrites an entry or leaves one where no lookup reaches. *)
TablesSound ==
    MemTypeOK /\ TableTypeOK /\ ScaleTypeOK /\ MoveAsserts /\ Placed
=============================================================================
