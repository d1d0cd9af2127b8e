---------------------------- MODULE MCFlowTable ----------------------------
(* FlowTable with flows whose slots overlap: 1, 3 and 5 have the same slot *)
(* and two of them the same hash; 2 and 4 have the next two slots.         *)
EXTENDS FlowTable

MCHash == <<0, 1, 11, 2, 0>>

=============================================================================
