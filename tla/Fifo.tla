-------------------------------- MODULE Fifo --------------------------------
(***************************************************************************)
(* What a queue between TAS and an application promises.  Messages are     *)
(* numbered from 1 in the order they are sent; they arrive in this order,  *)
(* each once, and at most Capacity of them wait.                           *)
(***************************************************************************)
EXTENDS Naturals

CONSTANT Capacity

VARIABLES
    sent,           \* number of the last message sent
    received        \* number of the last message received

vars == <<sent, received>>

Init == sent = 0 /\ received = 0

Put ==
    /\ sent - received < Capacity
    /\ sent' = sent + 1
    /\ UNCHANGED received

Get ==
    /\ received < sent
    /\ received' = received + 1
    /\ UNCHANGED sent

Next == Put \/ Get

Spec == Init /\ [][Next]_vars
=============================================================================
