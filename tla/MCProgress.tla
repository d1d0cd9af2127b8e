----------------------------- MODULE MCProgress -----------------------------
(***************************************************************************)
(* The liveness of TAS's data path for TLC, on both sides of the queues    *)
(* between an application and the fast path.  A behaviour is either one of *)
(* a connection whose flow group moves (FlowMove) or one of the library    *)
(* with several connections and a queue of a single entry (LibTas); the    *)
(* other half stays in its initial state.                                  *)
(***************************************************************************)
EXTENDS FlowMove

CONSTANTS
    Conns, NULL, RXB, TXB, KIN, ATX, Events, MaxRx, MaxTx, MaxArx, MaxGen,
    CloseEarly, Reuse

VARIABLES
    part,           \* the half this behaviour is about
    conn, next, pending, first, last, kin, kout, libarx, libatx, poll, heard,
    libflow, failed

libvars == <<conn, next, pending, first, last, kin, kout, libarx, libatx, poll,
             heard, libflow, failed>>

Lib == INSTANCE LibTas WITH arx <- libarx, atx <- libatx, flow <- libflow

ProgressInit == part \in {"move", "library"} /\ Init /\ Lib!Init

ProgressNext ==
    /\ UNCHANGED part
    /\ \/ part = "move" /\ Next /\ UNCHANGED libvars
       \/ part = "library" /\ Lib!Next /\ UNCHANGED vars

\* The cores, the peer, the application with its polls and the fast path
\* keep going.
ProgressSpec ==
    /\ ProgressInit /\ [][ProgressNext]_<<part, vars, libvars>>
    /\ WF_vars(part = "move" /\ Work)
    /\ WF_libvars(part = "library" /\ Lib!Poll)
    /\ WF_libvars(part = "library" /\ Lib!TakeBump)

(* All that was written is sent, acknowledged and freed, in spite of the   *)
(* moves of the flow from core to core (Forward and fast_flows_qman_fwd,   *)
(* the stale bumps of fast_flows_bump) and of time outs.                   *)
MovedDrained == <>[](part = "move" => Drained)

(* A connection with a bump to send is not forgotten: conns_bump takes it  *)
(* off the list sooner or later, however often the queue to the fast path  *)
(* is full, or the connection is closed.                                   *)
BumpsLeave == Lib!BumpsLeave
=============================================================================
