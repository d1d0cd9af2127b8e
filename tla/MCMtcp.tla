------------------------------- MODULE MCMtcp -------------------------------
(***************************************************************************)
(* Three parts of an mTCP stream for TLC: its send side, its receive       *)
(* buffer and its events.  A behaviour is one of a single part, which the  *)
(* initial state chooses; the other two stay as they were set up.          *)
(***************************************************************************)
EXTENDS MtcpSend, MtcpRing, MtcpEvents

VARIABLE part

mtcpVars == <<part, sendVars, ringVars, eventVars>>

MtcpInit ==
    /\ part \in {"send", "ring", "events"}
    /\ SendInit /\ RingInit /\ EventsInit
    /\ lists.on_control_list => part = "send"

\* No property of the events speaks of what comes after a race or after a
\* queue was full.
Followed == ~raced /\ ~dropped

MtcpNext ==
    /\ UNCHANGED part
    /\ \/ part = "send" /\ SendNext /\ UNCHANGED <<ringVars, eventVars>>
       \/ part = "ring" /\ RingNext /\ UNCHANGED <<sendVars, eventVars>>
       \/ part = "events" /\ Followed /\ EventsNext /\ UNCHANGED <<sendVars, ringVars>>

\* The fairness of SendFairSpec and of EventsFairSpec.
MtcpSpec ==
    /\ MtcpInit /\ [][MtcpNext]_mtcpVars
    /\ WF_sendVars(part = "send" /\ Application)
    /\ WF_sendVars(part = "send" /\ Stack)
    /\ SF_sendVars(part = "send" /\ rx_new)
    /\ SF_sendVars(part = "send" /\ CheckRtmTimeout)
    /\ WF_eventVars(part = "events" /\ Followed /\ AppSteps)
    /\ WF_eventVars(part = "events" /\ Followed /\ StackSteps)

(* Both buffers of a stream are exact: see SendExact for the send buffer   *)
(* and what FlushTCPSendingBuffer reads from it, RingExact for the receive *)
(* buffer and what CopyToUser reads from it.                               *)
StreamExact == SendExact /\ RingExact

(* The stream makes progress: see Delivered for what was written and the   *)
(* FIN, Heard for what has arrived and an application in mtcp_epoll_wait.  *)
StreamProgress == Delivered /\ Heard
=============================================================================
