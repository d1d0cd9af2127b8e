------------------------------ MODULE FlowState ------------------------------
(***************************************************************************)
(* One flow on one fast-path core: the handlers of FlowOps driven by a     *)
(* queue manager, an application and a network that delivers whatever      *)
(* segments it likes.  Each handler runs under the flow's spin lock, so it *)
(* is one step.  `qavail' is the amount the queue manager still has to     *)
(* grant to the flow (struct queue.avail of qman.c).                       *)
(***************************************************************************)
EXTENDS FlowOps

CONSTANTS
    SeqOffsets,     \* where segments start, relative to the expected byte
    AckOffsets,     \* what they acknowledge, relative to the first unacked
    Lens, Fins,     \* payload lengths and FIN flags the network delivers
    Flags,          \* other flags of the segments: "syn", "other"
    TxBumps,        \* amounts the application adds
    RxBumps,        \* amounts the application frees
    InitSeq         \* first sequence number of either direction

ASSUME FlowStateAssumption ==
    /\ SeqOffsets \subseteq Word /\ AckOffsets \subseteq Word
    /\ Lens \subseteq Nat /\ \A n \in Lens : RX_LEN + n < TRIM
    /\ Fins \subseteq BOOLEAN
    /\ Flags \subseteq {"syn", "other"}
    /\ TxBumps \subseteq Nat /\ RxBumps \subseteq Nat /\ InitSeq \in Word
    /\ RX_LEN < WND24

VARIABLES
    tx, rx,         \* the two halves of the flow state
    slow,           \* the SLOWPATH bit of rx_base_sp
    bump_seq,       \* sequence number of the last bump
    qavail          \* avail of the flow's queue

vars == <<tx, rx, slow, bump_seq, qavail>>

\* nicif_connection_add: the peer's window is taken to be our own buffer.
Init ==
    /\ tx = [avail |-> 0, sent |-> 0, pos |-> 0, seq |-> InitSeq,
             wnd |-> RX_LEN, wmult |-> 1, dupack |-> 0, fin |-> FALSE]
    /\ rx = [avail |-> RX_LEN, pos |-> 0, seq |-> InitSeq, ooo_start |-> 0,
             ooo_len |-> 0, fin |-> FALSE]
    /\ slow = FALSE
    /\ bump_seq = 0
    /\ qavail = 0

\* qman_set with QMAN_ADD_AVAIL.
Wake(q, old, new) == q + Growth(old, new)

\* poll_qman: qman_poll takes a chunk off the queue, the flow sends a segment
\* if anything can be sent.
fast_flows_qman ==
    /\ qavail > 0
    /\ qavail' = qavail - MinOf(qavail, TCP_MSS)
    /\ tx' = IF TxAvail(tx) = 0 THEN tx ELSE QmanSent(tx)
    /\ UNCHANGED <<rx, slow, bump_seq>>

fast_flows_packet(p) ==
    /\ ~slow
    /\ \E res \in {PacketResult(tx, rx, p)} :
           /\ tx' = res.tx
           /\ rx' = res.rx
           /\ qavail' = Wake(qavail, TxAvail(tx), TxAvail(res.tx))
    /\ UNCHANGED <<slow, bump_seq>>

\* The label slowpath of fast_flows_packet: a SYN is passed on, any other
\* unusual flag moves the flow to the slow path for good.
Slowpath(flag) ==
    /\ slow' = (slow \/ flag = "other")
    /\ UNCHANGED <<tx, rx, bump_seq, qavail>>

fast_flows_bump(b) ==
    /\ bump_seq' = IF StaleBump(bump_seq, b.seq) THEN bump_seq ELSE b.seq
    /\ IF ~StaleBump(bump_seq, b.seq) /\ BumpValid(tx, rx, b)
       THEN /\ tx' = BumpedTx(tx, b)
            /\ rx' = BumpedRx(rx, b)
            /\ qavail' = Wake(qavail, TxAvail(tx), TxAvail(BumpedTx(tx, b)))
       ELSE UNCHANGED <<tx, rx, qavail>>
    /\ UNCHANGED slow

\* Mutant: the queue manager is not told that there is data again.
fast_flows_retransmit_silent ==
    /\ tx.sent # 0
    /\ tx' = flow_reset_retransmit(tx)
    /\ UNCHANGED <<rx, slow, bump_seq, qavail>>

fast_flows_retransmit ==
    /\ tx.sent # 0
    /\ tx' = flow_reset_retransmit(tx)
    /\ qavail' = Wake(qavail, TxAvail(tx), TxAvail(tx'))
    /\ UNCHANGED <<rx, slow, bump_seq>>

-----------------------------------------------------------------------------
\* What the network may deliver and the application may ask for.  libtas only
\* frees bytes it was given; bumps of two contexts may arrive in any order.
Packets ==
    [seq : {Add32(rx.seq, d) : d \in SeqOffsets},
     ack : {Add32(Sub32(tx.seq, tx.sent), d) : d \in AckOffsets},
     len : Lens, wnd : 0 .. WND16 - 1,
     isack : BOOLEAN, fin : Fins]

AppBumps ==
    [seq : 0 .. BSEQ - 1,
     rx : {n \in RxBumps : n <= RX_LEN - rx.avail}, tx : TxBumps, done : Fins]

Next ==
    \/ fast_flows_qman
    \/ \E p \in Packets : fast_flows_packet(p)
    \/ \E flag \in Flags : Slowpath(flag)
    \/ \E b \in AppBumps : fast_flows_bump(b)
    \/ fast_flows_retransmit

Spec == Init /\ [][Next]_vars

-----------------------------------------------------------------------------
\* Every field of the flow keeps the range the code's types and asserts give
\* it: positions stay inside their buffers and no unsigned count wraps.
TypeOK ==
    /\ tx \in Transmit
    /\ rx \in Receive
    /\ slow \in BOOLEAN
    /\ bump_seq \in 0 .. BSEQ - 1
    /\ qavail \in Nat

(* The transmit buffer is never over-committed: bytes in flight and bytes  *)
(* still to be sent fit together, whatever mix of bumps, acknowledgements  *)
(* (of the future too) and retransmissions the flow has gone through.      *)
SendBuffer == tx.avail + tx.sent <= TX_LEN

(* No lost wake-up: the queue manager has always been granted at least as  *)
(* much as flow control lets the flow send, so that data that can be sent  *)
(* will be.  The handlers only ever add a difference to the queue, taken   *)
(* between the moments they look at the flow.                              *)
NoLostWakeup == TxAvail(tx) <= qavail

(* The inductive form of what keeps rx_avail from wrapping: the remembered *)
(* interval starts inside the unused buffer and overshoots its end by less *)
(* than one segment.                                                       *)
OooInterval ==
    rx.ooo_len # 0 =>
        /\ Sub32(rx.ooo_start, rx.seq) <= rx.avail
        /\ \E n \in Lens :
              Sub32(rx.ooo_start, rx.seq) + rx.ooo_len <= rx.avail + n

(* Once the peer's FIN has been taken the receive stream is over: the next *)
(* expected sequence number and the buffer position stay where they are.   *)
EndOfStream ==
    [][rx.fin => rx'.fin /\ rx'.seq = rx.seq /\ rx'.pos = rx.pos]_vars
=============================================================================
