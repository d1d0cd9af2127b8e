------------------------------ MODULE FlowMove ------------------------------
(***************************************************************************)
(* One connection while the fast path scales: its flow group moves from    *)
(* core to core.  Each core has its own queue manager, its own NIC receive *)
(* queue and its own pair of queues to the application's context; the flow *)
(* state is shared and every handler holds its lock.  What a core has      *)
(* queued for the flow stays behind when the flow moves.                   *)
(*                                                                         *)
(* arx_cache_flush publishes a notification some time after the handler    *)
(* has left the flow, so the application may see the queues of two cores   *)
(* in either order.                                                        *)
(***************************************************************************)
EXTENDS FlowOps, SequencesExt

CONSTANTS
    Cores,          \* the cores of the fast path
    Home,           \* the core that has the flow at first
    ToSend,         \* bytes the application writes
    ToReceive,      \* bytes the peer sends before its FIN
    MaxMoves,       \* how often the flow group moves
    MaxTimeouts,    \* how often the slow path asks for a retransmission
    MaxBumps        \* bumps on their way to the fast path

ASSUME FlowMoveAssumption ==
    /\ Home \in Cores /\ RX_LEN <= TX_LEN /\ RX_LEN < WND16
    /\ ToSend \in Nat /\ ToReceive \in Nat /\ ToReceive <= RX_LEN
    /\ MaxMoves \in Nat /\ MaxTimeouts \in Nat /\ MaxBumps \in Nat
    /\ ToSend + ToReceive < BSEQ \div 2

VARIABLES
    tx, rx, bump_seq,   \* the flow, as in FlowState
    qavail,             \* core -> avail of the flow's queue
    fwd,                \* core -> entries of its qman_fwd_ring
    steering,           \* flow_group_steering of the flow's group
    reta,               \* the NIC's redirection table entry of the group
    rxq,                \* core -> segments in its NIC receive queue
    atx, arx,           \* core -> bumps and notifications in its queues
    app,                \* struct flextcp_connection
    peer,               \* what the peer has received, acknowledged and sent
    moves, timeouts

flow == <<tx, rx, bump_seq>>
env == <<moves, timeouts>>
vars == <<flow, qavail, fwd, steering, reta, rxq, atx, arx, app, peer, env>>

None == [c \in Cores |-> <<>>]

Init ==
    /\ tx = [avail |-> 0, sent |-> 0, pos |-> 0, seq |-> 0, wnd |-> RX_LEN,
             wmult |-> 1, dupack |-> 0, fin |-> FALSE]
    /\ rx = [avail |-> RX_LEN, pos |-> 0, seq |-> 0, ooo_start |-> 0,
             ooo_len |-> 0, fin |-> FALSE]
    /\ bump_seq = 0
    /\ qavail = [c \in Cores |-> 0] /\ fwd = [c \in Cores |-> 0]
    /\ steering = Home /\ reta = Home
    /\ rxq = None /\ atx = None /\ arx = None
    /\ app = [fn_core |-> Home, written |-> 0, txb_sent |-> 0, txb_bump |-> 0,
              rxb_used |-> 0, rxb_bump |-> 0, seq |-> 0, pending |-> FALSE,
              polling |-> FALSE, rx_closed |-> FALSE]
    /\ peer = [got |-> 0, acked |-> 0, sent |-> 0, fin |-> FALSE]
    /\ moves = 0 /\ timeouts = 0

-----------------------------------------------------------------------------
\* The network to the peer is reliable: a segment is there at once, and moves
\* the peer on unless it is a repetition.
PeerTakes(hdr) ==
    [peer EXCEPT !.got = IF hdr.seq + hdr.len > @ THEN hdr.seq + hdr.len ELSE @]

\* Mutant: the flow's queue is cleared but its new core is not told.
Forward_dropped(c) ==
    /\ qavail' = [qavail EXCEPT ![c] = 0]
    /\ UNCHANGED <<flow, fwd, peer>>

\* The flow has been moved: "add to forwarding queue and stop".
Forward(c) ==
    /\ qavail' = [qavail EXCEPT ![c] = 0]
    /\ fwd' = [fwd EXCEPT ![steering] = @ + 1]
    /\ UNCHANGED <<flow, peer>>

Send(c) ==
    /\ qavail' = [qavail EXCEPT ![c] = @ - MinOf(@, TCP_MSS)]
    /\ IF TxAvail(tx) = 0 THEN UNCHANGED <<tx, peer>>
       ELSE /\ tx' = QmanSent(tx)
            /\ peer' = PeerTakes(QmanSegment(tx, rx))
    /\ UNCHANGED <<rx, bump_seq, fwd>>

fast_flows_qman(c) ==
    /\ qavail[c] > 0
    /\ IF steering # c THEN Forward(c) ELSE Send(c)
    /\ UNCHANGED <<steering, reta, rxq, atx, arx, app, env>>

\* Mutant: the new core sets rate and chunk size but not the amount.
fast_flows_qman_fwd_rateOnly(c) ==
    /\ fwd[c] > 0
    /\ fwd' = [fwd EXCEPT ![c] = @ - 1]
    /\ UNCHANGED <<flow, qavail, steering, reta, rxq, atx, arx, app, peer, env>>

fast_flows_qman_fwd(c) ==
    /\ fwd[c] > 0
    /\ fwd' = [fwd EXCEPT ![c] = @ - 1]
    /\ qavail' = [qavail EXCEPT ![c] = TxAvail(tx)]
    /\ UNCHANGED <<flow, steering, reta, rxq, atx, arx, app, peer, env>>

Wake(c, old, new) == qavail' = [qavail EXCEPT ![c] = @ + Growth(old, new)]

fast_flows_packet(c) ==
    /\ rxq[c] # <<>>
    /\ rxq' = [rxq EXCEPT ![c] = Tail(@)]
    /\ \E res \in {PacketResult(tx, rx, Head(rxq[c]))} :
         /\ tx' = res.tx /\ rx' = res.rx
         /\ Wake(c, TxAvail(tx), TxAvail(res.tx))
         /\ arx' = IF res.arx.rx_bump # 0 \/ res.arx.tx_bump # 0 \/ res.arx.fin
                   THEN [arx EXCEPT ![c] = Append(@, res.arx)] ELSE arx
    /\ UNCHANGED <<bump_seq, fwd, steering, reta, atx, app, peer, env>>

fast_flows_bump(c) ==
    /\ atx[c] # <<>>
    /\ atx' = [atx EXCEPT ![c] = Tail(@)]
    /\ \E b \in {Head(atx[c])} :
         IF StaleBump(bump_seq, b.seq) THEN UNCHANGED <<flow, qavail>>
         ELSE /\ bump_seq' = b.seq
              /\ IF BumpValid(tx, rx, b)
                 THEN /\ tx' = BumpedTx(tx, b) /\ rx' = BumpedRx(rx, b)
                      /\ Wake(c, TxAvail(tx), TxAvail(BumpedTx(tx, b)))
                 ELSE UNCHANGED <<tx, rx, qavail>>
    /\ UNCHANGED <<fwd, steering, reta, rxq, arx, app, peer, env>>

\* The request waits in a queue of the core that had the flow when it was
\* made.
fast_flows_retransmit(c) ==
    /\ timeouts < MaxTimeouts /\ tx.sent # 0
    /\ timeouts' = timeouts + 1
    /\ tx' = flow_reset_retransmit(tx)
    /\ Wake(c, TxAvail(tx), TxAvail(tx'))
    /\ UNCHANGED <<rx, bump_seq, fwd, steering, reta, rxq, atx, arx, app, peer,
                   moves>>

-----------------------------------------------------------------------------
(* poll_scale: network_scale_up and network_scale_down change the steering *)
(* of a group first and the redirection table of the NIC after all groups. *)
Steer(c) ==
    /\ moves < MaxMoves /\ c # steering /\ reta = steering
    /\ moves' = moves + 1 /\ steering' = c
    /\ UNCHANGED <<flow, qavail, fwd, reta, rxq, atx, arx, app, peer, timeouts>>

RetaUpdate ==
    /\ reta # steering /\ reta' = steering
    /\ UNCHANGED <<flow, qavail, fwd, steering, rxq, atx, arx, app, peer, env>>

-----------------------------------------------------------------------------
(* libtas.  The application writes and reads between two polls.            *)
Write ==
    /\ ~app.polling
    /\ \E n \in 1 .. MinOf(TX_LEN - app.txb_sent, ToSend - app.written) :
         app' = [app EXCEPT !.written = @ + n, !.txb_sent = @ + n,
                            !.txb_bump = @ + n, !.pending = TRUE]
    /\ UNCHANGED <<flow, qavail, fwd, steering, reta, rxq, atx, arx, peer, env>>

\* flextcp_connection_rx_done tells the fast path once a quarter is free.
Read ==
    /\ ~app.polling
    /\ \E n \in 1 .. app.rxb_used :
         app' = [app EXCEPT !.rxb_used = @ - n, !.rxb_bump = @ + n,
                            !.pending = @ \/ app.rxb_bump + n > RX_LEN \div 4]
    /\ UNCHANGED <<flow, qavail, fwd, steering, reta, rxq, atx, arx, peer, env>>

Queued(q) == FoldFunction(+, 0, [c \in Cores |-> Len(q[c])])

\* conns_bump: a queue entry for the core the application knows.
conns_bump(a) ==
    IF a.pending /\ Queued(atx) < MaxBumps
    THEN /\ atx' = [atx EXCEPT ![a.fn_core] =
                Append(@, [seq |-> a.seq, rx |-> a.rxb_bump,
                           tx |-> a.txb_bump, done |-> FALSE])]
         /\ app' = [a EXCEPT !.rxb_bump = 0, !.txb_bump = 0, !.pending = FALSE,
                             !.seq = (@ + 1) % BSEQ, !.polling = FALSE]
    ELSE app' = [a EXCEPT !.polling = FALSE] /\ UNCHANGED atx

\* event_arx_connupdate: the application follows the notifications.
Notified(c, ev) ==
    [app EXCEPT !.fn_core = c, !.txb_sent = @ - ev.tx_bump,
                !.rxb_used = @ + ev.rx_bump, !.rx_closed = @ \/ ev.fin]

\* flextcp_context_poll takes any number of notifications, queue by queue, and
\* then sends the bumps.
PollEvent(c) ==
    /\ arx[c] # <<>>
    /\ arx' = [arx EXCEPT ![c] = Tail(@)]
    /\ \/ conns_bump(Notified(c, Head(arx[c])))
       \/ /\ app' = [Notified(c, Head(arx[c])) EXCEPT !.polling = TRUE]
          /\ Queued(arx) > 1 /\ UNCHANGED atx
    /\ UNCHANGED <<flow, qavail, fwd, steering, reta, rxq, peer, env>>

PollIdle ==
    /\ ~app.polling /\ app.pending /\ Queued(arx) = 0 /\ Queued(atx) < MaxBumps
    /\ conns_bump(app)
    /\ UNCHANGED <<flow, qavail, fwd, steering, reta, rxq, arx, peer, env>>

-----------------------------------------------------------------------------
(* The peer: acknowledgements and, byte by byte, its own stream.           *)
PeerSegment(n, fin) ==
    /\ peer' = [peer EXCEPT !.acked = peer.got, !.sent = @ + n, !.fin = @ \/ fin]
    /\ rxq' = [rxq EXCEPT ![reta] = Append(@,
                 [seq |-> peer.sent, ack |-> peer.got, len |-> n,
                  wnd |-> RX_LEN, isack |-> TRUE, fin |-> fin])]
    /\ UNCHANGED <<flow, qavail, fwd, steering, reta, atx, arx, app, env>>

PeerAck == peer.got > peer.acked /\ PeerSegment(0, FALSE)

PeerSend == ~peer.fin /\ peer.sent < ToReceive /\ PeerSegment(1, FALSE)

PeerFin ==
    /\ ~peer.fin /\ ToReceive > 0 /\ peer.sent = ToReceive
    /\ PeerSegment(0, TRUE)

-----------------------------------------------------------------------------
Work ==
    \/ \E c \in Cores : \/ fast_flows_qman(c) \/ fast_flows_qman_fwd(c)
                        \/ fast_flows_packet(c) \/ fast_flows_bump(c)
                        \/ PollEvent(c)
    \/ Write \/ PollIdle \/ RetaUpdate \/ PeerAck \/ PeerSend \/ PeerFin

Next ==
    \/ Work
    \/ Read
    \/ \E c \in Cores : Steer(c) \/ fast_flows_retransmit(c)

Spec == Init /\ [][Next]_vars

\* Cores, application and peer keep polling.
FairSpec == Spec /\ WF_vars(Work)

-----------------------------------------------------------------------------
Total(f(_), q) ==
    FoldFunction(+, 0, [c \in Cores |->
        FoldSeq(LAMBDA e, s : f(e) + s, 0, q[c])])

TypeOK ==
    /\ tx \in Transmit /\ rx \in Receive /\ bump_seq \in 0 .. BSEQ - 1
    /\ qavail \in [Cores -> Nat] /\ fwd \in [Cores -> Nat]
    /\ steering \in Cores /\ reta \in Cores
    /\ app.fn_core \in Cores /\ app.txb_sent \in 0 .. TX_LEN
    /\ app.rxb_used + app.rxb_bump \in 0 .. RX_LEN

(* However often and whenever the flow moves, what it may send is known to *)
(* some queue manager or its state is on a forwarding ring.                *)
MoveKeepsWakeup ==
    \/ \E c \in Cores : fwd[c] > 0
    \/ TxAvail(tx) <= FoldFunction(+, 0, qavail)

\* The bytes of the transmit and of the receive buffer, wherever they are.
TxBytes ==
    tx.avail + tx.sent + app.txb_bump + Total(LAMBDA b : b.tx, atx)
        + Total(LAMBDA e : e.tx_bump, arx)

RxBytes ==
    rx.avail + app.rxb_used + app.rxb_bump + Total(LAMBDA b : b.rx, atx)
        + Total(LAMBDA e : e.rx_bump, arx)

(* The fast path never has a byte the application has not given to it, and *)
(* the application never a byte the fast path has not stored: bumps and    *)
(* notifications on several cores are not applied twice, and no count      *)
(* leaves its range.                                                       *)
NothingDoubled == TypeOK /\ TxBytes <= app.txb_sent /\ RxBytes <= RX_LEN

(* Bytes given to flextcp_connection_tx_send, and buffer space given to    *)
(* flextcp_connection_rx_done, reach the fast path: none is lost on the    *)
(* way when the flow changes cores.                                        *)
NoBumpLost == TxBytes = app.txb_sent /\ RxBytes = RX_LEN

(* "Receive stream closed" is the last the application hears: by then it   *)
(* has been given every byte the peer has sent.                            *)
ClosedIsLast == app.rx_closed => Total(LAMBDA e : e.rx_bump, arx) = 0

\* All that is to be written has been sent, acknowledged and freed.
Drained == peer.got = ToSend /\ app.written = ToSend /\ app.txb_sent = 0
=============================================================================
