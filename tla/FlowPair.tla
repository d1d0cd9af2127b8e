------------------------------ MODULE FlowPair ------------------------------
(***************************************************************************)
(* Two TAS hosts and one connection: the handlers of FlowOps at both ends, *)
(* a network that loses, duplicates and reorders, and an application on    *)
(* each side that writes a stream, closes it and reads the other one.      *)
(*                                                                         *)
(* Payload is the index of a byte in its stream.  The circular buffers     *)
(* hold such indexes, so that a byte that is lost, doubled, misplaced or   *)
(* overwritten is seen.  The transmit buffer is a function of how much     *)
(* was written, because libtas writes it front to back.                    *)
(***************************************************************************)
EXTENDS FlowOps, FiniteSets

CONSTANTS
    Stream,         \* how many bytes each end sends before it closes
    Closers,        \* the ends that close their stream
    InitSeq,        \* first sequence number of each end
    MaxFaults       \* losses, duplications and early timeouts, together

Ends == {"a", "b"}

Peer(e) == IF e = "a" THEN "b" ELSE "a"

ASSUME FlowPairAssumption ==
    /\ Stream \in [Ends -> Nat] /\ InitSeq \in [Ends -> Word]
    /\ Closers \subseteq Ends /\ MaxFaults \in Nat
    /\ RX_LEN <= TX_LEN /\ RX_LEN < WND16

VARIABLES
    tx, rx,         \* the flow state of each end, as in FlowOps
    rxbuf,          \* the receive buffer of each end: position -> byte
    app,            \* the application's view of the connection (libtas)
    net,            \* segments on their way
    faults          \* how many faults there were

vars == <<tx, rx, rxbuf, app, net, faults>>

\* Content of a buffer position nobody has written.
Empty == -1

Init ==
    /\ tx = [e \in Ends |->
               [avail |-> 0, sent |-> 0, pos |-> 0, seq |-> InitSeq[e],
                wnd |-> RX_LEN, wmult |-> 1, dupack |-> 0, fin |-> FALSE]]
    /\ rx = [e \in Ends |->
               [avail |-> RX_LEN, pos |-> 0, seq |-> InitSeq[Peer(e)],
                ooo_start |-> 0, ooo_len |-> 0, fin |-> FALSE]]
    /\ rxbuf = [e \in Ends |-> [i \in 0 .. RX_LEN - 1 |-> Empty]]
    /\ app = [e \in Ends |->
                [written |-> 0, free |-> TX_LEN, closed |-> FALSE,
                 unread |-> 0, read |-> 0, eos |-> FALSE]]
    /\ net = {}
    /\ faults = 0

-----------------------------------------------------------------------------
(* flow_tx_read: the byte at a position of the transmit buffer, after so   *)
(* many bytes have been written.                                           *)
TxByte(written, pos) ==
    LET here == {i \in 0 .. written - 1 : i % TX_LEN = pos}
    IN  IF here = {} THEN Empty ELSE CHOOSE i \in here : \A j \in here : j <= i

flow_tx_read(written, pos, n) ==
    [k \in 1 .. n |-> TxByte(written, (pos + k - 1) % TX_LEN)]

\* Mutant: a write that runs past the end of the buffer is cut off there.
flow_rx_write_cut(buf, pos, bytes) ==
    [i \in DOMAIN buf |->
        LET ks == {k \in DOMAIN bytes : pos + k - 1 = i}
        IN  IF ks = {} THEN buf[i] ELSE bytes[CHOOSE k \in ks : TRUE]]

flow_rx_write(buf, pos, bytes) ==
    [i \in DOMAIN buf |->
        LET ks == {k \in DOMAIN bytes : (pos + k - 1) % RX_LEN = i}
        IN  IF ks = {} THEN buf[i] ELSE bytes[CHOOSE k \in ks : TRUE]]

Message(to, hdr, data) == [to |-> to, hdr |-> hdr, data |-> data]

Pure(e, hdrs) == {Message(Peer(e), h, <<>>) : h \in hdrs}

-----------------------------------------------------------------------------
(* The queue manager grants end e a segment.  FlowState shows that it does *)
(* so whenever something can be sent (NoLostWakeup).  The mutant waits     *)
(* until a segment is full.                                                *)
Qman_fullOnly(e) ==
    /\ TxAvail(tx[e]) >= TCP_MSS
    /\ \E hdr \in {QmanSegment(tx[e], rx[e])} :
         net' = net \cup {Message(Peer(e), hdr,
                    flow_tx_read(app[e].written, tx[e].pos, hdr.len))}
    /\ tx' = [tx EXCEPT ![e] = QmanSent(@)]
    /\ UNCHANGED <<rx, rxbuf, app, faults>>

Qman(e) ==
    /\ TxAvail(tx[e]) > 0
    /\ \E hdr \in {QmanSegment(tx[e], rx[e])} :
         net' = net \cup {Message(Peer(e), hdr,
                    flow_tx_read(app[e].written, tx[e].pos, hdr.len))}
    /\ tx' = [tx EXCEPT ![e] = QmanSent(@)]
    /\ UNCHANGED <<rx, rxbuf, app, faults>>

\* The slice of a segment that is kept goes to rx_next_pos, or as far beyond
\* as it is early (flow_rx_seq_write).
Stored(e, res, data) ==
    flow_rx_write(rxbuf[e], rx[e].pos + res.at,
                  [k \in 1 .. res.len |-> data[res.off + k]])

\* flextcp_context_poll: the application takes notice.
Notified(a, arx) ==
    [a EXCEPT !.unread = @ + arx.rx_bump, !.free = @ + arx.tx_bump,
              !.eos = @ \/ arx.fin]

Packet(m, rest) ==
    \E ack \in {AckResult(tx[m.to], m.hdr)},
       pay \in {PayloadResult(rx[m.to], m.hdr)} :
    \E res \in {Combined(rx[m.to], m.hdr, ack, pay)} :
         /\ tx' = [tx EXCEPT ![m.to] = res.tx]
         /\ rx' = [rx EXCEPT ![m.to] = res.rx]
         /\ rxbuf' = [rxbuf EXCEPT ![m.to] = Stored(m.to, res, m.data)]
         /\ app' = [app EXCEPT ![m.to] = Notified(@, res.arx)]
         /\ net' = rest \cup Pure(m.to, res.ack)

Deliver(m) == Packet(m, net \ {m}) /\ UNCHANGED faults

-----------------------------------------------------------------------------
(* A bump of the application, and the window update it may cause.          *)
Bump(e, b) ==
    IF BumpValid(tx[e], rx[e], b)
    THEN /\ tx' = [tx EXCEPT ![e] = BumpedTx(@, b)]
         /\ rx' = [rx EXCEPT ![e] = BumpedRx(@, b)]
         /\ net' = IF WindowUpdate(tx[e], rx[e], b)
                   THEN net \cup Pure(e, {flow_tx_ack(tx[e].seq, rx[e].seq,
                                             BumpedRx(rx[e], b).avail)})
                   ELSE net
    ELSE UNCHANGED <<tx, rx, net>>

\* flextcp_connection_tx_alloc, the write, and flextcp_connection_tx_send.
Write(e) ==
    \E n \in 1 .. MinOf(app[e].free, Stream[e] - app[e].written) :
        /\ app' = [app EXCEPT ![e].written = @ + n, ![e].free = @ - n]
        /\ Bump(e, [rx |-> 0, tx |-> n, done |-> FALSE])
        /\ UNCHANGED <<rxbuf, faults>>

\* flextcp_connection_tx_close and flextcp_conn_pushtxeos: the end of the
\* stream takes a dummy byte of the buffer, as soon as there is one.
Close(e) ==
    /\ e \in Closers /\ ~app[e].closed
    /\ app[e].written = Stream[e] /\ app[e].free > 0
    /\ app' = [app EXCEPT ![e].written = @ + 1, ![e].free = @ - 1,
                          ![e].closed = TRUE]
    /\ Bump(e, [rx |-> 0, tx |-> 1, done |-> TRUE])
    /\ UNCHANGED <<rxbuf, faults>>

\* The application reads, and frees what it has read.
Read(e) ==
    \E n \in 1 .. app[e].unread :
        /\ app' = [app EXCEPT ![e].unread = @ - n, ![e].read = @ + n]
        /\ Bump(e, [rx |-> n, tx |-> 0, done |-> FALSE])
        /\ UNCHANGED <<rxbuf, faults>>

-----------------------------------------------------------------------------
(* issue_retransmits of cc.c, and what the network does wrong.  A timeout  *)
(* is due once nothing is on its way; a fault makes it early.              *)
Rexmit(e) ==
    /\ tx[e].sent # 0
    /\ tx' = [tx EXCEPT ![e] = flow_reset_retransmit(@)]
    /\ UNCHANGED <<rx, rxbuf, app, net>>

Retransmit(e) == net = {} /\ Rexmit(e) /\ UNCHANGED faults

Fault == faults < MaxFaults /\ faults' = faults + 1

EarlyRetransmit(e) == Fault /\ net # {} /\ Rexmit(e)

Duplicate(m) == Fault /\ Packet(m, net)

Lose(m) ==
    Fault /\ net' = net \ {m} /\ UNCHANGED <<tx, rx, rxbuf, app>>

-----------------------------------------------------------------------------
\* What the hosts do, and what the network does when it works.
Work ==
    \/ \E e \in Ends :
         Qman(e) \/ Write(e) \/ Close(e) \/ Read(e) \/ Retransmit(e)
    \/ \E m \in net : Deliver(m)

Next ==
    \/ Work
    \/ \E e \in Ends : EarlyRetransmit(e)
    \/ \E m \in net : Duplicate(m) \/ Lose(m)

Spec == Init /\ [][Next]_vars

\* The fast path polls its queues and the network, the slow path its timers,
\* and the applications write: as long as anything is left to be done,
\* something is.  An application that has unread bytes reads, also while its
\* peer keeps retransmitting into the full buffer.
FairSpec == Spec /\ WF_vars(Work) /\ \A e \in Ends : WF_vars(Read(e))

-----------------------------------------------------------------------------
TypeOK ==
    /\ tx \in [Ends -> Transmit] /\ rx \in [Ends -> Receive]
    /\ \A e \in Ends :
         /\ app[e].free \in 0 .. TX_LEN /\ app[e].unread \in 0 .. RX_LEN
         /\ DOMAIN rxbuf[e] = 0 .. RX_LEN - 1
    /\ \A m \in net : m.to \in Ends /\ m.hdr \in Segment
    /\ faults \in 0 .. MaxFaults

\* How much end e has been given of the other stream.
Got(e) == app[e].read + app[e].unread

(* The stream arrives as it was written: what lies unread in the receive   *)
(* buffer is the next bytes of the peer's stream, in order, whatever was   *)
(* lost, repeated or reordered, and nothing has overwritten them.  The     *)
(* application is told that it has ended only after the peer has closed it *)
(* and after it has been given every byte.                                 *)
StreamIntegrity ==
    \A e \in Ends :
        /\ \A k \in 1 .. app[e].unread :
              rxbuf[e][(rx[e].pos - k) % RX_LEN] = Got(e) - k
        /\ app[e].eos => app[Peer(e)].closed /\ Got(e) = Stream[Peer(e)]

(* The sender gives buffer space back to its application only for bytes    *)
(* the other end has received, future acknowledgements included.           *)
NothingFreedEarly ==
    \A e \in Ends :
        app[e].written - (TX_LEN - app[e].free)
            <= Got(Peer(e)) + (IF app[Peer(e)].eos THEN 1 ELSE 0)

(* Application and fast path agree about both buffers, and no count leaves *)
(* its range: no byte is forgotten or counted twice between bumps and      *)
(* notifications.                                                          *)
BuffersAgree ==
    /\ TypeOK
    /\ \A e \in Ends :
          /\ app[e].free + tx[e].avail + tx[e].sent = TX_LEN
          /\ app[e].unread + rx[e].avail = RX_LEN

\* The sender waits for space, and the receiver has some.
Waiting(e) ==
    /\ tx[e].avail > 0 /\ tx[e].sent = 0 /\ Window(tx[e]) = 0
    /\ rx[Peer(e)].avail > 0

(* When a full buffer is freed fast_flows_bump says that it "need[s] to    *)
(* send out a window update": a sender that waits for space does not wait  *)
(* for ever once the receiver has some.                                    *)
WindowReopens == \A e \in Ends : Waiting(e) ~> ~Waiting(e)

\* The peer has read the stream of e to its end and acknowledged it.
Delivered(e) ==
    /\ app[Peer(e)].eos /\ app[Peer(e)].read = Stream[e]
    /\ tx[e].avail = 0 /\ tx[e].sent = 0

(* In spite of a fault every stream is delivered to its end and is         *)
(* acknowledged, the dummy byte of fast_flows_qman's FIN included; the     *)
(* only sender that may stop before is one for which WindowReopens fails.  *)
Delivery == \A e \in Closers : <>[](Delivered(e) \/ Waiting(e))
=============================================================================
