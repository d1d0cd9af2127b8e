------------------------------- MODULE FlowOps -------------------------------
(***************************************************************************)
(* The handlers of fast_flows.c as functions of one flow's state.  The     *)
(* fields of struct flextcp_pl_flowst are kept in two records:             *)
(*                                                                         *)
(*   transmit  [avail, sent, pos, seq, wnd, wmult, dupack, fin]            *)
(*             tx_avail, tx_sent, tx_next_pos, tx_next_seq, the low 24     *)
(*             bits of rx_remote_avail, 2^(its high 8 bits),               *)
(*             rx_dupack_cnt, the TXFIN bit of rx_base_sp                  *)
(*   receive   [avail, pos, seq, ooo_start, ooo_len, fin]                  *)
(*             rx_avail, rx_next_pos, rx_next_seq, rx_ooo_start,           *)
(*             rx_ooo_len, the RXFIN bit                                   *)
(*                                                                         *)
(* A segment is [seq, ack, len, wnd, isack, fin].                          *)
(* Rate, RTT estimate, time stamps and the statistics for congestion       *)
(* control do not influence any of this state and are left out.            *)
(***************************************************************************)
EXTENDS TcpCommon

CONSTANTS
    RX_LEN,         \* rx_len
    TX_LEN,         \* tx_len
    TCP_MSS,        \* largest payload of a segment
    WND24,          \* 2^24, the window part of rx_remote_avail
    WND16,          \* 2^16, the window field of a TCP header
    BSEQ            \* 2^16, the modulus of bump_seq

ASSUME FlowOpsAssumption ==
    /\ RX_LEN \in Nat \ {0} /\ TX_LEN \in Nat \ {0} /\ TCP_MSS \in Nat \ {0}
    /\ WND16 \in Nat \ {0} /\ WND24 \in Nat /\ WND16 <= WND24
    /\ TX_LEN < WND24 /\ TX_LEN < SEQ
    /\ BSEQ \in Nat \ {0}
    /\ TCP_MSS < TRIM /\ 2 * TRIM <= SEQ /\ RX_LEN < TRIM

Transmit ==
    [avail : 0 .. TX_LEN, sent : 0 .. TX_LEN, pos : 0 .. TX_LEN - 1,
     seq : Word, wnd : 0 .. WND24 - 1, wmult : Nat, dupack : 0 .. 2,
     fin : BOOLEAN]

Receive ==
    [avail : 0 .. RX_LEN, pos : 0 .. RX_LEN - 1, seq : Word,
     ooo_start : Word, ooo_len : Nat, fin : BOOLEAN]

Segment ==
    [seq : Word, ack : Word, len : 0 .. TRIM - 1, wnd : 0 .. WND16 - 1,
     isack : BOOLEAN, fin : BOOLEAN]

\* Mutant: the position one past the end does not wrap.
Advance_offByOne(pos, n, len) == IF pos + n > len THEN pos + n - len ELSE pos + n

\* A position in a circular buffer of size len, n bytes further on.
Advance(pos, n, len) == IF pos + n >= len THEN pos + n - len ELSE pos + n

\* The flow control window rx_remote_avail stands for.
Window(t) == (t.wnd * t.wmult) % SEQ

TxAvail(t) == tcp_txavail(t.avail, Window(t), t.sent)

\* What the handlers give to qman_set with QMAN_ADD_AVAIL: the growth of the
\* amount that may be sent.
Growth(old, new) == IF new > old THEN new - old ELSE 0

-----------------------------------------------------------------------------
(* flow_tx_segment and flow_tx_ack: the header they build.                 *)
flow_tx_segment(seq, ack, rxwnd, payload, fin) ==
    [seq |-> seq, ack |-> ack, len |-> payload, wnd |-> MinOf(WND16 - 1, rxwnd),
     isack |-> TRUE, fin |-> fin]

flow_tx_ack(seq, ack, rxwnd) == flow_tx_segment(seq, ack, rxwnd, 0, FALSE)

(* Everything in flight is to be sent again.  The addition to the packed   *)
(* rx_remote_avail can carry into the scale.                               *)
flow_reset_retransmit(t) ==
    LET carry == t.wnd + t.sent >= WND24
    IN  [t EXCEPT !.dupack = 0,
                  !.seq = Sub32(t.seq, t.sent),
                  !.pos = IF t.pos >= t.sent THEN t.pos - t.sent
                                             ELSE TX_LEN - (t.sent - t.pos),
                  !.avail = t.avail + t.sent,
                  !.wnd = IF carry THEN t.wnd + t.sent - WND24
                                   ELSE t.wnd + t.sent,
                  !.wmult = IF carry THEN 2 * t.wmult ELSE t.wmult,
                  !.sent = 0]

-----------------------------------------------------------------------------
(* fast_flows_qman: the queue manager grants the flow a chunk.  The last   *)
(* byte of a closed stream is the dummy that stands for the FIN.           *)
QmanLen(t) == MinOf(TxAvail(t), TCP_MSS)

QmanSent(t) ==
    [t EXCEPT !.seq = Add32(t.seq, QmanLen(t)),
              !.pos = Advance(t.pos, QmanLen(t), TX_LEN),
              !.sent = t.sent + QmanLen(t),
              !.avail = t.avail - QmanLen(t)]

QmanFin(t) == t.fin /\ t.avail = QmanLen(t)

QmanSegment(t, r) ==
    flow_tx_segment(t.seq, r.seq, r.avail,
        IF QmanFin(t) THEN QmanLen(t) - 1 ELSE QmanLen(t), QmanFin(t))

-----------------------------------------------------------------------------
(* fast_flows_packet, the acknowledgement of n bytes.  Bytes that          *)
(* flow_reset_retransmit has put back to "not sent" may be acknowledged    *)
(* too (ALLOW_FUTURE_ACKS): the send position moves past them.  The mutant *)
(* would send them although they are no longer in the buffer.              *)
Acked_keepsAvail(t, n) ==
    IF n <= t.sent
    THEN [t EXCEPT !.sent = t.sent - n]
    ELSE [t EXCEPT !.seq = Add32(t.seq, n - t.sent),
                   !.pos = Advance(t.pos, n - t.sent, TX_LEN),
                   !.sent = 0]

Acked(t, n) ==
    IF n <= t.sent
    THEN [t EXCEPT !.sent = t.sent - n]
    ELSE [t EXCEPT !.seq = Add32(t.seq, n - t.sent),
                   !.pos = Advance(t.pos, n - t.sent, TX_LEN),
                   !.avail = t.avail - (n - t.sent),
                   !.sent = 0]

\* A pure acknowledgement that moves nothing is a duplicate.  At the third
\* the handler resets to the first unacknowledged byte and is done (`fast').
AckResult(t, p) ==
    LET ack   == tcp_valid_rxack(t.seq, t.sent, t.avail, p.ack)
        valid == p.isack /\ ack.ok
        dup   == valid /\ ack.bump = 0 /\ p.len = 0
        fast  == dup /\ t.dupack + 1 >= 3
    IN  [bump |-> IF valid THEN ack.bump ELSE 0,
         fast |-> fast,
         tx   |-> IF fast THEN flow_reset_retransmit(t)
                  ELSE IF ~valid THEN t
                  ELSE IF ack.bump # 0
                  THEN [Acked(t, ack.bump) EXCEPT !.dupack = 0]
                  ELSE [t EXCEPT !.dupack = IF dup THEN t.dupack + 1 ELSE t.dupack]]

\* A segment that is in order replaces the window, the scale stays.
WindowSet(t, p) == [t EXCEPT !.wnd = p.wnd]

-----------------------------------------------------------------------------
(* fast_flows_packet, the payload.  n bytes at seq that are out of order   *)
(* are kept when they start, or extend on either side, the one interval    *)
(* the flow remembers.                                                     *)
OooKept(r, seq, n) ==
    /\ n # 0
    /\ \/ r.ooo_len = 0
       \/ Add32(seq, n) = r.ooo_start
       \/ Add32(r.ooo_start, r.ooo_len) = seq

OooStored(r, seq, n) ==
    IF ~OooKept(r, seq, n) THEN r
    ELSE IF r.ooo_len = 0 \/ Add32(seq, n) = r.ooo_start
    THEN [r EXCEPT !.ooo_start = seq, !.ooo_len = r.ooo_len + n]
    ELSE [r EXCEPT !.ooo_len = r.ooo_len + n]

\* n more bytes are in place.
Received(r, n) ==
    [r EXCEPT !.avail = r.avail - n,
              !.pos = Advance(r.pos, n, RX_LEN),
              !.seq = Add32(r.seq, n)]

\* Mutant: the interval keeps its start when its head has become stale.
OooCut_keepsStart(r) ==
    LET cut == tcp_trim_rxbuf(r.seq, r.avail, r.ooo_start, U16(r.ooo_len))
    IN  IF cut.ok
        THEN [r EXCEPT !.ooo_len = r.ooo_len - (cut.start + cut.end)]
        ELSE [r EXCEPT !.ooo_len = 0]

\* After an advance the interval is dropped, or cut to what is still missing.
OooCut(r) ==
    LET cut == tcp_trim_rxbuf(r.seq, r.avail, r.ooo_start, U16(r.ooo_len))
    IN  IF cut.ok
        THEN [r EXCEPT !.ooo_start = Add32(r.ooo_start, cut.start),
                       !.ooo_len = r.ooo_len - (cut.start + cut.end)]
        ELSE [r EXCEPT !.ooo_len = 0]

\* The interval now starts at the next expected byte: it becomes part of the
\* stream.
CaughtUp(r) ==
    IF r.ooo_len # 0 /\ r.ooo_start = r.seq
    THEN [Received(r, r.ooo_len) EXCEPT !.ooo_len = 0] ELSE r

PayloadTaken(r, n) ==
    IF r.ooo_len = 0 THEN Received(r, n) ELSE CaughtUp(OooCut(Received(r, n)))

\* Mutant: payload is taken although the stream has ended.
Accepts_afterFin(r, n) == n > 0

\* "make sure we don't receive anymore payload after FIN"
Accepts(r, n) == n > 0 /\ ~r.fin

\* Mutant: a FIN counts although bytes before it are missing.
FinInOrder_unchecked(r, p) == TRUE

\* Every byte before the FIN of this segment has been received.
FinInOrder(r, p) == r.seq = Add32(p.seq, p.len) /\ r.ooo_len = 0

(* The result: the new state, whether the segment was in order, whether it *)
(* ended the stream, and which slice of it was stored where (`off' bytes   *)
(* into the segment, at distance `at' from the next expected byte).        *)
PayloadResult(r, p) ==
    LET cut     == tcp_trim_rxbuf(r.seq, r.avail, p.seq, p.len)
        seq     == Add32(p.seq, cut.start)
        n       == p.len - (cut.start + cut.end)
        inOrder == cut.ok /\ seq = r.seq
        taken   == inOrder /\ Accepts(r, n)
        got     == IF taken THEN PayloadTaken(r, n) ELSE r
        fin     == inOrder /\ p.fin /\ ~r.fin /\ FinInOrder(got, p)
        kept    == cut.ok /\ ~inOrder /\ OooKept(r, seq, n)
    IN  [inOrder |-> inOrder,
         fin     |-> fin,
         rx      |-> IF cut.ok /\ ~inOrder THEN OooStored(r, seq, n)
                     ELSE IF fin THEN [got EXCEPT !.fin = TRUE,
                                                  !.seq = Add32(got.seq, 1)]
                     ELSE got,
         off     |-> cut.start,
         len     |-> IF taken \/ kept THEN n ELSE 0,
         at      |-> IF inOrder THEN 0 ELSE Sub32(seq, r.seq)]

-----------------------------------------------------------------------------
(* fast_flows_packet as a whole, for a flow and a segment that stay on the *)
(* fast path: the new state, the reply if trigger_ack is set, and the      *)
(* notification for the application.  `a' and `d' are what became of the   *)
(* acknowledgement and of the payload; the former may end the handler.     *)
PacketTx(p, a, d) ==
    IF ~a.fast /\ d.inOrder THEN WindowSet(a.tx, p) ELSE a.tx

PacketRx(r, a, d) == IF a.fast THEN r ELSE d.rx

Outcome(r, p, a, d, tx2, rx2) ==
    [tx  |-> tx2,
     rx  |-> rx2,
     len |-> IF a.fast THEN 0 ELSE d.len,
     off |-> d.off,
     at  |-> d.at,
     ack |-> IF ~a.fast /\ (p.len > 0 \/ ~d.inOrder \/ d.fin)
             THEN {flow_tx_ack(tx2.seq, rx2.seq, rx2.avail)} ELSE {},
     arx |-> [rx_bump |-> r.avail - rx2.avail, rx_pos |-> r.pos,
              tx_bump |-> a.bump, fin |-> ~a.fast /\ d.fin]]

Combined(r, p, a, d) ==
    Outcome(r, p, a, d, PacketTx(p, a, d), PacketRx(r, a, d))

PacketResult(t, r, p) == Combined(r, p, AckResult(t, p), PayloadResult(r, p))

-----------------------------------------------------------------------------
(* fast_flows_bump: the application has freed b.rx bytes, added b.tx and,  *)
(* with b.done, closed its stream.                                         *)
\* The bump with number s comes after a later one, cur.
StaleBump(cur, s) ==
    \/ s >= cur /\ s - cur > (BSEQ - 1) \div 2
    \/ s < cur /\ (cur < ((BSEQ - 1) \div 4) * 3 \/ s > (BSEQ - 1) \div 4)

BumpTx(t, b) == IF t.fin THEN 0 ELSE b.tx

\* Mutant: the bytes in flight are forgotten when a bump is validated.
BumpValid_forgetsSent(t, r, b) ==
    /\ ~(b.done /\ ~t.fin /\ b.tx = 0)
    /\ t.avail + BumpTx(t, b) <= TX_LEN
    /\ b.rx <= RX_LEN /\ b.rx + r.avail <= TX_LEN

BumpValid(t, r, b) ==
    /\ ~(b.done /\ ~t.fin /\ b.tx = 0)
    /\ BumpTx(t, b) <= TX_LEN
    /\ t.avail + BumpTx(t, b) + t.sent <= TX_LEN
    /\ b.rx <= RX_LEN /\ b.rx + r.avail <= TX_LEN

BumpedTx(t, b) ==
    [t EXCEPT !.avail = t.avail + BumpTx(t, b), !.fin = t.fin \/ b.done]

BumpedRx(r, b) == [r EXCEPT !.avail = r.avail + b.rx]

\* The receive buffer was full and no longer is, and no segment will say so.
WindowUpdate(t, r, b) ==
    /\ TxAvail(BumpedTx(t, b)) = 0
    /\ r.avail = 0 /\ BumpedRx(r, b).avail # 0
=============================================================================
