-------------------------- MODULE FlowStateProofs --------------------------
(***************************************************************************)
(* For all sizes of buffers, windows and sequence numbers: the fields of a *)
(* flow stay in range, its transmit buffer is never over-committed and the *)
(* queue manager never forgets it (theorem FlowInvariant).                 *)
(***************************************************************************)
EXTENDS FlowState, TLAPS

\* Unsigned arithmetic stays within its width.
LEMMA WordArithmetic ==
    ASSUME NEW a \in Word, NEW b \in Word
    PROVE  /\ Add32(a, b) \in Word /\ Add32(a, b) \in Nat
           /\ Sub32(a, b) \in Word /\ Sub32(a, b) \in Nat
  BY TcpCommonAssumption DEF Word, Add32, Sub32

\* The fields of the transmit half, as words where they are used as such.
LEMMA TransmitFields ==
    ASSUME NEW t \in Transmit
    PROVE  /\ t.avail \in Nat /\ t.avail <= TX_LEN /\ t.avail \in Word
           /\ t.sent \in Nat /\ t.sent <= TX_LEN /\ t.sent \in Word
           /\ t.pos \in Nat /\ t.pos < TX_LEN /\ t.pos \in 0 .. TX_LEN - 1
           /\ t.seq \in Word /\ TX_LEN \in Nat
           /\ t.wnd \in Nat /\ t.wnd < WND24 /\ t.wmult \in Nat
           /\ t.dupack \in 0 .. 2 /\ t.fin \in BOOLEAN
  BY FlowOpsAssumption, TcpCommonAssumption DEF Transmit, Word

\* A product of naturals is a natural, and reduces to a word.
LEMMA WindowType ==
    ASSUME NEW t \in Transmit
    PROVE  Window(t) \in Word
<1> DEFINE x == t.wnd * t.wmult
<1>1. t.wnd \in Nat /\ t.wmult \in Nat
  BY FlowOpsAssumption DEF Transmit
<1>2. x \in Nat
  BY <1>1
<1> HIDE DEF x
<1>3. x % SEQ \in 0 .. SEQ - 1
  BY <1>2, TcpCommonAssumption
<1> QED
  BY <1>3 DEF x, Window, Word

\* What may be sent is at most what is in the buffer.
LEMMA TxAvailType ==
    ASSUME NEW t \in Transmit
    PROVE  TxAvail(t) \in 0 .. t.avail
<1>1. Window(t) \in Word
  BY WindowType
<1>2. t.sent \in Word /\ t.avail \in Nat
  BY FlowOpsAssumption, TcpCommonAssumption DEF Transmit, Word
<1>3. Sub32(Window(t), t.sent) \in Word
  BY <1>1, <1>2, WordArithmetic
<1> QED
  BY <1>2, <1>3, TcpCommonAssumption DEF TxAvail, tcp_txavail, MinOf, Word

\* Moving back over everything in flight keeps the sum of both counts.
LEMMA ResetRetransmit ==
    ASSUME NEW t \in Transmit, t.avail + t.sent <= TX_LEN
    PROVE  /\ flow_reset_retransmit(t) \in Transmit
           /\ flow_reset_retransmit(t).avail + flow_reset_retransmit(t).sent <= TX_LEN
<1> DEFINE pos == IF t.pos >= t.sent THEN t.pos - t.sent
                                     ELSE TX_LEN - (t.sent - t.pos)
           carry == t.wnd + t.sent >= WND24
           wnd == IF carry THEN t.wnd + t.sent - WND24 ELSE t.wnd + t.sent
           wmult == IF carry THEN 2 * t.wmult ELSE t.wmult
           seq == Sub32(t.seq, t.sent)
           avail == t.avail + t.sent
<1>1. seq \in Word
  BY WordArithmetic, TransmitFields
<1>2. pos \in 0 .. TX_LEN - 1
  BY TransmitFields, FlowOpsAssumption
<1>3. wnd \in 0 .. WND24 - 1 /\ wmult \in Nat
  BY TransmitFields, FlowOpsAssumption
<1>4. avail \in 0 .. TX_LEN /\ 0 \in 0 .. TX_LEN /\ 0 \in 0 .. 2
  BY TransmitFields, FlowOpsAssumption
<1>5. flow_reset_retransmit(t) =
        [t EXCEPT !.dupack = 0, !.seq = seq, !.pos = pos, !.avail = avail,
                  !.wnd = wnd, !.wmult = wmult, !.sent = 0]
  BY DEF flow_reset_retransmit
<1> HIDE DEF pos, carry, wnd, wmult, seq, avail
<1>6. flow_reset_retransmit(t) \in Transmit
  <2>1. flow_reset_retransmit(t) =
          [avail |-> avail, sent |-> 0, pos |-> pos, seq |-> seq, wnd |-> wnd,
           wmult |-> wmult, dupack |-> 0, fin |-> t.fin]
    BY <1>5, Zenon DEF Transmit
  <2>2. t.fin \in BOOLEAN
    BY TransmitFields
  <2> QED
    BY <1>1, <1>2, <1>3, <1>4, <2>1, <2>2 DEF Transmit
<1>7. flow_reset_retransmit(t).avail = avail /\ flow_reset_retransmit(t).sent = 0
  BY <1>5 DEF Transmit
<1> QED
  BY <1>4, <1>6, <1>7, FlowOpsAssumption

\* A position advanced by no more than the buffer stays inside it.
LEMMA AdvanceType ==
    ASSUME NEW len \in Nat, NEW pos \in 0 .. len - 1, NEW n \in 0 .. len
    PROVE  Advance(pos, n, len) \in 0 .. len - 1
  BY DEF Advance

\* Sending a chunk moves bytes from "to be sent" to "in flight", and lowers
\* what may be sent by exactly its length.
LEMMA QmanSentStep ==
    ASSUME NEW t \in Transmit, t.avail + t.sent <= TX_LEN, TxAvail(t) # 0
    PROVE  /\ QmanSent(t) \in Transmit
           /\ QmanSent(t).avail + QmanSent(t).sent <= TX_LEN
           /\ TxAvail(QmanSent(t)) = TxAvail(t) - MinOf(TxAvail(t), TCP_MSS)
<1> DEFINE n == QmanLen(t)
           u == QmanSent(t)
<1>1. n \in 0 .. t.avail /\ n <= TxAvail(t) /\ n = MinOf(TxAvail(t), TCP_MSS)
  BY TxAvailType, TransmitFields, FlowOpsAssumption DEF QmanLen, MinOf
<1>2. n \in Nat /\ n \in Word /\ n \in 0 .. TX_LEN
  BY <1>1, TransmitFields, FlowOpsAssumption, TcpCommonAssumption DEF Word
<1> HIDE DEF n
<1>3. Add32(t.seq, n) \in Word
  BY <1>2, WordArithmetic, TransmitFields, Zenon
<1>10. Advance(t.pos, n, TX_LEN) \in 0 .. TX_LEN - 1
  BY <1>2, AdvanceType, TransmitFields
<1>4. t.sent + n \in 0 .. TX_LEN /\ t.avail - n \in 0 .. TX_LEN
  BY <1>1, <1>2, TransmitFields, FlowOpsAssumption
<1>5. u = [t EXCEPT !.seq = Add32(t.seq, n), !.pos = Advance(t.pos, n, TX_LEN),
                    !.sent = t.sent + n, !.avail = t.avail - n]
  BY DEF QmanSent, n
<1> HIDE DEF u
<1>6. u \in Transmit
  BY <1>3, <1>4, <1>5, <1>10, Zenon DEF Transmit
<1>7. /\ u.avail = t.avail - n /\ u.sent = t.sent + n
      /\ u.wnd = t.wnd /\ u.wmult = t.wmult
  BY <1>5 DEF Transmit
<1>8. Window(u) = Window(t) /\ Window(t) \in Word
  BY <1>7, WindowType DEF Window
<1>9. TxAvail(u) = TxAvail(t) - n
  <2>3. Sub32(Window(t), t.sent) \in Nat
    BY <1>8, TransmitFields, WordArithmetic
  <2>1. n <= Sub32(Window(t), t.sent)
    <3>1. TxAvail(t) = MinOf(t.avail, Sub32(Window(t), t.sent))
      BY DEF TxAvail, tcp_txavail
    <3> QED
      BY <3>1, <1>1, <1>2, <2>3, TransmitFields DEF MinOf
  <2>2. Sub32(Window(t), t.sent + n) = Sub32(Window(t), t.sent) - n
    BY <2>1, <1>2, <1>4, <1>8, TransmitFields, FlowOpsAssumption,
       TcpCommonAssumption DEF Sub32, Word
  <2>4. TxAvail(u) = MinOf(t.avail - n, Sub32(Window(t), t.sent) - n)
    BY <2>2, <1>7, <1>8 DEF TxAvail, tcp_txavail
  <2> QED
    BY <2>3, <2>4, <1>2, TransmitFields DEF TxAvail, tcp_txavail, MinOf
<1> QED
  BY <1>1, <1>2, <1>6, <1>7, <1>9, TransmitFields, FlowOpsAssumption DEF u, n

\* A valid acknowledgement covers at most what is in the transmit buffer.
LEMMA AckBound ==
    ASSUME NEW seq \in Word, NEW sent \in Nat, NEW avail \in Nat,
           NEW ack \in Word, sent + avail <= TX_LEN,
           tcp_valid_rxack(seq, sent, avail, ack).ok
    PROVE  tcp_valid_rxack(seq, sent, avail, ack).bump \in 0 .. sent + avail
<1> DEFINE a == Sub32(seq, sent)
           b == Add32(seq, avail)
<1>1. /\ tcp_valid_rxack(seq, sent, avail, ack).bump = Sub32(ack, a)
      /\ IF a <= b THEN a <= ack /\ ack <= b ELSE a <= ack \/ ack <= b
  BY Zenon DEF tcp_valid_rxack
<1>2. Sub32(ack, a) \in 0 .. sent + avail
  BY <1>1, FlowOpsAssumption, TcpCommonAssumption DEF Add32, Sub32, Word
<1> QED
  BY <1>1, <1>2

\* Acknowledging bytes of the transmit buffer, sent or not.
LEMMA AckedStep ==
    ASSUME NEW t \in Transmit, t.avail + t.sent <= TX_LEN,
           NEW n \in 0 .. t.sent + t.avail
    PROVE  /\ Acked(t, n) \in Transmit
           /\ Acked(t, n).avail + Acked(t, n).sent <= TX_LEN
<1>1. CASE n <= t.sent
  <2>1. t.sent - n \in 0 .. TX_LEN
    BY <1>1, TransmitFields, FlowOpsAssumption
  <2>2. Acked(t, n) = [t EXCEPT !.sent = t.sent - n]
    BY <1>1 DEF Acked
  <2>3. Acked(t, n) \in Transmit
    BY <2>1, <2>2 DEF Transmit
  <2>4. Acked(t, n).avail = t.avail /\ Acked(t, n).sent = t.sent - n
    BY <2>2 DEF Transmit
  <2> QED
    BY <2>3, <2>4, TransmitFields, FlowOpsAssumption
<1>2. CASE ~(n <= t.sent)
  <2> DEFINE d == n - t.sent
  <2>1. d \in 0 .. t.avail /\ d \in 0 .. TX_LEN /\ d \in Word
    BY <1>2, TransmitFields, FlowOpsAssumption, TcpCommonAssumption DEF Word
  <2> HIDE DEF d
  <2>2. Add32(t.seq, d) \in Word
    BY <2>1, WordArithmetic, TransmitFields, Zenon
  <2>7. Advance(t.pos, d, TX_LEN) \in 0 .. TX_LEN - 1
    BY <2>1, AdvanceType, TransmitFields
  <2>3. Acked(t, n) = [t EXCEPT !.seq = Add32(t.seq, d),
                                !.pos = Advance(t.pos, d, TX_LEN),
                                !.avail = t.avail - d, !.sent = 0]
    BY <1>2 DEF Acked, d
  <2>4. t.avail - d \in 0 .. TX_LEN /\ 0 \in 0 .. TX_LEN
    BY <2>1, TransmitFields, FlowOpsAssumption
  <2>5. Acked(t, n) \in Transmit
    BY <2>2, <2>3, <2>4, <2>7, ZenonT(60) DEF Transmit
  <2>6. Acked(t, n).avail = t.avail - d /\ Acked(t, n).sent = 0
    BY <2>3 DEF Transmit
  <2> QED
    BY <2>4, <2>5, <2>6, FlowOpsAssumption
<1> QED
  BY <1>1, <1>2

\* A segment the fast path receives, and the facts about its fields.
DeliveredSegment(p) ==
    /\ p.seq \in Word /\ p.ack \in Word /\ p.len \in Lens
    /\ p.wnd \in 0 .. WND16 - 1 /\ p.isack \in BOOLEAN /\ p.fin \in BOOLEAN

\* The acknowledgement half of fast_flows_packet.
LEMMA AckResultStep ==
    ASSUME NEW t \in Transmit, t.avail + t.sent <= TX_LEN,
           NEW p, DeliveredSegment(p)
    PROVE  /\ AckResult(t, p).tx \in Transmit
           /\ AckResult(t, p).tx.avail + AckResult(t, p).tx.sent <= TX_LEN
           /\ AckResult(t, p).bump \in Nat
           /\ AckResult(t, p).fast \in BOOLEAN
<1> DEFINE ack   == tcp_valid_rxack(t.seq, t.sent, t.avail, p.ack)
           valid == p.isack /\ ack.ok
           dup   == valid /\ ack.bump = 0 /\ p.len = 0
           fast  == dup /\ t.dupack + 1 >= 3
           u     == AckResult(t, p).tx
<1>1. /\ u = IF fast THEN flow_reset_retransmit(t)
             ELSE IF ~valid THEN t
             ELSE IF ack.bump # 0 THEN [Acked(t, ack.bump) EXCEPT !.dupack = 0]
             ELSE [t EXCEPT !.dupack = IF dup THEN t.dupack + 1 ELSE t.dupack]
      /\ AckResult(t, p).bump = IF valid THEN ack.bump ELSE 0
      /\ AckResult(t, p).fast = fast
  BY DEF AckResult
<1>2. ack.ok => ack.bump \in 0 .. t.sent + t.avail
  BY AckBound, TransmitFields DEF DeliveredSegment
<1> HIDE DEF ack, u
<1>3. CASE fast
  BY <1>1, <1>3, ResetRetransmit DEF u
<1>4. CASE ~fast /\ ~valid
  BY <1>1, <1>4 DEF u
<1>5. CASE ~fast /\ valid /\ ack.bump # 0
  <2>1. u = [Acked(t, ack.bump) EXCEPT !.dupack = 0]
    BY <1>1, <1>5
  <2>2. /\ Acked(t, ack.bump) \in Transmit
        /\ Acked(t, ack.bump).avail + Acked(t, ack.bump).sent <= TX_LEN
    BY <1>2, <1>5, AckedStep
  <2> QED
    BY <2>1, <2>2, <1>1, <1>2, <1>5 DEF Transmit, u
<1>6. CASE ~fast /\ valid /\ ack.bump = 0
  <2>1. u = [t EXCEPT !.dupack = IF dup THEN t.dupack + 1 ELSE t.dupack]
    BY <1>1, <1>6
  <2>2. (IF dup THEN t.dupack + 1 ELSE t.dupack) \in 0 .. 2
    BY <1>6, TransmitFields
  <2>3. u \in Transmit /\ u.avail = t.avail /\ u.sent = t.sent
    BY <2>1, <2>2 DEF Transmit
  <2> QED
    BY <2>3, <1>1, <1>2, <1>6 DEF u
<1>7. AckResult(t, p).bump \in Nat
  BY <1>1, <1>2, TransmitFields
<1>8. AckResult(t, p).fast \in BOOLEAN
  BY <1>1, Zenon
<1> QED
  BY <1>3, <1>4, <1>5, <1>6, <1>7, <1>8 DEF u

\* What tcp_trim_rxbuf guarantees: the slice it keeps starts in the unused
\* buffer, at the segment's own start if that is where it lies, and a slice
\* that starts with the next expected byte fits.
LEMMA Trim ==
    ASSUME NEW next \in Word, NEW avail \in 0 .. RX_LEN, NEW seq \in Word,
           NEW len \in Nat, len < TRIM,
           tcp_trim_rxbuf(next, avail, seq, len).ok
    PROVE  LET cut == tcp_trim_rxbuf(next, avail, seq, len)
               off == Sub32(Add32(seq, cut.start), next)
           IN  /\ cut.start \in Nat /\ cut.end \in Nat
               /\ cut.start + cut.end <= len
               /\ off <= avail
               /\ IF Sub32(seq, next) <= avail
                  THEN cut.start = 0
                  ELSE off = 0 /\ cut.start = Sub32(next, seq)
               /\ off = 0 => len - (cut.start + cut.end) <= avail
<1> DEFINE pa == seq      pb == Add32(seq, len)
           sa == next     sb == Add32(next, avail)
           cut == tcp_trim_rxbuf(next, avail, seq, len)
           S(st) == IF st THEN Sub32(sa, pa) ELSE 0
           E(et) == IF et THEN Sub32(pb, sb) ELSE 0
<1> USE TcpCommonAssumption, FlowOpsAssumption
<1>1. CASE pa <= pb /\ sa <= sb
  <2>1. /\ ~(pb < sa) /\ ~(pa > sb)
        /\ cut.start = U16(S(pa < sa)) /\ cut.end = U16(E(pb > sb))
    BY <1>1 DEF tcp_trim_rxbuf, Dropped, Trimmed
  <2>2. S(pa < sa) \in 0 .. len /\ E(pb > sb) \in 0 .. len
    BY <1>1, <2>1 DEF Add32, Sub32, Word
  <2>3. cut.start = S(pa < sa) /\ cut.end = E(pb > sb)
    BY <2>1, <2>2, SMTT(30) DEF U16
  <2> HIDE DEF cut
  <2> QED
    BY <1>1, <2>1, <2>2, <2>3, SMTT(30) DEF Add32, Sub32, Word, cut
<1>2. CASE pa <= pb /\ ~(sa <= sb)
  <2>1. /\ ~(pa > sb /\ pb < sa)
        /\ cut.start = U16(S(pa > sb /\ pa < sa)) /\ cut.end = U16(E(pb >= sb /\ pb < sa))
    BY <1>2 DEF tcp_trim_rxbuf, Dropped, Trimmed
  <2>2. S(pa > sb /\ pa < sa) \in 0 .. len /\ E(pb >= sb /\ pb < sa) \in 0 .. len
    BY <1>2, <2>1 DEF Add32, Sub32, Word
  <2>3. cut.start = S(pa > sb /\ pa < sa) /\ cut.end = E(pb >= sb /\ pb < sa)
    BY <2>1, <2>2, SMTT(30) DEF U16
  <2> HIDE DEF cut
  <2> QED
    BY <1>2, <2>1, <2>2, <2>3, SMTT(30) DEF Add32, Sub32, Word, cut
<1>3. CASE ~(pa <= pb) /\ sa <= sb
  <2>1. /\ ~(pa > sb /\ pb < sa)
        /\ cut.start = U16(S(sa <= pb \/ sa > pa)) /\ cut.end = U16(E(pb > sb \/ sa >= pa))
    BY <1>3, SMTT(30) DEF tcp_trim_rxbuf, Dropped, Trimmed
  <2>2. S(sa <= pb \/ sa > pa) \in 0 .. len /\ E(pb > sb \/ sa >= pa) \in 0 .. len
    BY <1>3, <2>1 DEF Add32, Sub32, Word
  <2>3. cut.start = S(sa <= pb \/ sa > pa) /\ cut.end = E(pb > sb \/ sa >= pa)
    BY <2>1, <2>2, SMTT(30) DEF U16
  <2> HIDE DEF cut
  <2> QED
    BY <1>3, <2>1, <2>2, <2>3, SMTT(30) DEF Add32, Sub32, Word, cut
<1>4. CASE ~(pa <= pb) /\ ~(sa <= sb)
  <2>1. cut.start = U16(S(pa < sa)) /\ cut.end = U16(E(pb > sb))
    BY <1>4 DEF tcp_trim_rxbuf, Dropped, Trimmed
  <2>2. S(pa < sa) \in 0 .. len /\ E(pb > sb) \in 0 .. len
    BY <1>4, <2>1 DEF Add32, Sub32, Word
  <2>3. cut.start = S(pa < sa) /\ cut.end = E(pb > sb)
    BY <2>1, <2>2 DEF U16
  <2> HIDE DEF cut
  <2> QED
    BY <1>4, <2>1, <2>2, <2>3, SMTT(30) DEF Add32, Sub32, Word, cut
<1> QED
  BY <1>1, <1>2, <1>3, <1>4, SMTT(30)

\* The fields of the receive half.
LEMMA ReceiveFields ==
    ASSUME NEW r \in Receive
    PROVE  /\ r.avail \in Nat /\ r.avail <= RX_LEN /\ r.avail \in Word
           /\ r.avail \in 0 .. RX_LEN /\ r.pos \in 0 .. RX_LEN - 1
           /\ r.seq \in Word /\ r.ooo_start \in Word /\ r.ooo_len \in Nat
           /\ r.fin \in BOOLEAN /\ RX_LEN \in Nat
  BY FlowOpsAssumption, TcpCommonAssumption DEF Receive, Word

\* OooInterval for a receive half, with the overshoot as a parameter.
OooWithin(r, over) ==
    r.ooo_len # 0 =>
        /\ Sub32(r.ooo_start, r.seq) <= r.avail
        /\ Sub32(r.ooo_start, r.seq) + r.ooo_len <= r.avail + over

\* Bytes in order that fit.
LEMMA ReceivedStep ==
    ASSUME NEW r \in Receive, NEW n \in 0 .. r.avail
    PROVE  /\ Received(r, n) \in Receive
           /\ Received(r, n).avail = r.avail - n
           /\ Received(r, n).seq = Add32(r.seq, n)
           /\ Received(r, n).ooo_start = r.ooo_start
           /\ Received(r, n).ooo_len = r.ooo_len
           /\ Received(r, n).fin = r.fin
<1>1. n \in Word /\ n \in 0 .. RX_LEN /\ n \in Nat
  BY ReceiveFields, FlowOpsAssumption, TcpCommonAssumption DEF Word
<1>2. Add32(r.seq, n) \in Word
  BY <1>1, WordArithmetic, ReceiveFields, Zenon
<1>3. Advance(r.pos, n, RX_LEN) \in 0 .. RX_LEN - 1
  BY <1>1, AdvanceType, ReceiveFields, Zenon
<1>4. r.avail - n \in 0 .. RX_LEN
  BY <1>1, ReceiveFields, SMTT(30)
<1> QED
  BY <1>2, <1>3, <1>4, Zenon DEF Received, Receive

\* Storing a slice out of order: n bytes at distance off, at most len long.
LEMMA OooStoredStep ==
    ASSUME NEW r \in Receive, NEW over \in Nat, OooWithin(r, over),
           NEW seq \in Word, NEW n \in Nat, NEW len \in Nat, n <= len,
           Sub32(seq, r.seq) <= r.avail,
           RX_LEN + over < TRIM, RX_LEN + len < TRIM
    PROVE  /\ OooStored(r, seq, n) \in Receive
           /\ OooWithin(OooStored(r, seq, n), over) \/ OooWithin(OooStored(r, seq, n), len)
           /\ OooStored(r, seq, n).fin = r.fin
           /\ OooStored(r, seq, n).seq = r.seq
           /\ OooStored(r, seq, n).pos = r.pos
<1> DEFINE o == Sub32(r.ooo_start, r.seq)
           d == Sub32(seq, r.seq)
<1>0. o \in Nat /\ d \in Nat
  BY WordArithmetic, ReceiveFields
<1>5. /\ r.seq \in Word /\ r.ooo_start \in Word /\ r.ooo_len \in Nat
      /\ r.avail \in Nat /\ r.avail <= RX_LEN
  BY ReceiveFields
<1>1. CASE ~OooKept(r, seq, n)
  BY <1>1 DEF OooStored
<1>2. CASE OooKept(r, seq, n) /\ r.ooo_len = 0
  <2> DEFINE m == r.ooo_len + n
  <2>1. OooStored(r, seq, n) = [r EXCEPT !.ooo_start = seq, !.ooo_len = m]
    BY <1>2 DEF OooStored
  <2>4. m = n
    BY <1>2, <1>5
  <2> HIDE DEF m
  <2>2. /\ OooStored(r, seq, n) \in Receive /\ OooStored(r, seq, n).fin = r.fin
        /\ OooStored(r, seq, n).ooo_start = seq /\ OooStored(r, seq, n).ooo_len = n
        /\ OooStored(r, seq, n).seq = r.seq /\ OooStored(r, seq, n).avail = r.avail
        /\ OooStored(r, seq, n).pos = r.pos
    BY <2>1, <2>4, Zenon DEF Receive
  <2>3. OooWithin(OooStored(r, seq, n), len)
    BY <1>0, <2>2, ReceiveFields DEF OooWithin
  <2> QED
    BY <2>2, <2>3
<1>3. CASE OooKept(r, seq, n) /\ r.ooo_len # 0 /\ Add32(seq, n) = r.ooo_start
  <2> DEFINE m == r.ooo_len + n
  <2>1. OooStored(r, seq, n) = [r EXCEPT !.ooo_start = seq, !.ooo_len = m]
    BY <1>3 DEF OooStored
  <2>5. m \in Nat
    BY <1>5
  <2> HIDE DEF m
  <2>2. /\ OooStored(r, seq, n) \in Receive /\ OooStored(r, seq, n).fin = r.fin
        /\ OooStored(r, seq, n).ooo_start = seq
        /\ OooStored(r, seq, n).ooo_len = m
        /\ OooStored(r, seq, n).seq = r.seq /\ OooStored(r, seq, n).avail = r.avail
        /\ OooStored(r, seq, n).pos = r.pos
    BY <2>1, <2>5, Zenon DEF Receive
  <2>3. o = d + n
    BY <1>3, <1>5, TcpCommonAssumption, FlowOpsAssumption
       DEF Add32, Sub32, Word
  <2>4. OooWithin(OooStored(r, seq, n), over)
    BY <1>0, <1>3, <1>5, <2>2, <2>3 DEF OooWithin, m
  <2> QED
    BY <2>2, <2>4
<1>4. CASE /\ OooKept(r, seq, n) /\ r.ooo_len # 0
           /\ Add32(seq, n) # r.ooo_start /\ Add32(r.ooo_start, r.ooo_len) = seq
  <2>1. OooStored(r, seq, n) = [r EXCEPT !.ooo_len = r.ooo_len + n]
    BY <1>4 DEF OooStored
  <2>2. /\ OooStored(r, seq, n) \in Receive /\ OooStored(r, seq, n).fin = r.fin
        /\ OooStored(r, seq, n).ooo_start = r.ooo_start
        /\ OooStored(r, seq, n).ooo_len = r.ooo_len + n
        /\ OooStored(r, seq, n).seq = r.seq /\ OooStored(r, seq, n).avail = r.avail
        /\ OooStored(r, seq, n).pos = r.pos
    BY <2>1 DEF Receive
  <2>3. o <= r.avail /\ o + r.ooo_len <= r.avail + over
    BY <1>4 DEF OooWithin
  <2>4. d = o + r.ooo_len
    BY <1>4, <1>5, <2>3, TcpCommonAssumption, FlowOpsAssumption
       DEF Add32, Sub32, Word
  <2>5. OooWithin(OooStored(r, seq, n), len)
    BY <1>0, <2>2, <2>3, <2>4, ReceiveFields DEF OooWithin
  <2> QED
    BY <2>2, <2>5
<1> QED
  BY <1>1, <1>2, <1>3, <1>4 DEF OooKept

\* Cutting the interval after an advance of n bytes, and joining it to the
\* stream if it has become contiguous.
LEMMA PayloadTakenStep ==
    ASSUME NEW r \in Receive, NEW over \in Nat, OooWithin(r, over),
           RX_LEN + over < TRIM, NEW n \in 0 .. r.avail
    PROVE  /\ PayloadTaken(r, n) \in Receive
           /\ OooWithin(PayloadTaken(r, n), over)
           /\ PayloadTaken(r, n).fin = r.fin
<1> DEFINE g == Received(r, n)
           cut == tcp_trim_rxbuf(g.seq, g.avail, g.ooo_start, U16(g.ooo_len))
           c == OooCut(g)
<1>0. /\ r.seq \in Word /\ r.ooo_start \in Word /\ r.ooo_len \in Nat
      /\ r.avail \in Nat /\ r.avail <= RX_LEN /\ r.fin \in BOOLEAN
      /\ n \in Nat /\ n <= r.avail
  BY ReceiveFields
<1>1. /\ g \in Receive /\ g.avail = r.avail - n /\ g.seq = Add32(r.seq, n)
      /\ g.ooo_start = r.ooo_start /\ g.ooo_len = r.ooo_len /\ g.fin = r.fin
  BY ReceivedStep
<1> HIDE DEF g
<1>2. CASE r.ooo_len = 0
  BY <1>1, <1>2 DEF PayloadTaken, OooWithin, g
<1>3. CASE r.ooo_len # 0
  <2> DEFINE o == Sub32(r.ooo_start, r.seq)
  <2>1. o <= r.avail /\ o + r.ooo_len <= r.avail + over /\ o \in Nat
    BY <1>0, <1>3, WordArithmetic DEF OooWithin
  <2>2. U16(g.ooo_len) = r.ooo_len /\ r.ooo_len < TRIM
    BY <1>0, <1>1, <2>1, FlowOpsAssumption, TcpCommonAssumption DEF U16
  <2>3. Sub32(g.ooo_start, g.seq) = IF o >= n THEN o - n ELSE o - n + SEQ
    BY <1>0, <1>1, <2>1, FlowOpsAssumption, TcpCommonAssumption
       DEF Add32, Sub32, Word
  <2>4. Sub32(g.seq, g.ooo_start) = IF o > n THEN n - o + SEQ ELSE n - o
    BY <1>0, <1>1, <2>1, FlowOpsAssumption, TcpCommonAssumption
       DEF Add32, Sub32, Word
  <2> HIDE DEF o
  <2>5. PayloadTaken(r, n) = CaughtUp(c)
    BY <1>3, SMTT(30) DEF PayloadTaken, g
  <2>6. /\ c \in Receive /\ c.fin = r.fin /\ OooWithin(c, over)
        /\ c.ooo_len # 0 /\ c.ooo_start = c.seq => c.ooo_len <= c.avail
    <3>1. CASE ~cut.ok
      <4>1. c = [g EXCEPT !.ooo_len = 0]
        BY <3>1 DEF OooCut
      <4> QED
        BY <4>1, <1>1 DEF Receive, OooWithin
    <3>2. CASE cut.ok
      <4> DEFINE st == Add32(g.ooo_start, cut.start)
                 m == g.ooo_len - (cut.start + cut.end)
      <4>1. c = [g EXCEPT !.ooo_start = st, !.ooo_len = m]
        BY <3>2 DEF OooCut
      <4>2. /\ g.seq \in Word /\ g.avail \in 0 .. RX_LEN /\ g.ooo_start \in Word
            /\ g.avail \in Nat
        BY <1>1, ReceiveFields, SMTT(30)
      <4>3. /\ cut.start \in Nat /\ cut.end \in Nat
            /\ cut.start + cut.end <= r.ooo_len
            /\ Sub32(st, g.seq) <= g.avail
            /\ IF Sub32(g.ooo_start, g.seq) <= g.avail THEN cut.start = 0
               ELSE Sub32(st, g.seq) = 0 /\ cut.start = Sub32(g.seq, g.ooo_start)
            /\ Sub32(st, g.seq) = 0 => r.ooo_len - (cut.start + cut.end) <= g.avail
        BY <1>0, <2>2, <3>2, <4>2, Trim, SMTT(30)
      <4>11. cut.start \in Word
        BY <1>0, <2>2, <4>3, TcpCommonAssumption DEF Word
      <4>4. st \in Word
        BY <4>2, <4>11, WordArithmetic, SMTT(30)
      <4>5. m \in Nat
        BY <1>0, <1>1, <4>3
      <4>6. Sub32(st, g.seq) \in Nat
        BY <4>2, <4>4, WordArithmetic
      <4>7. Sub32(st, g.seq) + m <= g.avail + over
        <5>1. CASE Sub32(g.ooo_start, g.seq) <= g.avail
          <6>1. cut.start = 0 /\ o >= n
            BY <5>1, <4>3, <2>1, <2>3, <1>0, <1>1, FlowOpsAssumption, TcpCommonAssumption
          <6>2. st = g.ooo_start
            BY <6>1, <4>2, TcpCommonAssumption, SMTT(30) DEF Add32, Word
          <6> QED
            BY <6>1, <6>2, <1>0, <1>1, <2>1, <2>3, <4>3, SMTT(30)
        <5>2. CASE ~(Sub32(g.ooo_start, g.seq) <= g.avail)
          <6>1. Sub32(st, g.seq) = 0 /\ cut.start = Sub32(g.seq, g.ooo_start)
            BY <5>2, <4>3
          <6> QED
            BY <6>1, <1>0, <1>1, <2>1, <2>3, <2>4, <4>3, <5>2, SMTT(30)
        <5> QED
          BY <5>1, <5>2, SMTT(30)
      <4>8. st = g.seq => Sub32(st, g.seq) = 0
        BY <4>2, TcpCommonAssumption DEF Sub32, Word
      <4> HIDE DEF st, m, cut, c
      <4>9. /\ c \in Receive /\ c.fin = r.fin /\ c.seq = g.seq /\ c.avail = g.avail
            /\ c.ooo_start = st /\ c.ooo_len = m
        BY <4>1, <4>4, <4>5, <1>1, Zenon DEF Receive
      <4>10. Sub32(st, g.seq) = 0 => m <= g.avail
        BY <4>3, <1>1 DEF m
      <4> QED
        BY <4>3, <4>6, <4>7, <4>8, <4>9, <4>10 DEF OooWithin
    <3> QED
      BY <3>1, <3>2
  <2> HIDE DEF c
  <2>7. CASE c.ooo_len # 0 /\ c.ooo_start = c.seq
    <3>1. c.ooo_len \in 0 .. c.avail
      BY <2>6, <2>7, ReceiveFields
    <3>2. Received(c, c.ooo_len) \in Receive /\ Received(c, c.ooo_len).fin = c.fin
      BY <2>6, <3>1, ReceivedStep
    <3>3. CaughtUp(c) = [Received(c, c.ooo_len) EXCEPT !.ooo_len = 0]
      BY <2>7 DEF CaughtUp
    <3> QED
      BY <2>5, <2>6, <3>2, <3>3 DEF Receive, OooWithin
  <2>8. CASE ~(c.ooo_len # 0 /\ c.ooo_start = c.seq)
    BY <2>5, <2>6, <2>8, SMTT(30) DEF CaughtUp
  <2> QED
    BY <2>7, <2>8
<1> QED
  BY <1>2, <1>3

\* The payload half of fast_flows_packet.
LEMMA PayloadResultStep ==
    ASSUME NEW r \in Receive, NEW p, DeliveredSegment(p),
           NEW over \in Lens, OooWithin(r, over)
    PROVE  /\ PayloadResult(r, p).rx \in Receive
           /\ \E n \in Lens : OooWithin(PayloadResult(r, p).rx, n)
           /\ PayloadResult(r, p).inOrder \in BOOLEAN
           /\ r.fin => /\ PayloadResult(r, p).rx.fin
                       /\ PayloadResult(r, p).rx.seq = r.seq
                       /\ PayloadResult(r, p).rx.pos = r.pos
<1> DEFINE cut     == tcp_trim_rxbuf(r.seq, r.avail, p.seq, p.len)
           seq     == Add32(p.seq, cut.start)
           n       == p.len - (cut.start + cut.end)
           inOrder == cut.ok /\ seq = r.seq
           taken   == inOrder /\ Accepts(r, n)
           got     == IF taken THEN PayloadTaken(r, n) ELSE r
           fin     == /\ inOrder /\ p.fin /\ ~r.fin
                      /\ got.seq = Add32(p.seq, p.len) /\ got.ooo_len = 0
           u       == PayloadResult(r, p).rx
<1>1. /\ u = IF cut.ok /\ ~inOrder THEN OooStored(r, seq, n)
             ELSE IF fin THEN [got EXCEPT !.fin = TRUE, !.seq = Add32(got.seq, 1)]
             ELSE got
      /\ PayloadResult(r, p).inOrder = inOrder
  BY DEF PayloadResult, FinInOrder
<1>2. /\ over \in Nat /\ RX_LEN + over < TRIM
      /\ p.len \in Lens /\ p.len \in Nat /\ RX_LEN + p.len < TRIM /\ p.len < TRIM
      /\ p.seq \in Word
  <2>1. p.len \in Lens /\ p.seq \in Word
    BY DEF DeliveredSegment
  <2>2. over \in Nat /\ p.len \in Nat /\ RX_LEN + over < TRIM /\ RX_LEN + p.len < TRIM
    BY <2>1, FlowStateAssumption, Zenon
  <2> QED
    BY <2>1, <2>2, FlowOpsAssumption, TcpCommonAssumption
<1>3. r.seq \in Word /\ r.avail \in 0 .. RX_LEN /\ r.avail \in Nat /\ r.fin \in BOOLEAN
  BY ReceiveFields, SMTT(30)
<1>4. cut.ok => /\ cut.start \in Nat /\ cut.end \in Nat
                /\ cut.start + cut.end <= p.len
                /\ Sub32(seq, r.seq) <= r.avail
                /\ Sub32(seq, r.seq) = 0 => n <= r.avail
  BY <1>2, <1>3, Trim
<1>5. cut.ok => n \in Nat /\ n <= p.len
  BY <1>2, <1>4
<1>6. cut.ok => seq \in Word
  <2>1. cut.ok => cut.start \in Word
    BY <1>2, <1>4, TcpCommonAssumption, SMTT(30) DEF Word
  <2> QED
    BY <1>2, <2>1, WordArithmetic
<1>7. inOrder => n <= r.avail
  <2>1. inOrder => Sub32(seq, r.seq) = 0
    BY <1>3, TcpCommonAssumption, SMTT(30) DEF Sub32, Word
  <2> QED
    BY <1>4, <2>1
<1> HIDE DEF cut, seq, n, u
<1>8. /\ got \in Receive /\ OooWithin(got, over) /\ got.fin = r.fin
      /\ r.fin => got = r
  <2>1. CASE taken
    <3>1. n \in 0 .. r.avail
      BY <1>5, <1>7, <2>1, <1>3 DEF Accepts
    <3> QED
      BY <1>2, <2>1, <3>1, PayloadTakenStep DEF Accepts
  <2>2. CASE ~taken
    BY <2>2
  <2> QED
    BY <2>1, <2>2
<1> HIDE DEF got
<1>12. PayloadResult(r, p).inOrder \in BOOLEAN
  BY <1>1, Zenon
<1>9. CASE cut.ok /\ ~inOrder
  <2>1. u = OooStored(r, seq, n)
    BY <1>1, <1>9, SMTT(30)
  <2>2. /\ u \in Receive
        /\ OooWithin(u, over) \/ OooWithin(u, p.len)
        /\ u.fin = r.fin /\ u.seq = r.seq /\ u.pos = r.pos
    BY <1>2, <1>4, <1>5, <1>6, <1>9, <2>1, OooStoredStep, SMTT(30)
  <2> QED
    BY <1>2, <1>12, <2>2 DEF u
<1>10. CASE ~(cut.ok /\ ~inOrder) /\ fin
  <2>1. u = [got EXCEPT !.fin = TRUE, !.seq = Add32(got.seq, 1)]
    BY <1>1, <1>10
  <2>2. Add32(got.seq, 1) \in Word
    <3>1. got.seq \in Word
      BY <1>8, ReceiveFields
    <3>2. 1 \in Word
      BY TcpCommonAssumption, FlowOpsAssumption DEF Word
    <3> QED
      BY <3>1, <3>2, WordArithmetic
  <2>4. got.ooo_len = 0
    BY <1>10
  <2>3. u \in Receive /\ u.ooo_len = 0 /\ u.fin
    BY <1>8, <2>1, <2>2, <2>4, Zenon DEF Receive
  <2> QED
    BY <1>10, <1>12, <2>3 DEF u, OooWithin
<1>11. CASE ~(cut.ok /\ ~inOrder) /\ ~fin
  BY <1>1, <1>8, <1>11, <1>12 DEF u
<1> QED
  BY <1>9, <1>10, <1>11, <1>12, SMTT(30) DEF u

\* qman_set with a growth keeps the queue above what may be sent.
LEMMA WakeStep ==
    ASSUME NEW q \in Nat, NEW old \in Nat, NEW new \in Nat, old <= q
    PROVE  Wake(q, old, new) \in Nat /\ new <= Wake(q, old, new)
  BY DEF Wake, Growth

-----------------------------------------------------------------------------
\* The inductive invariant: each part needs the others.  NoLostWakeup needs
\* the ranges of the fields, those of the receive half need OooInterval.
FlowInv == TypeOK /\ SendBuffer /\ NoLostWakeup /\ OooInterval

\* nicif_connection_add establishes it.
LEMMA FlowInit == Init => FlowInv
<1> SUFFICES ASSUME Init PROVE FlowInv
  OBVIOUS
<1> USE FlowOpsAssumption, TcpCommonAssumption, FlowStateAssumption
<1>1. tx \in Transmit
  BY DEF Init, Transmit
<1>2. rx \in Receive
  BY DEF Init, Receive, Word
<1>6. slow = FALSE /\ bump_seq = 0 /\ qavail = 0
  BY DEF Init
<1>7. slow \in BOOLEAN
  BY <1>6, Zenon
<1>8. bump_seq \in 0 .. BSEQ - 1 /\ qavail \in Nat
  BY <1>6
<1>3. TypeOK
  BY <1>1, <1>2, <1>7, <1>8 DEF TypeOK
<1>5. tx.avail = 0 /\ tx.sent = 0 /\ rx.ooo_len = 0 /\ qavail = 0
  BY DEF Init
<1>4. TxAvail(tx) \in 0 .. tx.avail
  BY <1>1, TxAvailType
<1> QED
  BY <1>3, <1>4, <1>5 DEF FlowInv, SendBuffer, NoLostWakeup, OooInterval

\* A granted chunk keeps it: the queue gives up no more than the flow sends.
LEMMA QmanKeeps == FlowInv /\ fast_flows_qman => FlowInv'
<1> SUFFICES ASSUME FlowInv, fast_flows_qman PROVE FlowInv'
  OBVIOUS
<1>1. /\ tx \in Transmit /\ tx.avail + tx.sent <= TX_LEN /\ qavail \in Nat
      /\ TxAvail(tx) <= qavail /\ TxAvail(tx) \in Nat
  BY TxAvailType, TransmitFields DEF FlowInv, TypeOK, SendBuffer, NoLostWakeup
<1>2. qavail' \in Nat /\ qavail' = qavail - MinOf(qavail, TCP_MSS)
  BY <1>1, FlowOpsAssumption DEF fast_flows_qman, MinOf
<1>3. /\ tx' \in Transmit /\ tx'.avail + tx'.sent <= TX_LEN
      /\ TxAvail(tx') = TxAvail(tx) - MinOf(TxAvail(tx), TCP_MSS)
  <2>1. CASE TxAvail(tx) = 0
    <3>1. tx' = tx
      BY <2>1 DEF fast_flows_qman
    <3>2. MinOf(TxAvail(tx), TCP_MSS) = 0
      BY <2>1, FlowOpsAssumption DEF MinOf
    <3> QED
      BY <1>1, <2>1, <3>1, <3>2
  <2>2. CASE TxAvail(tx) # 0
    <3>1. tx' = QmanSent(tx)
      BY <2>2 DEF fast_flows_qman
    <3> QED
      BY <1>1, <2>2, <3>1, QmanSentStep
  <2> QED
    BY <2>1, <2>2
<1>4. TxAvail(tx') <= qavail'
  BY <1>1, <1>2, <1>3, FlowOpsAssumption, SMTT(30) DEF MinOf
<1> QED
  BY <1>2, <1>3, <1>4
     DEF FlowInv, TypeOK, SendBuffer, NoLostWakeup, OooInterval, fast_flows_qman

\* A segment of the network keeps it.
LEMMA PacketKeeps ==
    ASSUME FlowInv, NEW p \in Packets, fast_flows_packet(p)
    PROVE  /\ FlowInv'
           /\ rx.fin => rx'.fin /\ rx'.seq = rx.seq /\ rx'.pos = rx.pos
<1> DEFINE a == AckResult(tx, p)
           d == PayloadResult(rx, p)
           tx2 == PacketTx(p, a, d)
           rx2 == PacketRx(rx, a, d)
<1>1. /\ tx \in Transmit /\ tx.avail + tx.sent <= TX_LEN /\ qavail \in Nat
      /\ TxAvail(tx) <= qavail /\ TxAvail(tx) \in Nat /\ rx \in Receive
  BY TxAvailType, TransmitFields DEF FlowInv, TypeOK, SendBuffer, NoLostWakeup
<1>2. DeliveredSegment(p)
  <2>1. \A e \in SeqOffsets : Add32(rx.seq, e) \in Word
    BY <1>1, ReceiveFields, WordArithmetic, FlowStateAssumption
  <2>2. \A e \in AckOffsets : Add32(Sub32(tx.seq, tx.sent), e) \in Word
    BY <1>1, TransmitFields, WordArithmetic, FlowStateAssumption
  <2> QED
    BY <2>1, <2>2, FlowStateAssumption DEF Packets, DeliveredSegment
<1>3. \E over \in Lens : OooWithin(rx, over)
  BY <1>2 DEF FlowInv, OooInterval, OooWithin, DeliveredSegment
<1>4. /\ tx' = tx2 /\ rx' = rx2
      /\ qavail' = Wake(qavail, TxAvail(tx), TxAvail(tx2))
      /\ slow' = slow /\ bump_seq' = bump_seq
  <2>1. PacketResult(tx, rx, p) = Outcome(rx, p, a, d, tx2, rx2)
    BY SMTT(30) DEF PacketResult, Combined
  <2> HIDE DEF a, d, tx2, rx2
  <2>2. PacketResult(tx, rx, p).tx = tx2 /\ PacketResult(tx, rx, p).rx = rx2
    BY <2>1, SMTT(30) DEF Outcome
  <2> QED
    BY <2>2 DEF fast_flows_packet
<1>5. a.tx \in Transmit /\ a.tx.avail + a.tx.sent <= TX_LEN
  BY <1>1, <1>2, AckResultStep
<1>6. /\ d.rx \in Receive /\ \E n \in Lens : OooWithin(d.rx, n)
      /\ rx.fin => d.rx.fin /\ d.rx.seq = rx.seq /\ d.rx.pos = rx.pos
  <2> PICK over \in Lens : OooWithin(rx, over)
    BY <1>3, SMTT(30)
  <2> QED
    BY <1>1, <1>2, PayloadResultStep
<1> HIDE DEF a, d
<1>7. tx2 \in Transmit /\ tx2.avail + tx2.sent <= TX_LEN
  <2>1. p.wnd \in 0 .. WND24 - 1
    BY <1>2, FlowOpsAssumption DEF DeliveredSegment
  <2>2. /\ WindowSet(a.tx, p) \in Transmit
        /\ WindowSet(a.tx, p).avail = a.tx.avail /\ WindowSet(a.tx, p).sent = a.tx.sent
    BY <1>5, <2>1 DEF WindowSet, Transmit
  <2> QED
    BY <1>5, <2>2 DEF PacketTx
<1>8. /\ rx2 \in Receive /\ \E n \in Lens : OooWithin(rx2, n)
      /\ rx.fin => rx2.fin /\ rx2.seq = rx.seq /\ rx2.pos = rx.pos
  BY <1>1, <1>3, <1>6 DEF PacketRx
<1> HIDE DEF tx2, rx2
<1>9. TxAvail(tx2) \in Nat
  BY <1>7, TxAvailType, TransmitFields
<1>10. qavail' \in Nat /\ TxAvail(tx') <= qavail'
  BY <1>1, <1>4, <1>9, WakeStep, SMTT(30)
<1>11. OooInterval'
  BY <1>4, <1>8 DEF OooInterval, OooWithin
<1>12. TypeOK'
  BY <1>4, <1>7, <1>8, <1>10, SMTT(30) DEF FlowInv, TypeOK
<1> QED
  BY <1>4, <1>7, <1>8, <1>10, <1>11, <1>12 DEF FlowInv, SendBuffer, NoLostWakeup

\* A bump of the application keeps it.
LEMMA BumpKeeps ==
    ASSUME FlowInv, NEW b \in AppBumps, fast_flows_bump(b)
    PROVE  /\ FlowInv'
           /\ rx.fin => rx'.fin /\ rx'.seq = rx.seq /\ rx'.pos = rx.pos
<1>1. /\ tx \in Transmit /\ tx.avail + tx.sent <= TX_LEN /\ qavail \in Nat
      /\ TxAvail(tx) <= qavail /\ TxAvail(tx) \in Nat /\ rx \in Receive
  BY TxAvailType, TransmitFields DEF FlowInv, TypeOK, SendBuffer, NoLostWakeup
<1>2. /\ b.seq \in 0 .. BSEQ - 1 /\ b.rx \in Nat /\ b.rx <= RX_LEN - rx.avail
      /\ b.tx \in Nat /\ b.done \in BOOLEAN
  BY FlowStateAssumption, Zenon DEF AppBumps
<1>3. bump_seq' \in 0 .. BSEQ - 1 /\ slow' \in BOOLEAN
  BY <1>2 DEF fast_flows_bump, FlowInv, TypeOK
<1>4. CASE ~StaleBump(bump_seq, b.seq) /\ BumpValid(tx, rx, b)
  <2> DEFINE n == BumpTx(tx, b)
  <2>1. /\ tx' = BumpedTx(tx, b) /\ rx' = BumpedRx(rx, b)
        /\ qavail' = Wake(qavail, TxAvail(tx), TxAvail(BumpedTx(tx, b)))
    BY <1>4 DEF fast_flows_bump
  <2>2. n \in Nat /\ tx.avail + n + tx.sent <= TX_LEN
    BY <1>2, <1>4 DEF BumpTx, BumpValid
  <2>3. tx.avail + n \in 0 .. TX_LEN
    BY <1>1, <2>2, TransmitFields
  <2>4. (tx.fin \/ b.done) \in BOOLEAN
    BY Zenon
  <2>5. BumpedTx(tx, b) = [tx EXCEPT !.avail = tx.avail + n, !.fin = tx.fin \/ b.done]
    BY DEF BumpedTx
  <2> HIDE DEF n
  <2> DEFINE m == tx.avail + n
             f == tx.fin \/ b.done
  <2>6. m \in 0 .. TX_LEN /\ f \in BOOLEAN /\ BumpedTx(tx, b) = [tx EXCEPT !.avail = m, !.fin = f]
    BY <2>3, <2>4, <2>5
  <2>7. m + tx.sent <= TX_LEN
    BY <1>1, <2>2, TransmitFields
  <2> HIDE DEF m, f
  <2>8. /\ BumpedTx(tx, b) \in Transmit
        /\ BumpedTx(tx, b).avail = m /\ BumpedTx(tx, b).sent = tx.sent
    BY <1>1, <2>6, Zenon DEF Transmit
  <2>9. TxAvail(BumpedTx(tx, b)) \in Nat
    BY <2>8, TxAvailType, TransmitFields
  <2>10. qavail' \in Nat /\ TxAvail(tx') <= qavail'
    BY <1>1, <2>1, <2>9, WakeStep
  <2>11. rx.avail + b.rx \in 0 .. RX_LEN
    BY <1>1, <1>2, ReceiveFields
  <2>12. /\ rx' \in Receive /\ rx'.avail = rx.avail + b.rx /\ rx'.seq = rx.seq
         /\ rx'.pos = rx.pos /\ rx'.fin = rx.fin
         /\ rx'.ooo_start = rx.ooo_start /\ rx'.ooo_len = rx.ooo_len
    BY <1>1, <2>1, <2>11 DEF BumpedRx, Receive
  <2>13. OooInterval'
    <3>1. CASE rx.ooo_len = 0
      BY <3>1, <2>12 DEF OooInterval
    <3>2. CASE rx.ooo_len # 0
      <4>1. Sub32(rx.ooo_start, rx.seq) \in Nat
        BY <1>1, ReceiveFields, WordArithmetic
      <4>2. PICK n0 \in Lens : Sub32(rx.ooo_start, rx.seq) + rx.ooo_len <= rx.avail + n0
        BY <3>2 DEF FlowInv, OooInterval
      <4>3. Sub32(rx.ooo_start, rx.seq) <= rx.avail
        BY <3>2 DEF FlowInv, OooInterval
      <4>4. /\ n0 \in Nat /\ rx.avail \in Nat /\ rx.ooo_len \in Nat
        BY <1>1, ReceiveFields, FlowStateAssumption
      <4>5. /\ Sub32(rx'.ooo_start, rx'.seq) <= rx'.avail
            /\ Sub32(rx'.ooo_start, rx'.seq) + rx'.ooo_len <= rx'.avail + n0
        BY <1>2, <2>12, <4>1, <4>2, <4>3, <4>4
      <4> QED
        BY <4>5 DEF OooInterval
    <3> QED
      BY <3>1, <3>2
  <2> QED
    BY <1>3, <2>1, <2>7, <2>8, <2>10, <2>12, <2>13
       DEF FlowInv, TypeOK, SendBuffer, NoLostWakeup
<1>5. CASE ~(~StaleBump(bump_seq, b.seq) /\ BumpValid(tx, rx, b))
  <2>1. UNCHANGED <<tx, rx, qavail>>
    BY <1>5 DEF fast_flows_bump
  <2> QED
    BY <1>3, <2>1 DEF FlowInv, TypeOK, SendBuffer, NoLostWakeup, OooInterval
<1> QED
  BY <1>4, <1>5

\* A retransmission ordered by the slow path keeps it.
LEMMA RetransmitKeeps == FlowInv /\ fast_flows_retransmit => FlowInv'
<1> SUFFICES ASSUME FlowInv, fast_flows_retransmit PROVE FlowInv'
  OBVIOUS
<1>1. /\ tx \in Transmit /\ tx.avail + tx.sent <= TX_LEN /\ qavail \in Nat
      /\ TxAvail(tx) <= qavail /\ TxAvail(tx) \in Nat
  BY TxAvailType, TransmitFields DEF FlowInv, TypeOK, SendBuffer, NoLostWakeup
<1>2. tx' \in Transmit /\ tx'.avail + tx'.sent <= TX_LEN
  BY <1>1, ResetRetransmit DEF fast_flows_retransmit
<1>3. TxAvail(tx') \in Nat
  BY <1>2, TxAvailType, TransmitFields
<1>4. qavail' \in Nat /\ TxAvail(tx') <= qavail'
  BY <1>1, <1>3, WakeStep, SMTT(30) DEF fast_flows_retransmit
<1> QED
  BY <1>2, <1>4 DEF FlowInv, TypeOK, SendBuffer, NoLostWakeup, OooInterval,
                    fast_flows_retransmit

\* Every step keeps it, and a finished receive stream stays finished.
LEMMA FlowNext ==
    ASSUME FlowInv, [Next]_vars
    PROVE  /\ FlowInv'
           /\ rx.fin => rx'.fin /\ rx'.seq = rx.seq /\ rx'.pos = rx.pos
<1>1. CASE fast_flows_qman
  BY <1>1, QmanKeeps DEF fast_flows_qman
<1>2. CASE \E p \in Packets : fast_flows_packet(p)
  BY <1>2, PacketKeeps
<1>3. CASE \E flag \in Flags : Slowpath(flag)
  BY <1>3 DEF Slowpath, FlowInv, TypeOK, SendBuffer, NoLostWakeup, OooInterval
<1>4. CASE \E b \in AppBumps : fast_flows_bump(b)
  BY <1>4, BumpKeeps
<1>5. CASE fast_flows_retransmit
  BY <1>5, RetransmitKeeps DEF fast_flows_retransmit
<1>6. CASE UNCHANGED vars
  BY <1>6 DEF vars, FlowInv, TypeOK, SendBuffer, NoLostWakeup, OooInterval
<1> QED
  BY <1>1, <1>2, <1>3, <1>4, <1>5, <1>6 DEF Next

(* For all buffer lengths, window sizes and sequence number widths, and    *)
(* whatever the network delivers: no field of a flow leaves its range.     *)
THEOREM FlowTypeOK == Spec => []TypeOK
<1>1. FlowInv /\ [Next]_vars => FlowInv'
  BY FlowNext
<1>2. FlowInv => TypeOK
  BY DEF FlowInv
<1> QED
  BY FlowInit, <1>1, <1>2, PTL DEF Spec

(* The transmit buffer of a flow is never over-committed.                  *)
THEOREM FlowSendBuffer == Spec => []SendBuffer
<1>1. FlowInv /\ [Next]_vars => FlowInv'
  BY FlowNext
<1>2. FlowInv => SendBuffer
  BY DEF FlowInv
<1> QED
  BY FlowInit, <1>1, <1>2, PTL DEF Spec

(* What flow control allows a flow to send is always covered by what the   *)
(* queue manager has been told.                                            *)
THEOREM FlowNoLostWakeup == Spec => []NoLostWakeup
<1>1. FlowInv /\ [Next]_vars => FlowInv'
  BY FlowNext
<1>2. FlowInv => NoLostWakeup
  BY DEF FlowInv
<1> QED
  BY FlowInit, <1>1, <1>2, PTL DEF Spec

(* The out of order interval overshoots the unused receive buffer by less  *)
(* than one segment.                                                       *)
THEOREM FlowOooInterval == Spec => []OooInterval
<1>1. FlowInv /\ [Next]_vars => FlowInv'
  BY FlowNext
<1>2. FlowInv => OooInterval
  BY DEF FlowInv
<1> QED
  BY FlowInit, <1>1, <1>2, PTL DEF Spec

(* After the peer's FIN neither the expected sequence number nor the       *)
(* position in the receive buffer moves again.                             *)
THEOREM FlowEndOfStream == Spec => EndOfStream
<1>1. FlowInv /\ [Next]_vars => FlowInv'
  BY FlowNext
<1>2. FlowInv /\ [Next]_vars
        => [rx.fin => rx'.fin /\ rx'.seq = rx.seq /\ rx'.pos = rx.pos]_vars
  BY FlowNext
<1> QED
  BY FlowInit, <1>1, <1>2, PTL DEF Spec, EndOfStream
=============================================================================
