------------------------------ MODULE TcpCommon ------------------------------
(***************************************************************************)
(* The sequence-number arithmetic of the TAS fast path (tcp_common.h), on  *)
(* unsigned words: uint32_t is 0 .. SEQ - 1 and uint16_t 0 .. TRIM - 1,    *)
(* with both moduli scaled down by the models.                             *)
(***************************************************************************)
EXTENDS Integers

CONSTANTS
    SEQ,            \* 2^32
    TRIM            \* 2^16, the type of the trim results

ASSUME TcpCommonAssumption ==
    /\ SEQ \in Nat \ {0}
    /\ TRIM \in Nat \ {0}
    /\ TRIM <= SEQ

Word == 0 .. SEQ - 1

\* Unsigned 32-bit addition and subtraction of words.
Add32(a, b) == IF a + b < SEQ THEN a + b ELSE a + b - SEQ
Sub32(a, b) == IF a >= b THEN a - b ELSE a - b + SEQ

\* The conversion of a word to uint16_t.
U16(x) == IF x < TRIM THEN x ELSE x % TRIM

MinOf(a, b) == IF a <= b THEN a ELSE b

Dropped == [ok |-> FALSE, start |-> 0, end |-> 0]
Trimmed(s, e) == [ok |-> TRUE, start |-> U16(s), end |-> U16(e)]

-----------------------------------------------------------------------------
\* Mutant: the end of the buffer is compared as if it never wrapped.
tcp_trim_rxbuf_nowrap(rx_next_seq, rx_avail, pkt_seq, pkt_bytes) ==
    LET pa == pkt_seq      pb == Add32(pkt_seq, pkt_bytes)
        sa == rx_next_seq  sb == Add32(rx_next_seq, rx_avail)
    IN  IF pb < sa \/ pa > sb
        THEN Dropped
        ELSE Trimmed(IF pa < sa THEN Sub32(sa, pa) ELSE 0,
                     IF pb > sb THEN Sub32(pb, sb) ELSE 0)

(* The part of a packet that fits the unused receive buffer, in order or   *)
(* not.  One branch for each of the four ways the two intervals can wrap.  *)
tcp_trim_rxbuf(rx_next_seq, rx_avail, pkt_seq, pkt_bytes) ==
    LET pa == pkt_seq      pb == Add32(pkt_seq, pkt_bytes)
        sa == rx_next_seq  sb == Add32(rx_next_seq, rx_avail)
        Cut(startTest, endTest) ==
            Trimmed(IF startTest THEN Sub32(sa, pa) ELSE 0,
                    IF endTest THEN Sub32(pb, sb) ELSE 0)
    IN  IF pa <= pb /\ sa <= sb
        THEN IF pb < sa \/ pa > sb
             THEN Dropped ELSE Cut(pa < sa, pb > sb)
        ELSE IF pa <= pb
        THEN IF pa > sb /\ pb < sa
             THEN Dropped
             ELSE Cut(pa > sb /\ pa < sa, pb >= sb /\ pb < sa)
        ELSE IF sa <= sb
        THEN IF pa > sb /\ pb < sa
             THEN Dropped
             ELSE Cut(sa <= pb \/ sa > pa, pb > sb \/ sa >= pa)
        ELSE Cut(pa < sa, pb > sb)

\* Mutant: an acknowledgement below the window is taken for a future one.
tcp_valid_rxack_nolow(tx_next_seq, tx_sent, tx_avail, ack) ==
    LET a == Sub32(tx_next_seq, tx_sent)
        b == Add32(tx_next_seq, tx_avail)
    IN  [ok   |-> IF a <= b THEN ack <= b ELSE a <= ack \/ ack <= b,
         bump |-> Sub32(ack, a)]

(* Is an acknowledgement inside [first unacknowledged, end of the send     *)
(* buffer] (ALLOW_FUTURE_ACKS is defined), and how far does it move?       *)
tcp_valid_rxack(tx_next_seq, tx_sent, tx_avail, ack) ==
    LET a == Sub32(tx_next_seq, tx_sent)
        b == Add32(tx_next_seq, tx_avail)
    IN  [ok   |-> IF a <= b THEN a <= ack /\ ack <= b ELSE a <= ack \/ ack <= b,
         bump |-> Sub32(ack, a)]

\* Bytes that may be sent: the unsent bytes, cut to the flow control window.
\* The subtraction is unsigned: it wraps when the window is below tx_sent.
tcp_txavail(buf_avail, window, tx_sent) ==
    MinOf(buf_avail, Sub32(window, tx_sent))
=============================================================================
