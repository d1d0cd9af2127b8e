---------------------------- MODULE MCFlowState ----------------------------
(***************************************************************************)
(* FlowState for TLC, with the arithmetic of TcpCommon compared with a     *)
(* count of bytes for every segment that may arrive in a state.  A         *)
(* behaviour varies what concerns one direction of the flow: on the side   *)
(* of "tx" acknowledgements, windows, flags and the amounts written, on    *)
(* the side of "rx" sequence numbers, lengths, FINs and the amounts read.  *)
(***************************************************************************)
EXTENDS FlowState

CONSTANTS
    MaxMult,        \* bound on the window scale after carries
    MaxQavail       \* bound on what the queue manager has been granted

Bounded == tx.wmult <= MaxMult /\ qavail <= MaxQavail

VARIABLE side

Ahead == RX_LEN + 1

\* The Packets and AppBumps that differ on one side.
SidePackets ==
    [seq : {Add32(rx.seq, d) : d \in IF side = "rx" THEN SeqOffsets ELSE {0, Ahead}},
     ack : {Add32(Sub32(tx.seq, tx.sent), d) : d \in IF side = "tx" THEN AckOffsets ELSE {0}},
     len : IF side = "rx" THEN Lens ELSE {0},
     wnd : IF side = "tx" THEN 0 .. WND16 - 1 ELSE {0},
     isack : BOOLEAN, fin : IF side = "rx" THEN Fins ELSE {FALSE}]

SideBumps ==
    {b \in AppBumps : IF side = "tx" THEN b.seq = 0 /\ b.rx = 0 /\ ~b.done ELSE b.tx = 0}

SideInit == Init /\ side \in {"tx", "rx"}

SideNext ==
    /\ UNCHANGED side
    /\ \/ fast_flows_qman
       \/ \E p \in SidePackets : fast_flows_packet(p)
       \/ side = "tx" /\ \E flag \in Flags : Slowpath(flag)
       \/ \E b \in SideBumps : fast_flows_bump(b)
       \/ fast_flows_retransmit

SideSpec == SideInit /\ [][SideNext]_<<vars, side>>

\* The bytes of a segment that lie in the unused receive buffer, one by one.
Usable(p) == {i \in 0 .. p.len - 1 : Sub32(Add32(p.seq, i), rx.seq) < rx.avail}

\* The bytes that a trim result keeps of it.
Kept(t, p) == t.start .. p.len - t.end - 1

\* A segment that wraps while the buffer does not.
OnlyPacketWraps(p) ==
    /\ Add32(p.seq, p.len) < p.seq
    /\ Add32(rx.seq, rx.avail) >= rx.seq

(* tcp_trim_rxbuf, used for every segment of fast_flows_packet: the bytes  *)
(* it keeps are exactly the ones that fit the unused receive buffer, and a *)
(* dropped segment has none, in the three combinations of wrap-arounds     *)
(* other than "packet interval split, receive buffer not split".           *)
TrimExact ==
    \A p \in SidePackets : OnlyPacketWraps(p) \/
        LET t == tcp_trim_rxbuf(rx.seq, rx.avail, p.seq, p.len)
        IN  IF t.ok THEN Kept(t, p) = Usable(p) ELSE Usable(p) = {}

(* The same for the remaining combination: what is kept fits the unused    *)
(* part of the receive buffer, as the comment on tcp_trim_rxbuf says.      *)
TrimFits ==
    \A p \in SidePackets :
        LET t == tcp_trim_rxbuf(rx.seq, rx.avail, p.seq, p.len)
        IN  t.ok => Kept(t, p) \subseteq Usable(p)

(* tcp_valid_rxack: an acknowledgement is accepted exactly when it lies at *)
(* most tx_sent + tx_avail bytes above the first unacknowledged one, and   *)
(* then the bump is that distance, wherever the interval wraps.            *)
AckExact ==
    \A p \in SidePackets :
        LET r == tcp_valid_rxack(tx.seq, tx.sent, tx.avail, p.ack)
            d == Sub32(p.ack, Sub32(tx.seq, tx.sent))
        IN  /\ r.ok <=> d <= tx.sent + tx.avail
            /\ r.ok => r.bump = d

(* Sequence number arithmetic is exact for every segment: both of the      *)
(* above.                                                                  *)
SegmentExact == TrimExact /\ AckExact
=============================================================================
