------------------------------ MODULE MtcpRing ------------------------------
(***************************************************************************)
(* The receive buffer of one mTCP stream (tcp_ring_buffer.c): bytes are    *)
(* put at the place their sequence number gives them, a list of fragments  *)
(* remembers which of them are there, and the data is moved to the front   *)
(* of the chunk when it would run over its end.  The stack thread puts     *)
(* segments (ProcessTCPPayload), in any order and more than once, the      *)
(* application thread removes what is merged (CopyToUser).  A byte of the  *)
(* stream is its position, a sequence number is a position modulo SEQS.    *)
(***************************************************************************)
EXTENDS Integers, Sequences, FiniteSets

CONSTANTS
    SEQS,           \* number of sequence numbers, 2^32 in the code
    RB_SIZE,        \* rbm->chunk_size
    IRS,            \* sequence number of the first byte
    TCP_INITIAL_WINDOW,
    MaxPos,         \* bound: bytes of the stream
    MaxLen          \* bound: bytes of a segment

ASSUME MtcpRingAssumption ==
    /\ SEQS \in Nat /\ RB_SIZE \in Nat \ {0} /\ SEQS > 2 * (RB_SIZE + MaxPos)
    /\ IRS \in 0..(SEQS - 1)

VARIABLES
    buff,           \* struct tcp_ring_buffer
    rcv_nxt, rcv_wnd,
    fin_wait,       \* the application has closed: FIN_WAIT_1 or FIN_WAIT_2
    seg,            \* the segment the stack thread holds: from, to; or none
    got, read       \* the bytes the buffer should have had, and those read

ringVars == <<buff, rcv_nxt, rcv_wnd, fin_wait, seg, got, read>>

None == [from |-> 0, to |-> 0]

Seq32(pos) == (IRS + pos) % SEQS

RingInit ==
    /\ buff = [data |-> [i \in 0..(RB_SIZE - 1) |-> -1], head_offset |-> 0,
               tail_offset |-> 0, merged_len |-> 0, last_len |-> 0,
               head_seq |-> IRS, fctx |-> <<>>]
    /\ rcv_nxt = IRS /\ rcv_wnd = TCP_INITIAL_WINDOW
    /\ fin_wait = FALSE /\ seg = None
    /\ got = {} /\ read = 0

-----------------------------------------------------------------------------
MAXSEQ == SEQS - 1

TCP_SEQ_LT(a, b) == (a - b) % SEQS >= SEQS \div 2
TCP_SEQ_GT(a, b) == a # b /\ ~TCP_SEQ_LT(a, b)

GetMinSeq(a, b) ==
    IF a < b THEN IF b - a <= MAXSEQ \div 2 THEN a ELSE b
             ELSE IF a - b <= MAXSEQ \div 2 THEN b ELSE a

GetMaxSeq(a, b) ==
    IF a < b THEN IF b - a <= MAXSEQ \div 2 THEN b ELSE a
             ELSE IF a - b <= MAXSEQ \div 2 THEN a ELSE b

EndOf(f) == (f.seq + f.len) % SEQS

CanMerge(a, b) ==
    LET a_end == (EndOf(a) + 1) % SEQS
        b_end == (EndOf(b) + 1) % SEQS
    IN  ~(GetMinSeq(a_end, b.seq) = a_end \/ GetMinSeq(b_end, a.seq) = b_end)

MergeFragments(a, b) ==
    LET min_seq == GetMinSeq(a.seq, b.seq)
        max_seq == GetMaxSeq(EndOf(a), EndOf(b))
    IN  [seq |-> min_seq, len |-> (max_seq - min_seq) % SEQS]

\* A fragment takes in the fragments after it as long as they merge.
RECURSIVE MergeOn(_, _)
MergeOn(f, rest) ==
    IF rest # <<>> /\ CanMerge(f, Head(rest))
    THEN MergeOn(MergeFragments(f, Head(rest)), Tail(rest))
    ELSE <<f>> \o rest

\* Where the traversal stops: the first fragment the new one merges with or
\* lies before.
StopAt(new, fctx) ==
    CHOOSE k \in 1..(Len(fctx) + 1) :
        /\ k <= Len(fctx) => \/ CanMerge(new, fctx[k])
                             \/ GetMaxSeq(EndOf(new), fctx[k].seq) = fctx[k].seq
        /\ \A j \in 1..(k - 1) :
               /\ ~CanMerge(new, fctx[j])
               /\ GetMaxSeq(EndOf(new), fctx[j].seq) # fctx[j].seq

Insert(new, fctx) ==
    LET k      == StopAt(new, fctx)
        before == SubSeq(fctx, 1, k - 1)
        after  == SubSeq(fctx, k, Len(fctx))
    IN  IF after # <<>> /\ CanMerge(new, Head(after)) THEN before \o MergeOn(new, after)
        ELSE IF fctx # <<>> /\ GetMinSeq(new.seq, Head(fctx).seq) = new.seq
        THEN <<new>> \o fctx
        ELSE before \o <<new>> \o after

-----------------------------------------------------------------------------
\* Mutant: the data is moved without the bytes behind the first gap.
ToFront_merged(b) ==
    [b EXCEPT !.data = [i \in DOMAIN b.data |->
                           IF i < b.merged_len THEN b.data[b.head_offset + i] ELSE b.data[i]],
              !.tail_offset = @ - b.head_offset, !.head_offset = 0]

ToFront(b) ==
    [b EXCEPT !.data = [i \in DOMAIN b.data |->
                           IF i < b.last_len THEN b.data[b.head_offset + i] ELSE b.data[i]],
              !.tail_offset = @ - b.head_offset, !.head_offset = 0]

\* Bytes from..to-1 are copied to their place, and the length of what is
\* merged follows the first fragment if that starts at the head.
PutAt(b, putx, from, to) ==
    LET at   == b.head_offset + putx
        end  == at + (to - from)
        tail == IF b.tail_offset < end THEN end ELSE b.tail_offset
        fctx == Insert([seq |-> Seq32(from), len |-> to - from], b.fctx)
    IN  [b EXCEPT
            !.data = [i \in DOMAIN b.data |->
                         IF i \in at..(end - 1) THEN from + (i - at) ELSE b.data[i]],
            !.tail_offset = tail,
            !.last_len = tail - b.head_offset,
            !.fctx = fctx,
            !.merged_len = IF Head(fctx).seq = b.head_seq THEN Head(fctx).len ELSE @]

RBPut(b, from, to) ==
    LET putx    == (Seq32(from) - b.head_seq) % SEQS
        end_off == putx + (to - from)
    IN  IF GetMinSeq(b.head_seq, Seq32(from)) # b.head_seq \/ RB_SIZE < end_off
        THEN b
        ELSE PutAt(IF RB_SIZE <= b.head_offset + end_off THEN ToFront(b) ELSE b,
                   putx, from, to)

RBRemove(b, len) ==
    IF len = 0 THEN b
    ELSE [b EXCEPT
             !.head_offset = @ + len,
             !.head_seq = (@ + len) % SEQS,
             !.merged_len = @ - len,
             !.last_len = @ - len,
             !.fctx = IF len = Head(@).len THEN Tail(@)
                      ELSE [@ EXCEPT ![1] = [seq |-> (@.seq + len) % SEQS,
                                             len |-> @.len - len]]]

-----------------------------------------------------------------------------
\* ProcessTCPPayload.  The sequence numbers are looked at before read_lock is
\* taken.
payload_checked(from, to) ==
    /\ seg = None
    /\ ~TCP_SEQ_LT(Seq32(to), rcv_nxt)
    /\ ~TCP_SEQ_GT(Seq32(to), (rcv_nxt + rcv_wnd) % SEQS)
    /\ seg' = [from |-> from, to |-> to]
    /\ UNCHANGED <<buff, rcv_nxt, rcv_wnd, fin_wait, got, read>>

\* What of a segment has a place in the buffer, by positions alone.
Fits(from, to) == read <= from /\ to <= read + RB_SIZE

ProcessTCPPayload ==
    LET put  == RBPut(buff, seg.from, seg.to)
        kept == IF fin_wait THEN RBRemove(put, put.merged_len) ELSE put
    IN  /\ seg # None
        /\ buff' = kept
        /\ rcv_nxt' = (kept.head_seq + kept.merged_len) % SEQS
        /\ rcv_wnd' = RB_SIZE - kept.merged_len
        /\ got' = IF Fits(seg.from, seg.to) THEN got \cup seg.from..(seg.to - 1) ELSE got
        /\ read' = IF fin_wait THEN read + put.merged_len ELSE read
        /\ seg' = None
        /\ UNCHANGED fin_wait

\* CopyToUser, under read_lock.
CopyToUser(len) ==
    /\ ~fin_wait
    /\ len \in 1..buff.merged_len
    /\ buff' = RBRemove(buff, len)
    /\ rcv_wnd' = RB_SIZE - buff'.merged_len
    /\ read' = read + len
    /\ UNCHANGED <<rcv_nxt, fin_wait, seg, got>>

\* CloseStreamSocket as far as the receive side is concerned: the state is
\* changed by the stack thread when the FIN goes out.
to_fin_wait ==
    /\ seg = None /\ ~fin_wait
    /\ fin_wait' = TRUE
    /\ UNCHANGED <<buff, rcv_nxt, rcv_wnd, seg, got, read>>

RingNext ==
    \/ \E from \in 0..(MaxPos - 1), len \in 1..MaxLen :
           from + len <= MaxPos /\ payload_checked(from, from + len)
    \/ ProcessTCPPayload
    \/ \E len \in 1..RB_SIZE : CopyToUser(len)
    \/ to_fin_wait

RingSpec == RingInit /\ [][RingNext]_ringVars

-----------------------------------------------------------------------------
\* The positions a fragment stands for.
PosOf(f) ==
    LET at == read + ((f.seq - buff.head_seq) % SEQS) IN at..(at + f.len - 1)

\* The first byte that has not arrived.
NextPos == CHOOSE p \in 0..MaxPos : p \notin got /\ \A q \in 0..(p - 1) : q \in got

(* The receive buffer is exact, whatever segments arrive in whatever       *)
(* order, overlapping, repeated or beyond the window, and however they     *)
(* alternate with reads: the fragments are the bytes that have arrived and *)
(* not been read, in order and merged as far as possible, each byte is in  *)
(* its place inside the chunk after all moves to the front, and rcv_nxt    *)
(* and merged_len are up to the first byte that is missing.                *)
RingExact ==
    /\ UNION {PosOf(buff.fctx[i]) : i \in DOMAIN buff.fctx} = {p \in got : p >= read}
    /\ \A i \in 1..(Len(buff.fctx) - 1) :
           \A p \in PosOf(buff.fctx[i]), q \in PosOf(buff.fctx[i + 1]) : p + 1 < q
    /\ \A p \in got : p >= read =>
           /\ buff.head_offset + (p - read) \in DOMAIN buff.data
           /\ buff.data[buff.head_offset + (p - read)] = p
    /\ rcv_nxt = Seq32(NextPos)
    /\ buff.merged_len = NextPos - read
=============================================================================
