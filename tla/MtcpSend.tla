------------------------------ MODULE MtcpSend ------------------------------
(***************************************************************************)
(* The send side of one mTCP stream: the application thread writes into    *)
(* the send buffer and asks for service through sendq and closeq, the      *)
(* stack thread runs its main loop (packets, timer, application calls,     *)
(* control list, send list).  The buffer has a lock; the flags on_sendq    *)
(* and on_send_list, by which the application decides whether the stream   *)
(* is already being served, are read and written without it, and the stack *)
(* clears on_send_list only after it has unlocked.                         *)
(*                                                                         *)
(* Sequence numbers are counted from the first byte of data and do not     *)
(* wrap.  The unit of data is a full segment.  The peer sends no data, so  *)
(* that nothing is ever on the ACK list, and offers no selective           *)
(* acknowledgements.  The active close is modelled, up to FIN_WAIT_2.      *)
(***************************************************************************)
EXTENDS Integers, FiniteSets

CONSTANTS
    SB_SIZE,        \* size of the send buffer (CONFIG.sndbuf_size)
    MaxData,        \* bound: what the application writes altogether
    MaxWrite,       \* bound: the length of a write
    Windows,        \* the values of MIN(cwnd, peer_wnd)
    MaxLoss,        \* bound: segments the network loses
    MaxOld,         \* bound: repeated and overtaken acknowledgements
    MaxNoBuf        \* bound: times the device has no transmit buffer left

ASSUME MtcpSendAssumption ==
    /\ SB_SIZE \in Nat \ {0} /\ MaxWrite \in 1 .. SB_SIZE /\ MaxData \in Nat
    /\ Windows \subseteq Nat \ {0} /\ Windows # {}

VARIABLES
    sbuf,           \* struct tcp_send_buffer
    snd,            \* snd_nxt, snd_una, fss, is_fin_sent, rcvvar's last_ack_seq, dup_acks
    lists,          \* the stream's place in queues and lists, and the flags
    state,          \* state of the stream
    spc,            \* where the stack thread is in its main loop
    apc,            \* where the application thread is
    peer,           \* what has arrived at the peer
    faults,         \* the faults that have happened
    missed          \* the application relied on a flag about to be cleared

sendVars == <<sbuf, snd, lists, state, spc, apc, peer, faults, missed>>

SendInit ==
    /\ sbuf = [head_seq |-> 0, len |-> 0, head_off |-> 0, tail_off |-> 0,
               data |-> [i \in 0 .. SB_SIZE - 1 |-> -1]]
    /\ snd = [nxt |-> 0, una |-> 0, fss |-> -1, fin_sent |-> FALSE,
              last_ack |-> 0, dup_acks |-> 0]
    \* HandleActiveOpen leaves the stream on the control list for its ACK.
    /\ \E active \in BOOLEAN :
           lists = [sendq |-> FALSE, on_sendq |-> FALSE, on_send_list |-> FALSE,
                    on_control_list |-> active, waiting |-> FALSE,
                    closeq |-> FALSE, closeq_int |-> FALSE, rto |-> FALSE]
    /\ state = "ESTABLISHED"
    /\ spc = "rx"
    /\ apc = "idle"
    /\ peer = [got |-> {}, fin |-> FALSE, wrong |-> FALSE]
    /\ faults = [lost |-> 0, old |-> 0, nobuf |-> 0]
    /\ missed = FALSE

Written == sbuf.head_seq + sbuf.len

-----------------------------------------------------------------------------
\* The send buffer.
SBPut(b, n) ==
    LET seq(i) == b.head_seq + b.len + i
        moved == [i \in 0 .. SB_SIZE - 1 |->
                     IF i < b.len THEN b.data[b.head_off + i] ELSE b.data[i]]
        put(d, off) == [i \in 0 .. SB_SIZE - 1 |->
                           IF i \in off .. off + n - 1 THEN seq(i - off) ELSE d[i]]
    IN  IF b.tail_off + n < SB_SIZE
        THEN [b EXCEPT !.data = put(b.data, b.tail_off), !.len = b.len + n,
                       !.tail_off = b.tail_off + n]
        ELSE [b EXCEPT !.data = put(moved, b.len), !.len = b.len + n,
                       !.head_off = 0, !.tail_off = b.len + n]

SBRemove(b, n) ==
    LET off == IF n = b.len THEN 0 ELSE b.head_off + n
    IN  [b EXCEPT !.head_seq = b.head_seq + n, !.len = b.len - n,
                  !.head_off = off,
                  !.tail_off = IF n = b.len THEN 0 ELSE b.tail_off]

-----------------------------------------------------------------------------
\* The application thread.  mtcp_write copies under the lock what fits.
mtcp_write(n) ==
    /\ apc = "idle" /\ state = "ESTABLISHED"
    /\ sbuf.len < SB_SIZE /\ Written + n <= MaxData
    /\ \E put \in {IF n <= SB_SIZE - sbuf.len THEN n ELSE SB_SIZE - sbuf.len} :
           sbuf' = SBPut(sbuf, put)
    /\ apc' = "on_sendq"
    /\ UNCHANGED <<snd, lists, state, spc, peer, faults, missed>>

test_on_sendq ==
    /\ apc = "on_sendq"
    /\ apc' = IF lists.on_sendq THEN "idle" ELSE "on_send_list"
    /\ UNCHANGED <<sbuf, snd, lists, state, spc, peer, faults, missed>>

test_on_send_list ==
    /\ apc = "on_send_list"
    /\ apc' = IF lists.on_send_list THEN "idle" ELSE "enqueue"
    /\ missed' = (missed \/ (lists.on_send_list /\ spc = "clear"))
    /\ UNCHANGED <<sbuf, snd, lists, state, spc, peer, faults>>

enqueue_sendq ==
    /\ apc = "enqueue"
    /\ lists' = [lists EXCEPT !.on_sendq = TRUE, !.sendq = TRUE]
    /\ apc' = "idle"
    /\ UNCHANGED <<sbuf, snd, state, spc, peer, faults, missed>>

CloseStreamSocket ==
    /\ apc = "idle"
    /\ lists' = [lists EXCEPT !.closeq = TRUE]
    /\ apc' = "closed"
    /\ UNCHANGED <<sbuf, snd, state, spc, peer, faults, missed>>

-----------------------------------------------------------------------------
\* What a peer may acknowledge: bytes it has all of, and the FIN after them.
Acks(p, a) ==
    \/ 0 .. a - 1 \subseteq p.got
    \/ p.fin /\ a = snd.fss + 1 /\ 0 .. snd.fss - 1 \subseteq p.got

AddtoSendList(l) == [l EXCEPT !.on_send_list = TRUE]

\* ProcessACK for an acknowledgement without data and with an unchanged window.
Duplicate(a) == a < snd.nxt /\ a = snd.last_ack

DupAcks(a) ==
    IF ~Duplicate(a) THEN 0 ELSE IF snd.dup_acks < 4 THEN snd.dup_acks + 1 ELSE 4

Fast(a) == DupAcks(a) = 3
Recovered(a) == a > snd.nxt
New(a) == a > sbuf.head_seq

NxtAfter(a) == IF Fast(a) \/ Recovered(a) THEN a ELSE snd.nxt

ProcessACK(a) ==
    [snd |-> [snd EXCEPT !.nxt = NxtAfter(a),
                         !.una = IF New(a) THEN a ELSE snd.una,
                         !.dup_acks = DupAcks(a),
                         !.last_ack = a],
     sbuf |-> IF New(a) THEN SBRemove(sbuf, a - sbuf.head_seq) ELSE sbuf,
     lists |-> [lists EXCEPT
                   !.on_send_list = \/ Fast(a)
                                    \/ IF Recovered(a) THEN sbuf.len # 0
                                                       ELSE lists.on_send_list,
                   !.rto = IF New(a) THEN NxtAfter(a) > a ELSE lists.rto]]

\* Handle_TCP_ST_ESTABLISHED and Handle_TCP_ST_FIN_WAIT_1: the acknowledgement
\* of the FIN counts for the byte before it, and then ends the sending side.
OfFin(a) == state # "ESTABLISHED" /\ snd.fin_sent /\ a = snd.fss + 1

HandleACK(a) ==
    LET r == ProcessACK(IF OfFin(a) THEN a - 1 ELSE a)
    IN  IF OfFin(a) /\ state = "FIN_WAIT_1"
        THEN /\ snd' = [r.snd EXCEPT !.una = a,
                                     !.nxt = IF a > r.snd.nxt THEN a ELSE r.snd.nxt]
             /\ sbuf' = r.sbuf
             /\ lists' = [r.lists EXCEPT !.rto = FALSE]
             /\ state' = "FIN_WAIT_2"
        ELSE /\ snd' = r.snd
             /\ sbuf' = r.sbuf
             /\ lists' = r.lists
             /\ UNCHANGED state

\* One packet of the receive loop: an acknowledgement on its way, the newest
\* ones or an old copy.
rx_new ==
    /\ spc = "rx"
    /\ \E a \in snd.una + 1 .. MaxData + 1 : Acks(peer, a) /\ HandleACK(a)
    /\ spc' = "timer"
    /\ UNCHANGED <<apc, peer, faults, missed>>

rx_old ==
    /\ spc = "rx" /\ faults.old < MaxOld
    /\ \E a \in 0 .. snd.una : HandleACK(a)
    /\ faults' = [faults EXCEPT !.old = @ + 1]
    /\ UNCHANGED <<spc, apc, peer, missed>>

rx_none ==
    /\ spc = "rx"
    /\ spc' = "timer"
    /\ UNCHANGED <<sbuf, snd, lists, state, apc, peer, faults, missed>>

-----------------------------------------------------------------------------
\* Mutant: the FIN is retransmitted, whatever else was not acknowledged.
HandleRTO_finOnly ==
    LET l == [lists EXCEPT !.rto = FALSE]
    IN  /\ snd' = [snd EXCEPT !.nxt = snd.una]
        /\ lists' = IF state = "ESTABLISHED" THEN AddtoSendList(l)
                    ELSE [l EXCEPT !.on_control_list = TRUE]
        /\ UNCHANGED missed

\* CheckRtmTimeout takes the stream off its list, HandleRTO goes back.
HandleRTO ==
    LET l == [lists EXCEPT !.rto = FALSE]
    IN  /\ snd' = [snd EXCEPT !.nxt = snd.una]
        /\ lists' =
               IF state = "ESTABLISHED" THEN AddtoSendList(l)
               ELSE IF snd.una < snd.fss
               THEN AddtoSendList([l EXCEPT !.on_control_list = FALSE,
                                            !.waiting = TRUE])
               ELSE [l EXCEPT !.on_control_list = TRUE]
        /\ missed' = (missed /\ ~lists'.on_send_list)

CheckRtmTimeout ==
    /\ spc = "timer" /\ lists.rto
    /\ HandleRTO
    /\ spc' = "sendq"
    /\ UNCHANGED <<sbuf, state, apc, peer, faults>>

no_timeout ==
    /\ spc = "timer"
    /\ spc' = "sendq"
    /\ UNCHANGED <<sbuf, snd, lists, state, apc, peer, faults, missed>>

-----------------------------------------------------------------------------
\* HandleApplicationCalls: sendq, then closeq, then the delayed closes.
dequeue_sendq ==
    /\ spc = "sendq"
    /\ spc' = IF lists.sendq THEN "flag" ELSE "closeq"
    /\ lists' = [lists EXCEPT !.sendq = FALSE]
    /\ UNCHANGED <<sbuf, snd, state, apc, peer, faults, missed>>

clear_on_sendq ==
    /\ spc = "flag"
    /\ spc' = "list"
    /\ lists' = [lists EXCEPT !.on_sendq = FALSE]
    /\ UNCHANGED <<sbuf, snd, state, apc, peer, faults, missed>>

add_to_send_list ==
    /\ spc = "list"
    /\ spc' = "sendq"
    /\ lists' = AddtoSendList(lists)
    /\ missed' = FALSE
    /\ UNCHANGED <<sbuf, snd, state, apc, peer, faults>>

\* What a close does once no control packet is pending.
Closed(l) ==
    IF l.on_send_list THEN [l EXCEPT !.waiting = TRUE]
    ELSE [l EXCEPT !.on_control_list = TRUE]

dequeue_closeq ==
    /\ spc = "closeq"
    /\ spc' = "closeq_int"
    /\ IF ~lists.closeq THEN UNCHANGED <<snd, lists, state>>
       ELSE /\ snd' = [snd EXCEPT !.fss = Written]
            /\ LET l == [lists EXCEPT !.closeq = FALSE]
               IN  IF l.on_control_list
                   THEN lists' = [l EXCEPT !.closeq_int = TRUE] /\ UNCHANGED state
                   ELSE lists' = Closed(l) /\ state' = "FIN_WAIT_1"
    /\ UNCHANGED <<sbuf, apc, peer, faults, missed>>

dequeue_closeq_int ==
    /\ spc = "closeq_int"
    /\ spc' = "control"
    /\ IF lists.closeq_int /\ ~lists.on_control_list
       THEN /\ state' = "FIN_WAIT_1"
            /\ lists' = [lists EXCEPT !.closeq_int = FALSE,
                                      !.on_control_list = TRUE]
       ELSE UNCHANGED <<state, lists>>
    /\ UNCHANGED <<sbuf, snd, apc, peer, faults, missed>>

-----------------------------------------------------------------------------
Loses(n) == faults.lost + n <= MaxLoss

\* WriteTCPControlList with SendControlPacket for the one stream: an ACK, or
\* the FIN if the send list is done with the stream, or else later.
send_nothing ==
    /\ spc = "control"
    /\ lists.on_control_list => state = "FIN_WAIT_1" /\ lists.on_send_list
    /\ spc' = "data"
    /\ UNCHANGED <<sbuf, snd, lists, state, apc, peer, faults, missed>>

send_ack ==
    /\ spc = "control"
    /\ lists.on_control_list /\ state # "FIN_WAIT_1"
    /\ lists' = [lists EXCEPT !.on_control_list = FALSE]
    /\ spc' = "data"
    /\ UNCHANGED <<sbuf, snd, state, apc, peer, faults, missed>>

send_fin ==
    /\ spc = "control"
    /\ lists.on_control_list /\ state = "FIN_WAIT_1" /\ ~lists.on_send_list
    /\ lists' = [lists EXCEPT !.on_control_list = FALSE, !.rto = TRUE]
    /\ snd' = [snd EXCEPT !.nxt = @ + 1, !.fin_sent = TRUE]
    /\ \/ /\ Loses(1)
          /\ faults' = [faults EXCEPT !.lost = @ + 1]
          /\ UNCHANGED peer
       \/ /\ peer' = [peer EXCEPT !.fin = TRUE]
          /\ UNCHANGED faults
    /\ spc' = "data"
    /\ UNCHANGED <<sbuf, state, apc, missed>>

\* The device has no buffer for either packet, the stream stays on the list.
send_later ==
    /\ spc = "control"
    /\ lists.on_control_list /\ (state = "FIN_WAIT_1" => ~lists.on_send_list)
    /\ faults.nobuf < MaxNoBuf
    /\ faults' = [faults EXCEPT !.nobuf = @ + 1]
    /\ spc' = "data"
    /\ UNCHANGED <<sbuf, snd, lists, state, apc, peer, missed>>

\* The asserts of FlushTCPSendingBuffer.
FlushSane ==
    /\ snd.nxt >= sbuf.head_seq
    /\ snd.nxt >= snd.una
    /\ snd.nxt - sbuf.head_seq <= sbuf.len

\* How far the window lets it send.
FlushEnd(w) ==
    IF snd.una + w < Written
    THEN IF snd.una + w > snd.nxt THEN snd.una + w ELSE snd.nxt
    ELSE Written

\* FlushTCPSendingBuffer, under write_lock: full segments up to `to', of
\* which the network loses some.  The result is negative when data is left.
FlushTCPSendingBuffer(to, lost, short) ==
    /\ snd' = [snd EXCEPT !.nxt = to]
    /\ lists' = [lists EXCEPT !.rto = @ \/ to > snd.nxt]
    /\ faults' = [faults EXCEPT !.lost = @ + Cardinality(lost),
                                !.nobuf = IF short THEN @ + 1 ELSE @]
    /\ peer' = [peer EXCEPT
           !.got = @ \cup (snd.nxt .. to - 1 \ lost),
           !.wrong = @ \/ \E s \in snd.nxt .. to - 1 :
                             sbuf.data[sbuf.head_off + s - sbuf.head_seq] # s]

\* WriteTCPDataList for the one stream.
send_no_data ==
    /\ spc = "data"
    /\ \/ ~lists.on_send_list
       \/ state = "ESTABLISHED" /\ lists.on_control_list
    /\ spc' = "rx"
    /\ UNCHANGED <<sbuf, snd, lists, state, apc, peer, faults, missed>>

\* Nothing to send, a failed sanity check in a build without asserts, or a
\* state in which no data is sent: the flag is cleared all the same.
send_empty ==
    /\ spc = "data" /\ lists.on_send_list
    /\ ~(state = "ESTABLISHED" /\ lists.on_control_list)
    /\ state = "FIN_WAIT_2" \/ sbuf.len = 0 \/ ~FlushSane
    /\ spc' = "clear"
    /\ UNCHANGED <<sbuf, snd, lists, state, apc, peer, faults, missed>>

send_data ==
    /\ spc = "data" /\ lists.on_send_list
    /\ ~(state = "ESTABLISHED" /\ lists.on_control_list)
    /\ state # "FIN_WAIT_2" /\ sbuf.len # 0 /\ FlushSane
    /\ \E w \in Windows : \E to \in snd.nxt .. FlushEnd(w) :
       \E lost \in SUBSET (snd.nxt .. to - 1) :
           /\ Loses(Cardinality(lost))
           /\ to < FlushEnd(w) => faults.nobuf < MaxNoBuf
           /\ FlushTCPSendingBuffer(to, lost, to < FlushEnd(w))
           /\ spc' = IF to = Written THEN "clear" ELSE "rx"
    /\ UNCHANGED <<sbuf, state, apc, missed>>

\* After the unlock.
clear_on_send_list ==
    /\ spc = "clear"
    /\ lists' = [lists EXCEPT !.on_send_list = FALSE, !.waiting = FALSE,
                              !.on_control_list = @ \/ lists.waiting]
    /\ spc' = "rx"
    /\ UNCHANGED <<sbuf, snd, state, apc, peer, faults, missed>>

-----------------------------------------------------------------------------
Application ==
    \/ test_on_sendq \/ test_on_send_list \/ enqueue_sendq

Stack ==
    \/ rx_none \/ no_timeout
    \/ dequeue_sendq \/ clear_on_sendq \/ add_to_send_list
    \/ dequeue_closeq \/ dequeue_closeq_int
    \/ send_nothing \/ send_ack \/ send_fin \/ send_later
    \/ send_no_data \/ send_empty \/ send_data \/ clear_on_send_list

SendNext ==
    \/ \E n \in 1 .. MaxWrite : mtcp_write(n)
    \/ CloseStreamSocket
    \/ Application
    \/ Stack
    \/ rx_new \/ rx_old \/ CheckRtmTimeout

SendSpec == SendInit /\ [][SendNext]_sendVars

\* Both threads go on, an acknowledgement that the peer keeps sending gets
\* through, and a timer that stays armed expires.
SendFairSpec ==
    /\ SendSpec
    /\ WF_sendVars(Application) /\ WF_sendVars(Stack)
    /\ SF_sendVars(rx_new) /\ SF_sendVars(CheckRtmTimeout)

-----------------------------------------------------------------------------
BufferExact(b) ==
    /\ b.head_off + b.len = b.tail_off /\ b.tail_off <= SB_SIZE
    /\ \A i \in 0 .. b.len - 1 : b.data[b.head_off + i] = b.head_seq + i

(* mTCP's send buffer (tcp_send_buffer.c) and the stack that reads it      *)
(* (FlushTCPSendingBuffer): whatever order writes, moves of the contents,  *)
(* removals, time outs and retransmissions come in, the buffer holds the   *)
(* bytes from head_seq on in place, it holds exactly what is not           *)
(* acknowledged, and no segment has ever carried a wrong byte.             *)
SendExact ==
    /\ ~peer.wrong
    /\ BufferExact(sbuf)
    /\ sbuf.head_seq = IF state = "FIN_WAIT_2" THEN snd.fss ELSE snd.una
    /\ 0 .. sbuf.head_seq - 1 \subseteq peer.got

-----------------------------------------------------------------------------
\* The three ways in which work is known to be forgotten: mtcp_write relied
\* on an on_send_list that the stack was about to clear; old copies of an
\* acknowledgement have moved snd_nxt below snd_una; the FIN was sent, and a
\* fast retransmission has moved snd_nxt back below it.
Forgotten ==
    \/ missed
    \/ snd.nxt < snd.una
    \/ snd.fin_sent /\ snd.una = snd.fss /\ snd.nxt = snd.fss

(* Data that was written and not sent is not forgotten otherwise: between  *)
(* mtcp_write, HandleApplicationCalls and WriteTCPDataList the stream is   *)
(* always queued or listed, the application is about to queue it, or its   *)
(* timer runs.                                                             *)
Scheduled ==
    Written > snd.nxt =>
        \/ lists.on_sendq \/ spc = "list" \/ lists.rto
        \/ lists.on_send_list /\ spc # "clear"
        \/ apc \in {"on_sendq", "on_send_list", "enqueue"}
        \/ Forgotten

(* What was written reaches the peer and is acknowledged, and so is the    *)
(* FIN after a close, whatever is lost on the way, unless it is forgotten  *)
(* in one of those ways.                                                   *)
Delivered ==
    <>[](\/ Forgotten
         \/ /\ snd.una >= Written
            /\ apc = "closed" => state = "FIN_WAIT_2")

(* UpdateRetransmissionTimer takes the stream off the RTO list when "all   *)
(* packets are acked": while the FIN is out and its acknowledgement is not *)
(* in, the timer runs, or the stream is on a list to send again.           *)
AllAcked ==
    state = "FIN_WAIT_1" /\ snd.fin_sent =>
        \/ lists.rto \/ lists.on_control_list \/ lists.waiting
        \/ lists.on_send_list

(* The sanity checks of FlushTCPSendingBuffer, each with an assert(0),     *)
(* hold whenever it looks at snd_nxt.                                      *)
FlushAsserts ==
    /\ spc = "data" /\ lists.on_send_list
    /\ state # "FIN_WAIT_2" /\ sbuf.len # 0
    => FlushSane

(* The FIN goes out after the data: SendControlPacket takes the sequence   *)
(* number behind the last byte written.                                    *)
FinLast == [][~snd.fin_sent /\ snd'.fin_sent => snd.nxt = snd.fss]_sendVars

-----------------------------------------------------------------------------
(***************************************************************************)
(* The inductive form of SendExact and Scheduled.                          *)
(***************************************************************************)
Buffers ==
    [head_seq : Nat, len : Nat, head_off : Nat, tail_off : Nat,
     data : [0 .. SB_SIZE - 1 -> Int]]

Snds ==
    [nxt : Nat, una : Nat, fss : Int, fin_sent : BOOLEAN, last_ack : Nat,
     dup_acks : 0 .. 4]

Lists ==
    [sendq : BOOLEAN, on_sendq : BOOLEAN, on_send_list : BOOLEAN,
     on_control_list : BOOLEAN, waiting : BOOLEAN, closeq : BOOLEAN,
     closeq_int : BOOLEAN, rto : BOOLEAN]

SendTypeOK ==
    /\ sbuf \in Buffers /\ snd \in Snds /\ lists \in Lists
    /\ state \in {"ESTABLISHED", "FIN_WAIT_1", "FIN_WAIT_2"}
    /\ spc \in {"rx", "timer", "sendq", "flag", "list", "closeq", "closeq_int",
                "control", "data", "clear"}
    /\ apc \in {"idle", "on_sendq", "on_send_list", "enqueue", "closed"}
    /\ peer \in [got : SUBSET Nat, fin : BOOLEAN, wrong : BOOLEAN]
    /\ missed \in BOOLEAN

\* What a close leaves: nothing is written any more, and fss is the end.
CloseExact ==
    /\ \/ lists.closeq \/ lists.closeq_int \/ snd.fss # -1 \/ state # "ESTABLISHED"
       => apc = "closed"
    /\ lists.closeq_int \/ state # "ESTABLISHED" => snd.fss # -1
    /\ lists.closeq => snd.fss = -1
    /\ lists.closeq_int => state = "ESTABLISHED"
    /\ lists.waiting => state # "ESTABLISHED" /\ (lists.on_send_list \/ sbuf.len = 0)
    /\ snd.fss # -1 => snd.fss = Written
    /\ snd.fin_sent => state # "ESTABLISHED"
    /\ state = "FIN_WAIT_2" => snd.fin_sent /\ snd.una = snd.fss + 1

\* The peer has nothing that was not written.
PeerExact ==
    /\ peer.got \subseteq 0 .. Written - 1 /\ Written <= MaxData
    /\ peer.fin => snd.fin_sent

\* The only case in which data is left to the timer: the FIN was sent just
\* below the first byte that is not acknowledged.
LeftToTimer ==
    /\ lists.rto /\ snd.nxt = snd.una /\ snd.fin_sent
    /\ ~lists.on_control_list /\ ~lists.waiting

ScheduledInd ==
    Written > snd.nxt =>
        \/ lists.on_sendq \/ spc = "list"
        \/ lists.on_send_list /\ spc # "clear"
        \/ apc \in {"on_sendq", "on_send_list", "enqueue"}
        \/ LeftToTimer \/ missed
        \/ snd.nxt < snd.una

SendInv ==
    /\ SendTypeOK /\ SendExact /\ CloseExact /\ PeerExact /\ ScheduledInd
=============================================================================
