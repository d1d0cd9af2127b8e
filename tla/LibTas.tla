------------------------------- MODULE LibTas -------------------------------
(***************************************************************************)
(* The low level library of TAS: one application context with its          *)
(* connections (lib/tas/conn.c, lib/tas/init.c), between an application    *)
(* and the two halves of TAS, which are abstracted to the messages they    *)
(* exchange with it.                                                       *)
(*                                                                         *)
(*   kin, kout   requests to and replies from the slow path                *)
(*   arx, atx    notifications from and bumps to the fast path             *)
(*                                                                         *)
(* flextcp_context_poll runs entry by entry, because TAS adds entries      *)
(* while it runs; the application does nothing else meanwhile.             *)
(* A message carries the incarnation `gen' of its connection, which the    *)
(* code does not know: its `opaque' is the address of the connection.      *)
(***************************************************************************)
EXTENDS Integers, SequencesExt

CONSTANTS
    Conns,          \* addresses of connections
    NULL,
    RXB, TXB,       \* rxb_len, txb_len
    KIN, ATX,       \* entries of the queues to slow and fast path
    Events,         \* `num' of flextcp_context_poll
    MaxRx, MaxTx,   \* bytes received and sent on a connection
    MaxArx,         \* notifications that wait
    MaxGen,         \* how often a connection is opened
    CloseEarly,     \* the application closes with a bump pending
    Reuse           \* the application opens a connection again

ASSUME LibTasAssumption ==
    /\ NULL \notin Conns /\ Events \subseteq Nat /\ RXB \in Nat /\ TXB \in Nat
    /\ CloseEarly \in BOOLEAN /\ Reuse \in BOOLEAN

VARIABLES
    conn,           \* struct flextcp_connection
    next, pending,  \* bump_next and bump_pending of each connection
    first, last,    \* bump_pending_first, bump_pending_last
    kin, kout, arx, atx,
    poll,           \* the phase of flextcp_context_poll and its event space
    heard,          \* the events of each connection's incarnation, in order
    flow,           \* what TAS has of the connection
    failed          \* an assert failed or abort() was called

list == <<next, pending, first, last>>
vars == <<conn, list, kin, kout, arx, atx, poll, heard, flow, failed>>

\* connection_init
Closed ==
    [status |-> "CLOSED", rxb_head |-> 0, rxb_used |-> 0, rxb_bump |-> 0,
     txb_head |-> 0, txb_sent |-> 0, txb_allocated |-> 0, txb_bump |-> 0,
     flags |-> {}, rx_closed |-> FALSE, gen |-> 0, given |-> 0]

NoFlow == [gen |-> 0, told |-> FALSE, rx |-> 0, tx |-> 0, got |-> 0, fin |-> FALSE]

Idle == [phase |-> "idle", num |-> 0]

Init ==
    /\ conn = [c \in Conns |-> Closed]
    /\ next = [c \in Conns |-> NULL] /\ pending = [c \in Conns |-> FALSE]
    /\ first = NULL /\ last = NULL
    /\ kin = <<>> /\ kout = <<>> /\ arx = <<>> /\ atx = <<>>
    /\ poll = Idle
    /\ heard = [c \in Conns |-> <<>>]
    /\ flow = [c \in Conns |-> NoFlow]
    /\ failed = FALSE

allocbytes(s) == TXB - s.txb_sent - s.txb_allocated

-----------------------------------------------------------------------------
(* The list of connections with pending bumps.  The mutant does not link   *)
(* the new last connection to the old one.                                 *)
conn_mark_bump_unlinked(c) ==
    IF pending[c] THEN UNCHANGED list
    ELSE /\ next' = [next EXCEPT ![c] = NULL]
         /\ first' = IF last = NULL THEN c ELSE first
         /\ last' = c
         /\ pending' = [pending EXCEPT ![c] = TRUE]

conn_mark_bump(c) ==
    IF pending[c] THEN UNCHANGED list
    ELSE /\ next' = [x \in Conns |-> IF x = last THEN c
                                     ELSE IF x = c THEN NULL ELSE next[x]]
         /\ first' = IF last = NULL THEN c ELSE first
         /\ last' = c
         /\ pending' = [pending EXCEPT ![c] = TRUE]

\* What can be reached from a connection of the list, in order.
Reach[c \in Conns \cup {NULL}, n \in 0 .. Cardinality(Conns)] ==
    IF c = NULL \/ n = 0 THEN <<>> ELSE <<c>> \o Reach[next[c], n - 1]

BumpList == Reach[first, Cardinality(Conns)]

\* flextcp_connection_close, "need to remove connection from bump queue".
bump_remove(c) ==
    LET before == {p \in Range(BumpList) : next[p] = c} IN
    IF c = first
    THEN /\ first' = next[c]
         /\ pending' = [pending EXCEPT ![c] = FALSE]
         /\ UNCHANGED <<next, last, failed>>
    ELSE IF before = {} THEN failed' = TRUE /\ UNCHANGED list
    ELSE LET p == CHOOSE x \in before : TRUE
         IN  /\ next' = [next EXCEPT ![p] = next[c]]
             /\ last' = IF next[c] = NULL THEN p ELSE last
             /\ pending' = [pending EXCEPT ![c] = FALSE]
             /\ UNCHANGED <<first, failed>>

(* conns_bump: bumps leave in list order while the queue has space.  The   *)
(* mutant forgets what the application has freed.                          *)
BumpOf_txOnly(c) ==
    [conn |-> c, gen |-> conn[c].gen, rx |-> 0, tx |-> conn[c].txb_bump,
     done |-> "TXEOS_ALLOC" \in conn[c].flags]

BumpOf(c) ==
    [conn |-> c, gen |-> conn[c].gen, rx |-> conn[c].rxb_bump,
     tx |-> conn[c].txb_bump, done |-> "TXEOS_ALLOC" \in conn[c].flags]

conns_bump ==
    LET n    == Len(BumpList)
        k    == IF n <= ATX - Len(atx) THEN n ELSE ATX - Len(atx)
        sent == SubSeq(BumpList, 1, k)
        gone == Range(sent)
    IN  /\ atx' = atx \o [i \in 1 .. k |-> BumpOf(sent[i])]
        /\ conn' = [c \in Conns |-> IF c \in gone
                     THEN [conn[c] EXCEPT !.rxb_bump = 0, !.txb_bump = 0]
                     ELSE conn[c]]
        /\ pending' = [c \in Conns |-> pending[c] /\ c \notin gone]
        /\ first' = IF k = n THEN NULL ELSE BumpList[k + 1]
        /\ last' = IF k = n /\ n # 0 THEN NULL ELSE last
        /\ failed' = (failed \/ \E i \in 1 .. n :
                        i <= k + 1 /\ conn[BumpList[i]].status # "OPEN")
        /\ UNCHANGED next

-----------------------------------------------------------------------------
(* What the application calls between two polls.                           *)
App(c) == poll = Idle /\ ~failed /\ conn[c].status = "OPEN"

Kick(m) == kin' = Append(kin, m)

\* flextcp_connection_open, and flextcp_listen_accept likewise.
flextcp_connection_open(c) ==
    /\ poll = Idle /\ ~failed /\ conn[c].status = "CLOSED"
    /\ conn[c].gen < MaxGen /\ (Reuse \/ conn[c].gen = 0)
    /\ Len(kin) < KIN
    /\ conn' = [conn EXCEPT ![c] = [Closed EXCEPT !.status = "REQUESTED",
                                                  !.gen = conn[c].gen + 1]]
    /\ next' = [next EXCEPT ![c] = NULL]
    /\ pending' = [pending EXCEPT ![c] = FALSE]
    /\ heard' = [heard EXCEPT ![c] = <<>>]
    /\ Kick([op |-> "OPEN", conn |-> c])
    /\ UNCHANGED <<first, last, kout, arx, atx, poll, flow, failed>>

\* The connection leaves the bump list even if there is no queue space.
flextcp_connection_close(c) ==
    /\ App(c) /\ (CloseEarly \/ ~pending[c])
    /\ IF pending[c] THEN bump_remove(c) ELSE UNCHANGED <<list, failed>>
    /\ IF Len(kin) < KIN
       THEN /\ conn' = [conn EXCEPT ![c].status = "CLOSE_REQUESTED"]
            /\ Kick([op |-> "CLOSE", conn |-> c])
       ELSE UNCHANGED <<conn, kin>>
    /\ UNCHANGED <<kout, arx, atx, poll, heard, flow>>

\* flextcp_connection_tx_alloc and flextcp_connection_tx_alloc2; the former
\* may return less at the end of the buffer.
flextcp_connection_tx_alloc(c, n) ==
    /\ App(c) /\ "TXEOS" \notin conn[c].flags
    /\ n <= allocbytes(conn[c])
    /\ conn[c].given + n <= MaxTx
    /\ conn' = [conn EXCEPT ![c].txb_allocated = @ + n, ![c].given = @ + n]
    /\ UNCHANGED <<list, kin, kout, arx, atx, poll, heard, flow, failed>>

\* Mutant: the head may stand one past the end.
Advanced_late(pos, n, len) == IF pos + n > len THEN pos + n - len ELSE pos + n

Advanced(pos, n, len) == IF pos + n >= len THEN pos + n - len ELSE pos + n

flextcp_connection_tx_send(c, n) ==
    /\ App(c) /\ n <= conn[c].txb_allocated
    /\ conn' = [conn EXCEPT ![c].txb_allocated = @ - n, ![c].txb_sent = @ + n,
                            ![c].txb_head = Advanced(@, n, TXB),
                            ![c].txb_bump = @ + n]
    /\ conn_mark_bump(c)
    /\ UNCHANGED <<kin, kout, arx, atx, poll, heard, flow, failed>>

\* The dummy byte that stands for the end of the stream.
PushedEos(s) ==
    [s EXCEPT !.txb_sent = @ + 1, !.txb_head = Advanced(@, 1, TXB),
              !.txb_bump = @ + 1, !.flags = @ \cup {"TXEOS", "TXEOS_ALLOC"}]

\* Mutant: bytes that are allocated and not yet sent do not matter.
flextcp_connection_tx_close_unsent(c) ==
    /\ App(c) /\ "TXEOS" \notin conn[c].flags
    /\ IF allocbytes(conn[c]) = 0
       THEN /\ conn' = [conn EXCEPT ![c].flags = @ \cup {"TXEOS"}]
            /\ UNCHANGED list
       ELSE /\ conn' = [conn EXCEPT ![c] = PushedEos(@)]
            /\ conn_mark_bump(c)
    /\ UNCHANGED <<kin, kout, arx, atx, poll, heard, flow, failed>>

flextcp_connection_tx_close(c) ==
    /\ App(c) /\ conn[c].txb_allocated = 0 /\ "TXEOS" \notin conn[c].flags
    /\ IF allocbytes(conn[c]) = 0
       THEN /\ conn' = [conn EXCEPT ![c].flags = @ \cup {"TXEOS"}]
            /\ UNCHANGED list
       ELSE /\ conn' = [conn EXCEPT ![c] = PushedEos(@)]
            /\ conn_mark_bump(c)
    /\ UNCHANGED <<kin, kout, arx, atx, poll, heard, flow, failed>>

\* "Occasionally update the NIC on what we've already read."
flextcp_connection_rx_done(c, n) ==
    /\ App(c) /\ n <= conn[c].rxb_used
    /\ conn' = [conn EXCEPT ![c].rxb_used = @ - n, ![c].rxb_bump = @ + n]
    /\ IF conn[c].rxb_bump + n > RXB \div 4
       THEN conn_mark_bump(c) ELSE UNCHANGED list
    /\ UNCHANGED <<kin, kout, arx, atx, poll, heard, flow, failed>>

-----------------------------------------------------------------------------
(* flextcp_context_poll: kernel_poll, then fastpath_poll_vec, then         *)
(* txq_probe and conns_bump.                                               *)
Received(buf, n) == [event |-> "RECEIVED", buf |-> buf, len |-> n]
Plain(e) == [event |-> e, buf |-> 0, len |-> 0]

PollBegin ==
    /\ poll = Idle /\ ~failed
    /\ \E num \in Events : poll' = [phase |-> "kernel", num |-> num]
    /\ UNCHANGED <<conn, list, kin, kout, arx, atx, heard, flow, failed>>

\* event_kappin_conn_opened and event_kappin_accept_conn: what has arrived in
\* the meantime is reported with the confirmation.
Opened(s) ==
    <<Plain("OPEN")>>
      \o (IF s.rxb_used > 0 THEN <<Received(0, s.rxb_used)>> ELSE <<>>)
      \o (IF s.rx_closed THEN <<Plain("RXCLOSED")>> ELSE <<>>)

Report(c, evs) ==
    /\ heard' = [heard EXCEPT ![c] = @ \o evs]
    /\ poll' = [poll EXCEPT !.num = @ - Len(evs)]

\* Too few events left: kernel_poll gives up, and the poll with it.
kernel_poll ==
    /\ poll.phase = "kernel" /\ poll.num > 0 /\ kout # <<>>
    /\ \E m \in {Head(kout)} : \E c \in {m.conn} :
       \E evs \in {IF m.op = "OPENED" THEN Opened(conn[c])
                   ELSE <<Plain(m.op)>>} :
         IF Len(evs) > poll.num
         THEN poll' = Idle /\ UNCHANGED <<conn, kout, heard>>
         ELSE /\ kout' = Tail(kout)
              /\ conn' = [conn EXCEPT ![c].status =
                            IF m.op = "OPENED" THEN "OPEN" ELSE "CLOSED"]
              /\ Report(c, evs)
    /\ UNCHANGED <<list, kin, arx, atx, flow, failed>>

KernelDone ==
    /\ poll.phase = "kernel" /\ (kout = <<>> \/ poll.num = 0)
    /\ poll' = [poll EXCEPT !.phase = "fast"]
    /\ UNCHANGED <<conn, list, kin, kout, arx, atx, heard, flow, failed>>

(* event_arx_connupdate for an open connection: the events, how many it    *)
(* wants room for, and the connection afterwards.  The first mutant does   *)
(* not split what runs past the end of the buffer, the second does not     *)
(* count the end of the transmit stream.                                   *)
RxEvents_unsplit(s, n) == IF n = 0 THEN <<>> ELSE <<Received(s.rxb_head, n)>>

RxEvents(s, n) ==
    IF n = 0 THEN <<>>
    ELSE IF s.rxb_head + n > RXB
    THEN <<Received(s.rxb_head, RXB - s.rxb_head),
           Received(0, n - (RXB - s.rxb_head))>>
    ELSE <<Received(s.rxb_head, n)>>

Depleted(s, m) == m.tx > 0 /\ allocbytes(s) = 0

AllAcked(s, m) == "TXEOS_ALLOC" \in s.flags /\ s.txb_sent = m.tx

Cond(b, e) == IF b THEN <<Plain(e)>> ELSE <<>>

EvsNeeded_noTxClosed(s, m) ==
    Len(RxEvents(s, m.rx) \o Cond(Depleted(s, m), "SENDBUF")
          \o Cond(m.fin, "RXCLOSED"))

EvsNeeded(s, m) ==
    Len(RxEvents(s, m.rx) \o Cond(Depleted(s, m), "SENDBUF")
          \o Cond(AllAcked(s, m), "TXCLOSED") \o Cond(m.fin, "RXCLOSED"))

Updates(s, m) ==
    RxEvents(s, m.rx) \o Cond(Depleted(s, m), "SENDBUF")
      \o Cond(AllAcked(s, m) /\ m.tx > 0, "TXCLOSED") \o Cond(m.fin, "RXCLOSED")

\* "if we were previously unable to push out TX EOS, do so now"
EosDue(s, m) == m.tx > 0 /\ "TXEOS" \in s.flags /\ "TXEOS_ALLOC" \notin s.flags

Updated(s, m) ==
    LET r == [s EXCEPT !.rxb_head = Advanced(@, m.rx, RXB),
                       !.rxb_used = @ + m.rx, !.txb_sent = @ - m.tx,
                       !.rx_closed = @ \/ m.fin]
    IN  IF EosDue(s, m) THEN PushedEos(r)
        ELSE IF AllAcked(s, m) /\ m.tx > 0
        THEN [r EXCEPT !.flags = @ \cup {"TXEOS_ACK"}] ELSE r

\* The asserts of event_arx_connupdate and flextcp_conn_pushtxeos.
UpdateAsserts(s, m) ==
    /\ EosDue(s, m) => s.txb_allocated = 0 /\ allocbytes(s) + m.tx > 0
    /\ m.tx > 0 => "TXEOS_ACK" \notin s.flags

\* "due to a race we might see connection updates before we see the
\* connection confirmation from the kernel"
Early(s, m) ==
    [s EXCEPT !.rxb_head = @ + m.rx, !.rxb_used = @ + m.rx, !.rx_closed = m.fin]

fastpath_poll ==
    /\ poll.phase = "fast" /\ poll.num > 0 /\ arx # <<>>
    /\ arx' = Tail(arx)
    /\ \E m \in {Head(arx)} : \E c \in {m.conn} : \E s \in {conn[m.conn]} :
         \/ /\ s.status = "REQUESTED"
            /\ failed' = (failed \/ m.tx # 0)
            /\ conn' = [conn EXCEPT ![c] = Early(@, m)]
            /\ UNCHANGED <<list, heard, poll>>
         \/ /\ s.status \in {"CLOSED", "CLOSE_REQUESTED"}
            /\ UNCHANGED <<conn, list, heard, poll, failed>>
         \/ /\ s.status = "OPEN" /\ EvsNeeded(s, m) <= poll.num
            /\ failed' = (failed \/ ~UpdateAsserts(s, m))
            /\ conn' = [conn EXCEPT ![c] = Updated(@, m)]
            /\ IF EosDue(s, m) THEN conn_mark_bump(c) ELSE UNCHANGED list
            /\ Report(c, Updates(s, m))
    /\ UNCHANGED <<kin, kout, atx, flow>>

\* There is another entry, and room for its events.
More ==
    /\ arx # <<>> /\ poll.num > 0
    /\ conn[Head(arx).conn].status = "OPEN" =>
         EvsNeeded(conn[Head(arx).conn], Head(arx)) <= poll.num

PollEnd ==
    /\ poll.phase = "fast" /\ ~More
    /\ poll' = Idle
    /\ conns_bump
    /\ UNCHANGED <<kin, kout, arx, heard, flow>>

-----------------------------------------------------------------------------
(* TAS.  The fast path may work for a connection before the slow path has  *)
(* confirmed it, and a notification may still wait when the slow path      *)
(* reports that the connection is closed.                                  *)
SlowPath ==
    /\ kin # <<>> /\ kin' = Tail(kin)
    /\ \E m \in {Head(kin)} :
         \/ /\ m.op = "OPEN"
            /\ flow' = [flow EXCEPT ![m.conn] = [NoFlow EXCEPT !.rx = RXB,
                                          !.gen = conn[m.conn].gen]]
            /\ UNCHANGED kout
         \/ /\ m.op = "OPEN" /\ UNCHANGED flow
            /\ kout' = Append(kout, [op |-> "FAILED", conn |-> m.conn])
         \/ /\ m.op = "CLOSE"
            /\ flow' = [flow EXCEPT ![m.conn] = NoFlow]
            /\ kout' = Append(kout, [op |-> "CLOSED", conn |-> m.conn])
    /\ UNCHANGED <<conn, list, arx, atx, poll, heard, failed>>

Confirm(c) ==
    /\ flow[c].gen # 0 /\ ~flow[c].told
    /\ flow' = [flow EXCEPT ![c].told = TRUE]
    /\ kout' = Append(kout, [op |-> "OPENED", conn |-> c])
    /\ UNCHANGED <<conn, list, kin, arx, atx, poll, heard, failed>>

Notify(c) ==
    /\ flow[c].gen # 0 /\ Len(arx) < MaxArx
    /\ \E fin \in BOOLEAN, t \in 0 .. flow[c].tx, r \in 0 .. flow[c].rx :
         /\ fin \/ t > 0 \/ r > 0
         /\ flow[c].fin => ~fin /\ r = 0
         /\ flow[c].got + r <= MaxRx
         /\ arx' = Append(arx, [conn |-> c, gen |-> flow[c].gen,
                                rx |-> r, tx |-> t, fin |-> fin])
         /\ flow' = [flow EXCEPT ![c].tx = @ - t, ![c].rx = @ - r,
                                 ![c].got = @ + r, ![c].fin = @ \/ fin]
    /\ UNCHANGED <<conn, list, kin, kout, atx, poll, heard, failed>>

TakeBump ==
    /\ atx # <<>> /\ atx' = Tail(atx)
    /\ \E b \in {Head(atx)} :
         flow' = IF flow[b.conn].gen # b.gen THEN flow
                 ELSE [flow EXCEPT ![b.conn].tx = @ + b.tx,
                                   ![b.conn].rx = @ + b.rx]
    /\ UNCHANGED <<conn, list, kin, kout, arx, poll, heard, failed>>

-----------------------------------------------------------------------------
Poll == PollBegin \/ kernel_poll \/ KernelDone \/ fastpath_poll \/ PollEnd

Tas == SlowPath \/ TakeBump \/ \E c \in Conns : Confirm(c) \/ Notify(c)

Call(c) ==
    \/ flextcp_connection_open(c) \/ flextcp_connection_close(c)
    \/ flextcp_connection_tx_close(c)
    \/ \E n \in 1 .. TXB : flextcp_connection_tx_alloc(c, n)
    \/ \E n \in 1 .. TXB : flextcp_connection_tx_send(c, n)
    \/ \E n \in 1 .. RXB : flextcp_connection_rx_done(c, n)

Next == Poll \/ Tas \/ \E c \in Conns : Call(c)

Spec == Init /\ [][Next]_vars

\* The application keeps polling, and the fast path takes the bumps.
FairSpec == Spec /\ WF_vars(Poll) /\ WF_vars(TakeBump)
-----------------------------------------------------------------------------
SumOver(f(_), q) == FoldSeq(LAMBDA e, n : f(e) + n, 0, q)

Of(c, q) == SelectSeq(q, LAMBDA m : m.conn = c /\ m.gen = conn[c].gen)

Live(c) == conn[c].status = "OPEN" /\ flow[c].gen = conn[c].gen

TypeOK ==
    /\ \A c \in Conns :
         /\ conn[c].status \in {"CLOSED", "REQUESTED", "OPEN", "CLOSE_REQUESTED"}
         /\ conn[c].rxb_head \in 0 .. RXB /\ conn[c].rxb_used \in 0 .. RXB
         /\ conn[c].txb_head \in 0 .. TXB - 1
         /\ conn[c].txb_sent \in 0 .. TXB /\ conn[c].txb_allocated \in 0 .. TXB
         /\ next[c] \in Conns \cup {NULL} /\ pending[c] \in BOOLEAN
    /\ {first, last} \subseteq Conns \cup {NULL}
    /\ Len(kin) <= KIN /\ Len(atx) <= ATX

(* No assert of libtas fails and none of its "should never happen" aborts  *)
(* is reached, whatever order confirmations, notifications, the end of the *)
(* stream and the application's calls come in.  No count leaves its range, *)
(* and no event is written beyond the array the application has given,     *)
(* though the events an update needs are counted apart from where they are *)
(* made.                                                                   *)
NoAbort == TypeOK /\ ~failed /\ poll.num >= 0

(* Every byte of both buffers of an open connection is accounted for: with *)
(* the application, in a bump, in TAS or in a notification.                *)
Accounted ==
    \A c \in Conns : Live(c) =>
        /\ conn[c].txb_sent =
             conn[c].txb_bump + SumOver(LAMBDA b : b.tx, Of(c, atx))
               + flow[c].tx + SumOver(LAMBDA m : m.tx, Of(c, arx))
        /\ RXB = conn[c].rxb_used + conn[c].rxb_bump
             + SumOver(LAMBDA b : b.rx, Of(c, atx))
             + flow[c].rx + SumOver(LAMBDA m : m.rx, Of(c, arx))

\* The buffer positions reported to the application, in order.
Positions(evs) ==
    FlattenSeq([i \in DOMAIN evs |->
                  [k \in 1 .. evs[i].len |-> evs[i].buf + k - 1]])

AfterAll(evs, e) == \A i \in DOMAIN evs : evs[i].event = e =>
                   \A j \in DOMAIN evs : evs[j].event = "RECEIVED" => j < i

(* The application hears of an open connection first that it is open, then *)
(* of every byte once and at its place in the receive buffer, early ones   *)
(* and those around the end of the buffer included, and of the end of the  *)
(* stream after the last of them.                                          *)
EventsInOrder ==
    \A c \in Conns : Live(c) =>
        /\ heard[c][1].event = "OPEN"
        /\ Positions(heard[c]) =
             [i \in 1 .. flow[c].got - SumOver(LAMBDA m : m.rx, Of(c, arx))
                |-> (i - 1) % RXB]
        /\ AfterAll(heard[c], "RXCLOSED")

(* "list of connections with pending updates for NIC": a connection that   *)
(* is marked is on the list, so that conns_bump finds it.                  *)
MarkedIsListed == \A c \in Conns : pending[c] => c \in Range(BumpList)

(* What libtas is told about a connection is not applied to a later one    *)
(* that lives at the same address.                                         *)
OwnUpdates ==
    [][ (arx # <<>> /\ arx' = Tail(arx) /\ poll.phase = "fast" /\
         conn[Head(arx).conn].status \in {"REQUESTED", "OPEN"})
           => Head(arx).gen = conn[Head(arx).conn].gen ]_vars

(* A connection with a bump to send is not forgotten: the bump leaves, or  *)
(* the connection is closed.                                               *)
BumpsLeave == \A c \in Conns : pending[c] ~> ~pending[c]
=============================================================================
