------------------------------ MODULE SlowConn ------------------------------
(***************************************************************************)
(* The control path of TCP connections in the slow path: the requests of   *)
(* an application (open, listen, accept, close, move), the handshakes with *)
(* their retries, address resolution, the backlog of a listener, the timer *)
(* that ends a closed connection, and the queue of answers (kout) to the   *)
(* application.  One thread runs the handlers; the application and the     *)
(* network act in between.                                                 *)
(*                                                                         *)
(* A connection is known by the number of its request, which is also its   *)
(* opaque value; the memory of a freed one is not given to another.  An    *)
(* address and a remote port are one peer.  The network may deliver what a *)
(* peer has sent late, again or never.  Packet memory and flow states are  *)
(* counted, not placed (Packetmem and FlowTable place them).               *)
(***************************************************************************)
EXTENDS Integers, FiniteSets, SequencesExt

CONSTANTS
    NumConns,       \* requests for a connection (bounds the model)
    Servers,        \* peers the application connects to
    Clients,        \* peers that connect to a listening port
    TsPeers,        \* peers whose segments carry the timestamp option
    EcnPeers,       \* peers whose SYN has the ECE and CWR flags
    PORT_MAX, PORT_FIRST_EPH,
    ListenPorts,    \* ports the application listens on
    Listeners,      \* listeners it may open, as numbers
    ReusePort,      \* whether they are opened with LISTEN_REUSEPORT
    BACKLOG,        \* backlog_len
    KOUT_LEN,       \* entries of kout
    RETRIES,        \* config.tcp_handshake_retries
    ARP_RETRIES,    \* doublings of config.arp_to below config.arp_to_max
    NumFlows,       \* FLEXNIC_PL_FLOWST_NUM
    NumBufs,        \* connections whose buffers fit in packet memory
    MaxLost         \* SYN-ACKs the network loses

Conns == 1 .. NumConns
Peers == Servers \cup Clients
Ports == 0 .. PORT_MAX

ASSUME SlowConnAssumption ==
    /\ NumConns \in Nat /\ RETRIES \in Nat /\ ARP_RETRIES \in Nat
    /\ PORT_MAX \in Nat /\ PORT_FIRST_EPH \in 1 .. PORT_MAX
    /\ ListenPorts \subseteq 1 .. PORT_FIRST_EPH - 1
    /\ Listeners \subseteq Nat \ {0} /\ ReusePort \in BOOLEAN
    /\ Servers \cap Clients = {}
    /\ TsPeers \subseteq Peers /\ EcnPeers \subseteq Peers
    /\ BACKLOG \in Nat \ {0} /\ KOUT_LEN \in Nat \ {0}
    /\ NumFlows \in Nat /\ NumBufs \in Nat /\ MaxLost \in Nat

VARIABLES
    conn,           \* the connection structs
    tcp_hashtable,  \* registered connections
    app_conns,      \* app->conns
    conn_async_q,   \* completions for tcp_poll
    cc_conns,       \* the list of the congestion control
    ports,          \* type of each port
    port_eph_hint,
    listener,       \* the listener structs
    lmulti,         \* port -> its listeners, in the order they were added
    arp,            \* address cache: one entry for each server
    flow_free,      \* flow ids on flow_id_freelist
    bufs,           \* connections whose buffers still fit in packet memory
    kout,           \* answers on their way to the application
    told,           \* what the application has read, for each connection
    asked,          \* connections it has asked to close
    syns,           \* SYNs sent, as pairs of port and peer
    reached,        \* clients that have received a SYN-ACK
    lostacks,       \* SYN-ACKs lost so far
    unsaid,         \* connections with an answer that found no room in kout
    addfailed,      \* connections that got no flow state
    dropped,        \* listeners that have dropped a SYN from the backlog
    aborted         \* an assertion failed or abort() was called

lists == <<tcp_hashtable, app_conns, conn_async_q, cc_conns>>
portv == <<ports, port_eph_hint, listener, lmulti>>
net   == <<syns, reached, lostacks>>
appv  == <<told, asked>>
vars  == <<conn, lists, portv, arp, flow_free, bufs, kout, appv, net,
           unsaid, addfailed, dropped, aborted>>

None == 0

NoConn == [status |-> "unused", peer |-> 0, lport |-> 0, to |-> "off",
           attempts |-> 0, flow |-> None, comp |-> 0]

Live(c) == conn[c].status \notin {"unused", "freed"}
Waiting(l) == ToSet(listener[l].wait)
KoutFree == Len(kout) < KOUT_LEN
Event(t, c, ok) == [type |-> t, conn |-> c, ok |-> ok]

\* tcp_init; the hint is a random number that may lie below the first
\* ephemeral port.
Init ==
    /\ conn = [c \in Conns |-> NoConn]
    /\ tcp_hashtable = {} /\ app_conns = {}
    /\ conn_async_q = <<>> /\ cc_conns = {}
    /\ ports = [p \in Ports |-> "unused"]
    /\ port_eph_hint \in 0 .. PORT_MAX - PORT_FIRST_EPH - 1
    /\ listener = [l \in Listeners |->
                      [port |-> 0, backlog |-> <<>>, wait |-> <<>>]]
    /\ lmulti = [p \in Ports |-> <<>>]
    /\ arp = [s \in Servers |->
                 [status |-> "none", compl |-> <<>>, tries |-> 0]]
    /\ flow_free = 1 .. NumFlows
    /\ bufs = NumBufs
    /\ kout = <<>>
    /\ told = [c \in Conns |-> <<>>] /\ asked = {}
    /\ syns = {} /\ reached = {} /\ lostacks = 0
    /\ unsaid = {} /\ addfailed = {} /\ dropped = {}
    /\ aborted = FALSE

-----------------------------------------------------------------------------
(* Answers to the application (appif_ctx.c).  An answer that finds kout    *)
(* full is dropped.                                                        *)

say(t, c, ok) ==
    IF KoutFree
    THEN kout' = Append(kout, Event(t, c, ok)) /\ unsaid' = unsaid
    ELSE kout' = kout /\ unsaid' = unsaid \cup {c}

\* Mutant: the buffers are freed before it is known whether the answer fits.
conn_failed_early(c, bad) ==
    /\ say("opened", c, FALSE)
    /\ conn' = [conn EXCEPT ![c].to = "off",
                  ![c].status = IF KoutFree THEN "freed" ELSE "FAILED"]
    /\ bufs' = bufs + 1
    /\ tcp_hashtable' = tcp_hashtable \ {c}
    /\ aborted' = (bad \/ c \notin tcp_hashtable)

\* Mutant: the connection stays registered.
conn_failed_registered(c, bad) ==
    /\ say("opened", c, FALSE)
    /\ conn' = [conn EXCEPT ![c].to = "off",
                  ![c].status = IF KoutFree THEN "freed" ELSE "FAILED"]
    /\ bufs' = IF KoutFree THEN bufs + 1 ELSE bufs
    /\ tcp_hashtable' = tcp_hashtable
    /\ aborted' = bad

\* conn_failed, and appif_conn_opened with a status other than 0: the struct
\* is destroyed only if there is room for the answer.  Neither the port nor
\* the entry in app->conns is given back.  bad is an assertion that has
\* already failed.
conn_failed(c, bad) ==
    /\ say("opened", c, FALSE)
    /\ conn' = [conn EXCEPT ![c].to = "off",
                  ![c].status = IF KoutFree THEN "freed" ELSE "FAILED"]
    /\ bufs' = IF KoutFree THEN bufs + 1 ELSE bufs
    /\ tcp_hashtable' = tcp_hashtable \ {c}
    /\ aborted' = (bad \/ c \notin tcp_hashtable)

-----------------------------------------------------------------------------
(* Requests of the application.  appif_ctx_poll takes one only if kout has *)
(* room for its answer.                                                    *)

\* The requests are numbered in the order in which they are made.
NewRequest(c) ==
    /\ KoutFree
    /\ conn[c].status = "unused"
    /\ \A d \in 1 .. c - 1 : conn[d].status # "unused"

NextPort(p) ==
    IF (p + 1) % (PORT_MAX + 1) < PORT_FIRST_EPH THEN PORT_FIRST_EPH ELSE p + 1

\* The ports port_alloc looks at that are unused, and how far from the hint
\* its search meets each of them.
FreePorts ==
    {p \in {port_eph_hint} \cup PORT_FIRST_EPH .. PORT_MAX : ports[p] = "unused"}

SearchDist(p) ==
    IF p >= port_eph_hint THEN p - port_eph_hint
                          ELSE p - PORT_FIRST_EPH + PORT_MAX + 1 - port_eph_hint

\* Mutant: the search takes the first port without looking at its type.
port_alloc_any == port_eph_hint

\* 0 is a failure; it is also a port, which the first hint may be.
port_alloc ==
    IF FreePorts = {} THEN 0
    ELSE CHOOSE p \in FreePorts :
            \A q \in FreePorts : SearchDist(p) <= SearchDist(q)

\* conn_arp_done: the handshake begins.
SynSent(s, p) == [NoConn EXCEPT !.status = "SYN_SENT", !.peer = s,
                                !.lport = p, !.to = "handshake"]

\* A request that fails at once is answered in the kout entry that
\* appif_ctx_poll has found free.
refuse(t, c) ==
    /\ conn' = [conn EXCEPT ![c].status = "freed"]
    /\ kout' = Append(kout, Event(t, c, FALSE))
    /\ UNCHANGED <<lists, ports, listener, lmulti, arp, flow_free, bufs, appv,
                   net, unsaid, addfailed, dropped, aborted>>

\* kin_conn_open and tcp_open when there is no packet memory, no port, or
\* the address cannot be resolved.
kin_conn_open_fails(c) ==
    /\ NewRequest(c)
    /\ \/ bufs = 0 /\ UNCHANGED port_eph_hint
       \/ /\ bufs > 0
          /\ port_eph_hint' = IF FreePorts = {} THEN port_eph_hint
                                                ELSE NextPort(port_alloc)
          /\ port_alloc # 0 => \E s \in Servers : arp[s].status = "none"
    /\ refuse("opened", c)

\* kin_conn_open, tcp_open and arp_request.
kin_conn_open(c, s) ==
    LET p == port_alloc IN
    /\ NewRequest(c) /\ bufs > 0 /\ p # 0
    /\ bufs' = bufs - 1
    /\ port_eph_hint' = NextPort(p)
    /\ ports' = [ports EXCEPT ![p] = "conn"]
    /\ tcp_hashtable' = tcp_hashtable \cup {c}
    /\ app_conns' = app_conns \cup {c}
    /\ \/ /\ arp[s].status = "ready"
          /\ conn' = [conn EXCEPT ![c] = SynSent(s, p)]
          /\ syns' = syns \cup {<<p, s>>}
          /\ UNCHANGED arp
       \/ /\ arp[s].status # "ready"
          /\ conn' = [conn EXCEPT ![c] =
                 [NoConn EXCEPT !.status = "ARP_PENDING", !.peer = s, !.lport = p]]
          /\ arp' = [arp EXCEPT ![s].status = "pending",
                                ![s].compl = <<c>> \o @]
          /\ UNCHANGED syns
    /\ UNCHANGED <<conn_async_q, cc_conns, listener, lmulti, flow_free, kout,
                   appv, reached, lostacks, unsaid, addfailed, dropped, aborted>>

\* kin_listen_open and tcp_listen.
kin_listen_open(l, p) ==
    /\ KoutFree /\ listener[l].port = 0
    /\ \/ /\ ports[p] = "unused" \/ (ReusePort /\ ports[p] = "lmulti")
          /\ ports' = [ports EXCEPT ![p] = IF ReusePort THEN "lmulti" ELSE "listen"]
          /\ listener' = [listener EXCEPT ![l].port = p]
          /\ lmulti' = [lmulti EXCEPT ![p] = Append(@, l)]
          /\ kout' = Append(kout, Event("listen", l, TRUE))
       \/ /\ ~(ports[p] = "unused" \/ (ReusePort /\ ports[p] = "lmulti"))
          /\ kout' = Append(kout, Event("listen", l, FALSE))
          /\ UNCHANGED <<ports, listener, lmulti>>
    /\ UNCHANGED <<conn, lists, port_eph_hint, arp, flow_free, bufs, appv, net,
                   unsaid, addfailed, dropped, aborted>>

\* listener_accept: the connection that waits for the listener meets the
\* oldest SYN of its backlog.  The SYN is dropped when it has no timestamp
\* or the connection gets no flow state; the connection then waits on.
\* lr and cn are the listener and the connections as its caller leaves them.
\* A connection that gets no flow state is left as it is, and is not taken
\* from the list of those that wait.
listener_accept(l, lr, cn) ==
    LET c == Head(lr.wait)
        q == Head(lr.backlog)
        popped == [lr EXCEPT !.backlog = Tail(@)]
        met == [cn[c] EXCEPT !.status = "REG_SYNACK", !.peer = q]
    IN
    \/ /\ q \notin TsPeers
       /\ listener' = [listener EXCEPT ![l] = popped]
       /\ conn' = cn
       /\ dropped' = dropped \cup {l}
       /\ UNCHANGED <<tcp_hashtable, conn_async_q, cc_conns, flow_free, addfailed>>
    \/ /\ q \in TsPeers /\ flow_free = {}
       /\ listener' = [listener EXCEPT ![l] = popped]
       /\ conn' = [cn EXCEPT ![c] = met]
       /\ cc_conns' = cc_conns \cup {c}
       /\ addfailed' = addfailed \cup {c}
       /\ dropped' = dropped \cup {l}
       /\ UNCHANGED <<tcp_hashtable, conn_async_q, flow_free>>
    \/ /\ q \in TsPeers /\ flow_free # {}
       /\ LET f == Min(flow_free) IN
          /\ conn' = [cn EXCEPT ![c] = [met EXCEPT !.flow = f]]
          /\ flow_free' = flow_free \ {f}
       /\ listener' = [listener EXCEPT ![l] = [popped EXCEPT !.wait = Tail(@)]]
       /\ tcp_hashtable' = tcp_hashtable \cup {c}
       /\ conn_async_q' = Append(conn_async_q, c)
       /\ cc_conns' = cc_conns \cup {c}
       /\ UNCHANGED <<addfailed, dropped>>

no_accept(l, lr, cn) ==
    /\ listener' = [listener EXCEPT ![l] = lr]
    /\ conn' = cn
    /\ UNCHANGED <<tcp_hashtable, conn_async_q, cc_conns, flow_free, addfailed,
                   dropped>>

\* kin_accept_conn and tcp_accept.
kin_accept_conn(c, l) ==
    LET lr == [listener[l] EXCEPT !.wait = <<c>> \o @]
        cn == [conn EXCEPT ![c] = [NoConn EXCEPT !.status = "SYN_WAIT",
                                                 !.lport = listener[l].port]]
    IN
    /\ NewRequest(c) /\ listener[l].port # 0 /\ bufs > 0
    /\ bufs' = bufs - 1
    /\ IF lr.backlog # <<>> THEN listener_accept(l, lr, cn)
                            ELSE no_accept(l, lr, cn)
    /\ UNCHANGED <<app_conns, ports, port_eph_hint, lmulti, arp, kout, appv,
                   net, unsaid, aborted>>

kin_accept_conn_fails(c) ==
    /\ NewRequest(c) /\ bufs = 0
    /\ \E l \in Listeners : listener[l].port # 0
    /\ refuse("accepted", c)
    /\ UNCHANGED port_eph_hint

\* The search of kin_conn_close and kin_conn_move compares addresses and
\* ports, which the application has only once the connection is open.
Found(c) == c \in app_conns /\ told[c] # <<>>

\* Mutant: a close is also answered when it has only begun.
kin_conn_close_answers(c) ==
    /\ KoutFree /\ conn[c].status # "unused" /\ c \notin asked
    /\ asked' = asked \cup {c}
    /\ kout' = Append(kout, Event("closed", c, FALSE))
    /\ \/ /\ Found(c) /\ conn[c].status = "OPEN"
          /\ conn' = [conn EXCEPT ![c].status = "CLOSED", ![c].to = "closed"]
          /\ cc_conns' = cc_conns \ {c}
       \/ /\ ~(Found(c) /\ conn[c].status = "OPEN")
          /\ UNCHANGED <<conn, cc_conns>>
    /\ UNCHANGED <<tcp_hashtable, app_conns, conn_async_q, portv, arp, aborted,
                   flow_free, bufs, told, net, unsaid, addfailed, dropped>>

\* kin_conn_close, tcp_close, nicif_connection_disable, cc_conn_remove.
kin_conn_close(c) ==
    /\ KoutFree /\ conn[c].status # "unused" /\ c \notin asked
    /\ asked' = asked \cup {c}
    /\ \/ /\ Found(c) /\ conn[c].status = "OPEN"
          /\ conn' = [conn EXCEPT ![c].status = "CLOSED", ![c].to = "closed"]
          /\ cc_conns' = cc_conns \ {c}
          /\ aborted' = (conn[c].to # "off" \/ c \notin cc_conns)
          /\ UNCHANGED kout
       \/ /\ ~(Found(c) /\ conn[c].status = "OPEN")
          /\ kout' = Append(kout, Event("closed", c, FALSE))
          /\ UNCHANGED <<conn, cc_conns, aborted>>
    /\ UNCHANGED <<tcp_hashtable, app_conns, conn_async_q, portv, arp,
                   flow_free, bufs, told, net, unsaid, addfailed, dropped>>

\* kin_conn_move.  The application of the model asks for a move when it has
\* read all answers.
kin_conn_move(c) ==
    /\ kout = <<>> /\ told[c] # <<>>
    /\ kout' = Append(kout, Event("moved", c, Found(c) /\ conn[c].status = "OPEN"))
    /\ UNCHANGED <<conn, lists, portv, arp, flow_free, bufs, appv, net, unsaid,
                   addfailed, dropped, aborted>>

-----------------------------------------------------------------------------
(* Packets, completions and timers.                                        *)

\* send_control of a SYN-ACK: the network may lose it.
send_synack(q) ==
    \/ reached' = reached \cup {q} /\ UNCHANGED lostacks
    \/ lostacks < MaxLost /\ lostacks' = lostacks + 1 /\ UNCHANGED reached

\* Mutant: the timer of the handshake is not disarmed.
opened_armed(c, f) == [conn EXCEPT ![c].status = "OPEN", ![c].flow = f]

opened(c, f) == [conn EXCEPT ![c].status = "OPEN", ![c].flow = f, ![c].to = "off"]

\* conn_packet and conn_syn_sent_packet: the first segment that arrives for
\* a connection in its handshake opens it or ends it.
conn_syn_sent_packet(c, kind) ==
    LET ok == kind = "synack" /\ conn[c].peer \in TsPeers IN
    /\ conn[c].status = "SYN_SENT"
    /\ \/ /\ ~ok
          /\ conn_failed(c, conn[c].to = "off")
          /\ UNCHANGED <<cc_conns, flow_free, addfailed>>
       \/ /\ ok /\ flow_free = {}
          /\ conn_failed(c, conn[c].to = "off")
          /\ cc_conns' = cc_conns \cup {c}
          /\ addfailed' = addfailed \cup {c}
          /\ UNCHANGED flow_free
       \/ /\ ok /\ flow_free # {}
          /\ LET f == Min(flow_free) IN
             /\ conn' = opened(c, f)
             /\ flow_free' = flow_free \ {f}
          /\ cc_conns' = cc_conns \cup {c}
          /\ say("opened", c, TRUE)
          /\ aborted' = (conn[c].to = "off")
          /\ UNCHANGED <<tcp_hashtable, bufs, addfailed>>
    /\ UNCHANGED <<app_conns, conn_async_q, portv, arp, appv, net, dropped>>

\* Mutant: a SYN for an open connection is ignored.
conn_packet_syn_ignored(c) == conn[c].status = "OPEN" /\ UNCHANGED vars

\* conn_packet for a SYN that repeats the one of an open connection.  The
\* flags are compared with SYN alone, so that one with ECE and CWR is taken
\* for a repeated SYN-ACK and ignored.  A peer uses the timestamp option in
\* all of its SYNs or in none, so that this one has it.
conn_packet_syn(c) ==
    /\ conn[c].status = "OPEN" /\ conn[c].peer \notin EcnPeers
    /\ send_synack(conn[c].peer)
    /\ UNCHANGED <<conn, lists, portv, arp, flow_free, bufs, kout, appv, syns,
                   unsaid, addfailed, dropped, aborted>>

\* conn_lookup
Lookup(p, q) == {c \in tcp_hashtable : conn[c].lport = p /\ conn[c].peer = q}

\* listener_lookup: the number of a client is the hash of its address.
ListenerOf(p, q) == lmulti[p][1 + (q % Len(lmulti[p]))]

\* Mutant: no test for a full backlog.
listener_packet_unbounded(l, q) ==
    LET lr == [listener[l] EXCEPT !.backlog = Append(@, q)] IN
    /\ ~Contains(listener[l].backlog, q)
    /\ kout' = IF KoutFree THEN Append(kout, Event("newconn", l, TRUE)) ELSE kout
    /\ IF lr.wait # <<>> THEN listener_accept(l, lr, conn)
                         ELSE no_accept(l, lr, conn)
    /\ UNCHANGED <<app_conns, ports, port_eph_hint, lmulti, arp, bufs, appv,
                   net, unsaid, aborted>>

\* Mutant: pending accepts are not looked for.
listener_packet_queues(l, q) ==
    LET lr == [listener[l] EXCEPT !.backlog = Append(@, q)] IN
    /\ ~Contains(listener[l].backlog, q)
    /\ Len(listener[l].backlog) < BACKLOG
    /\ kout' = IF KoutFree THEN Append(kout, Event("newconn", l, TRUE)) ELSE kout
    /\ no_accept(l, lr, conn)
    /\ UNCHANGED <<app_conns, ports, port_eph_hint, lmulti, arp, bufs, appv,
                   net, unsaid, aborted>>

\* listener_packet, for a SYN whose connection does not exist.
listener_packet(l, q) ==
    LET lr == [listener[l] EXCEPT !.backlog = Append(@, q)] IN
    /\ ~Contains(listener[l].backlog, q)
    /\ Len(listener[l].backlog) < BACKLOG
    /\ kout' = IF KoutFree THEN Append(kout, Event("newconn", l, TRUE)) ELSE kout
    /\ IF lr.wait # <<>> THEN listener_accept(l, lr, conn)
                         ELSE no_accept(l, lr, conn)
    /\ UNCHANGED <<app_conns, ports, port_eph_hint, lmulti, arp, bufs, appv,
                   net, unsaid, aborted>>

\* Mutant: a SYN goes to the listener of its port, if there is one.
tcp_packet_syn_listener(q, p) ==
    /\ q \notin reached
    /\ lmulti[p] # <<>>
    /\ listener_packet(ListenerOf(p, q), q)

\* tcp_packet.  A client sends its SYN again until it has an answer; a
\* server answers a SYN with a SYN-ACK or a RST.  Segments that change
\* nothing are left out.
tcp_packet_syn(q, p) ==
    /\ q \notin reached
    /\ \/ \E c \in Lookup(p, q) : conn_packet_syn(c)
       \/ /\ Lookup(p, q) = {} /\ lmulti[p] # <<>>
          /\ listener_packet(ListenerOf(p, q), q)

tcp_packet_answer(p, s, kind) ==
    /\ <<p, s>> \in syns
    /\ \E c \in Lookup(p, s) : conn_syn_sent_packet(c, kind)

\* tcp_poll, one completion of its loop.  A connection is in conn_async_q
\* only in one of these two states (Registered).
tcp_poll ==
    /\ conn_async_q # <<>>
    /\ conn_async_q' = Tail(conn_async_q)
    /\ LET c == Head(conn_async_q) IN
       \/ /\ conn[c].status = "ARP_PENDING" /\ conn[c].comp # 0
          /\ conn_failed(c, FALSE)
          /\ UNCHANGED <<app_conns, net>>
       \/ /\ conn[c].status = "ARP_PENDING" /\ conn[c].comp = 0
          /\ conn' = [conn EXCEPT ![c] = SynSent(@.peer, @.lport)]
          /\ syns' = syns \cup {<<conn[c].lport, conn[c].peer>>}
          /\ aborted' = (conn[c].to # "off")
          /\ UNCHANGED <<tcp_hashtable, app_conns, bufs, kout, unsaid, reached,
                         lostacks>>
       \/ /\ conn[c].status = "REG_SYNACK"
          /\ conn' = [conn EXCEPT ![c].status = "OPEN"]
          /\ send_synack(conn[c].peer)
          /\ say("accepted", c, TRUE)
          /\ app_conns' = IF KoutFree THEN app_conns \cup {c} ELSE app_conns
          /\ UNCHANGED <<tcp_hashtable, bufs, syns, aborted>>
    /\ UNCHANGED <<cc_conns, portv, arp, flow_free, appv, addfailed, dropped>>

\* arp_packet with a reply, and arp_timeout after the last retry: every
\* connection that waits for the address is completed.
arp_done(s, ok) ==
    LET done == ToSet(arp[s].compl) IN
    /\ arp[s].status = "pending"
    /\ ~ok => arp[s].tries = ARP_RETRIES
    /\ arp' = [arp EXCEPT ![s] = [status |-> IF ok THEN "ready" ELSE "none",
                                  compl |-> <<>>, tries |-> 0]]
    /\ conn' = [c \in Conns |->
                   IF c \in done
                   THEN [conn[c] EXCEPT !.comp = IF ok THEN 0 ELSE -1]
                   ELSE conn[c]]
    /\ conn_async_q' = conn_async_q \o arp[s].compl
    /\ UNCHANGED <<tcp_hashtable, app_conns, cc_conns, portv, flow_free, bufs,
                   kout, appv, net, unsaid, addfailed, dropped, aborted>>

\* arp_timeout before the last retry.
arp_retry(s) ==
    /\ arp[s].status = "pending" /\ arp[s].tries < ARP_RETRIES
    /\ arp' = [arp EXCEPT ![s].tries = @ + 1]
    /\ UNCHANGED <<conn, lists, portv, flow_free, bufs, kout, appv, net, unsaid,
                   addfailed, dropped, aborted>>

\* Mutant: the timer is not armed for another attempt.
retried_unarmed(c) == [conn EXCEPT ![c].attempts = @ + 1, ![c].to = "off"]

retried(c) == [conn EXCEPT ![c].attempts = @ + 1]

\* tcp_timeout for TO_TCP_HANDSHAKE.
tcp_timeout(c) ==
    /\ conn[c].to = "handshake"
    /\ \/ /\ conn[c].attempts + 1 > RETRIES
          /\ conn_failed(c, conn[c].status # "SYN_SENT")
       \/ /\ conn[c].attempts + 1 <= RETRIES
          /\ conn' = retried(c)
          /\ aborted' = (conn[c].status # "SYN_SENT")
          /\ UNCHANGED <<tcp_hashtable, bufs, kout, unsaid>>
    /\ UNCHANGED <<app_conns, conn_async_q, cc_conns, portv, arp, flow_free,
                   appv, net, addfailed, dropped>>

\* Mutant: the flow state is not given back.
nicif_connection_free_not(c) == flow_free' = flow_free

nicif_connection_free(c) == flow_free' = flow_free \cup {conn[c].flow}

\* Mutant: the connection stays in app->conns.
unlist_not(c) == app_conns' = app_conns

\* appif_conn_closed: only with room for the answer.
unlist(c) == app_conns' = IF KoutFree THEN app_conns \ {c} ELSE app_conns

\* conn_close_timeout and appif_conn_closed: the struct is freed even when
\* kout is full, and then stays in app->conns.
conn_close_timeout(c) ==
    LET p == conn[c].lport IN
    /\ conn[c].to = "closed"
    /\ ports' = [ports EXCEPT ![p] = IF @ = "conn" THEN "unused" ELSE @]
    /\ tcp_hashtable' = tcp_hashtable \ {c}
    /\ bufs' = bufs + 1
    /\ nicif_connection_free(c)
    /\ say("closed", c, TRUE)
    /\ unlist(c)
    /\ aborted' = (c \notin tcp_hashtable \/ (KoutFree /\ c \notin app_conns))
    /\ conn' = [conn EXCEPT ![c].status = "freed", ![c].to = "off"]
    /\ UNCHANGED <<conn_async_q, cc_conns, port_eph_hint, listener, lmulti, arp,
                   appv, net, addfailed, dropped>>

\* The application reads an answer (kernel_poll of libtas).
app_poll ==
    /\ kout # <<>>
    /\ kout' = Tail(kout)
    /\ told' = IF Head(kout).type \in {"opened", "accepted", "closed"}
               THEN [told EXCEPT ![Head(kout).conn] = Append(@, Head(kout))]
               ELSE told
    /\ UNCHANGED <<conn, lists, portv, arp, flow_free, bufs, asked, net, unsaid,
                   addfailed, dropped, aborted>>

appif_ctx_poll ==
    \/ \E c \in Conns :
          \/ \E s \in Servers : kin_conn_open(c, s)
          \/ kin_conn_open_fails(c)
          \/ \E l \in Listeners : kin_accept_conn(c, l)
          \/ kin_accept_conn_fails(c)
          \/ kin_conn_close(c)
          \/ kin_conn_move(c)
    \/ \E l \in Listeners, p \in ListenPorts : kin_listen_open(l, p)

tcp_packet ==
    \/ \E q \in Clients, p \in ListenPorts : tcp_packet_syn(q, p)
    \/ \E p \in Ports, s \in Servers, kind \in {"synack", "rst"} :
          tcp_packet_answer(p, s, kind)

timeouts ==
    \/ \E c \in Conns : tcp_timeout(c) \/ conn_close_timeout(c)
    \/ \E s \in Servers : arp_retry(s) \/ arp_done(s, FALSE)

Next ==
    /\ ~aborted
    /\ \/ appif_ctx_poll
       \/ tcp_packet
       \/ \E s \in Servers : arp_done(s, TRUE)
       \/ tcp_poll
       \/ timeouts
       \/ app_poll

Spec == Init /\ [][Next]_vars

\* The main loop of the slow path polls the completions and the timers in
\* every round, the application keeps polling, and a client sends its SYN
\* again.
FairSpec ==
    /\ Spec
    /\ WF_vars(tcp_poll) /\ WF_vars(timeouts) /\ WF_vars(app_poll)
    /\ \A q \in Clients : WF_vars(\E p \in ListenPorts : tcp_packet_syn(q, p))

-----------------------------------------------------------------------------
TypeOK ==
    /\ \A c \in Conns :
          /\ conn[c].status \in {"unused", "freed", "ARP_PENDING", "SYN_SENT",
                "SYN_WAIT", "REG_SYNACK", "OPEN", "CLOSED", "FAILED"}
          /\ conn[c].to \in {"off", "handshake", "closed"}
          /\ conn[c].attempts \in 0 .. RETRIES
          /\ conn[c].flow \in 0 .. NumFlows
          /\ conn[c].peer \in Peers \cup {0} /\ conn[c].lport \in Ports
    /\ tcp_hashtable \subseteq Conns /\ app_conns \subseteq Conns
    /\ ToSet(conn_async_q) \subseteq Conns /\ cc_conns \subseteq Conns
    /\ \A p \in Ports : ports[p] \in {"unused", "conn", "listen", "lmulti"}
    /\ port_eph_hint \in Ports
    /\ \A l \in Listeners : Len(listener[l].backlog) <= BACKLOG
    /\ flow_free \subseteq 1 .. NumFlows /\ bufs \in 0 .. NumBufs
    /\ Len(kout) <= KOUT_LEN /\ lostacks \in 0 .. MaxLost

\* No assertion of tcp.c fails and none of its searches ends in abort(): a
\* timer fires only in the state it was armed for, is armed once, and a
\* connection that is unregistered, closed or reported closed is in the list
\* it is removed from.  Counts and queues stay within their limits.
NoAbort == TypeOK /\ ~aborted

\* Each list holds the connections whose state says so, once, and no freed
\* one: what conn_lookup finds, what tcp_poll is handed, who waits for a
\* listener and who waits for an address.
Registered ==
    LET inq(c) == Contains(conn_async_q, c)
        inarp(c) == \E s \in Servers : Contains(arp[s].compl, c)
        waits(c) == \E l \in Listeners : Contains(listener[l].wait, c)
    IN
    /\ \A c \in Conns :
          /\ c \in tcp_hashtable <=>
                \/ conn[c].status \in {"ARP_PENDING", "SYN_SENT", "OPEN", "CLOSED"}
                \/ conn[c].status = "REG_SYNACK" /\ ~waits(c)
          /\ inarp(c) => conn[c].status = "ARP_PENDING" /\ ~inq(c)
          /\ conn[c].status = "ARP_PENDING" => inarp(c) \/ inq(c)
          /\ inq(c) <=> \/ conn[c].status = "ARP_PENDING" /\ ~inarp(c)
                        \/ conn[c].status = "REG_SYNACK" /\ ~waits(c)
          /\ waits(c) => \/ conn[c].status = "SYN_WAIT"
                         \/ conn[c].status = "REG_SYNACK" /\ c \in addfailed
    /\ \A i, j \in DOMAIN conn_async_q :
          conn_async_q[i] = conn_async_q[j] => i = j

\* A flow state belongs to one connection until the timer of its close frees
\* it, and none is lost: whatever is not on the free list belongs to a
\* connection that is open, opening or closing.  The packet memory of a
\* connection is freed exactly once, on every path that ends it.
Owned ==
    /\ \A c, d \in Conns : Live(c) /\ Live(d) /\ conn[c].flow # None =>
          /\ conn[c].flow \notin flow_free
          /\ conn[c].flow = conn[d].flow => c = d
    /\ \A f \in (1 .. NumFlows) \ flow_free :
          \E c \in Conns : conn[c].flow = f /\ conn[c].status \in
                              {"REG_SYNACK", "OPEN", "CLOSED"}
    /\ bufs + Cardinality({c \in Conns : Live(c)}) = NumBufs

\* Two registered connections never have the same addresses and ports.  While
\* a connection that was opened actively exists, no other one has its port
\* and nobody listens on it: a segment for the port is for it.
TupleUnique ==
    /\ \A c, d \in tcp_hashtable :
          conn[c].peer = conn[d].peer /\ conn[c].lport = conn[d].lport => c = d
    /\ \A c, d \in Conns :
          Live(c) /\ conn[c].lport # 0 /\ conn[c].peer \in Servers =>
              /\ ports[conn[c].lport] = "conn"
              /\ Live(d) /\ conn[d].lport = conn[c].lport => c = d

\* The application is told at most once that a connection is open or has
\* failed, at most once that it is closed, and never of the closing of one
\* that it has not closed.
ToldOnce ==
    LET said(c) == told[c] \o SelectSeq(kout, LAMBDA e : e.conn = c /\
                       e.type \in {"opened", "accepted", "closed"})
        times(c, T) == Cardinality({i \in DOMAIN said(c) : said(c)[i].type \in T})
    IN \A c \in Conns :
          /\ times(c, {"opened", "accepted"}) <= 1
          /\ times(c, {"closed"}) <= 1
          /\ times(c, {"closed"}) = 1 => c \in asked

\* A SYN never waits in the backlog while an accept waits for one, unless
\* the listener has dropped a SYN it could not use.
AcceptMeetsSyn ==
    \A l \in Listeners \ dropped :
        listener[l].backlog = <<>> \/ listener[l].wait = <<>>

\* Once the application knows that its connection is closed, no list of the
\* slow path refers to the freed struct.  The congestion control list holds
\* the connections with a flow that are open or being opened.
ClosedIsForgotten ==
    /\ \A c \in Conns : conn[c].status = "freed" /\ c \notin unsaid
                        /\ conn[c].flow # None => c \notin app_conns
    /\ cc_conns \ addfailed =
          {c \in Conns : conn[c].status \in {"REG_SYNACK", "OPEN"}} \ addfailed

\* A connection that is being opened and one that is being closed come to an
\* end: the application is told, unless the answer found kout full.  A lost
\* SYN, an address that is not resolved or a peer that stays silent only
\* delay it.
Answered ==
    \A c \in Conns :
        /\ (conn[c].status \in {"ARP_PENDING", "SYN_SENT"}) ~>
              (told[c] # <<>> \/ c \in unsaid)
        /\ (c \in asked) ~>
              (\/ \E i \in DOMAIN told[c] : told[c][i].type = "closed"
               \/ c \in unsaid)

\* A client whose connection was accepted receives a SYN-ACK, also when the
\* network loses the first ones, unless the application closes it before.
SynAckReaches ==
    \A c \in Conns, q \in Clients :
        (conn[c].status = "OPEN" /\ conn[c].peer = q) ~>
            (q \in reached \/ c \in asked)

=============================================================================
