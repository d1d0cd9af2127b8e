-------------------------- MODULE MtcpEventsProofs --------------------------
(***************************************************************************)
(* No event is lost between mTCP's two threads, for every size of their    *)
(* queues.  The invariant follows an event from the moment it is due: the  *)
(* stack is raising it, or its bit is set and has an entry, or the         *)
(* application is raising it or has been given it.                         *)
(***************************************************************************)
EXTENDS MtcpEvents, TLAPS

(* The two events.                                                         *)
LEMMA EvMembers == "IN" \in Ev /\ "OUT" \in Ev
    BY DEF Ev

(* What a queue of events has in it after an entry is added,               *)
LEMMA WithinAppend ==
    ASSUME NEW q \in Seq(Ev), NEW e \in Ev
    PROVE  /\ Within(e, Append(q, e))
           /\ \A f \in Ev : Within(f, q) => Within(f, Append(q, e))
<1>1. DOMAIN Append(q, e) = 1 .. Len(q) + 1 /\ DOMAIN q = 1 .. Len(q)
    OBVIOUS
<1>2. Append(q, e)[Len(q) + 1] = e /\ Len(q) \in Nat
    OBVIOUS
<1>3. \A i \in 1 .. Len(q) : Append(q, e)[i] = q[i]
    OBVIOUS
<1> QED
    BY <1>1, <1>2, <1>3 DEF Within

(* after the first one is taken away,                                      *)
LEMMA WithinTail ==
    ASSUME NEW q \in Seq(Ev), q # <<>>
    PROVE  /\ Head(q) \in Ev /\ Tail(q) \in Seq(Ev) /\ Len(Tail(q)) = Len(q) - 1
           /\ \A f \in Ev : Within(f, q) /\ f # Head(q) => Within(f, Tail(q))
<1>1. Head(q) \in Ev /\ Tail(q) \in Seq(Ev) /\ Len(Tail(q)) = Len(q) - 1
    OBVIOUS
<1>2. Head(q) = q[1] /\ DOMAIN q = 1 .. Len(q) /\ DOMAIN Tail(q) = 1 .. Len(q) - 1
    BY <1>1
<1>3. \A i \in 1 .. Len(q) - 1 : Tail(q)[i] = q[i + 1]
    OBVIOUS
<1>4. ASSUME NEW f \in Ev, Within(f, q), f # Head(q) PROVE Within(f, Tail(q))
  <2>1. PICK i \in 1 .. Len(q) : q[i] = f
    BY <1>2, <1>4 DEF Within
  <2>2. i # 1 /\ i - 1 \in 1 .. Len(q) - 1
    BY <1>2, <1>4, <2>1
  <2>3. Tail(q)[i - 1] = f
    BY <1>3, <2>1, <2>2
  <2> QED
    BY <1>2, <2>2, <2>3, Zenon DEF Within
<1> QED
    BY <1>1, <1>4

(* and after the first n of one are moved to the end of another.           *)
LEMMA WithinMove ==
    ASSUME NEW p \in Seq(Ev), NEW q \in Seq(Ev), NEW n \in 0 .. Len(p)
    PROVE  /\ q \o SubSeq(p, 1, n) \in Seq(Ev)
           /\ Len(q \o SubSeq(p, 1, n)) = Len(q) + n
           /\ SubSeq(p, n + 1, Len(p)) \in Seq(Ev)
           /\ \A f \in Ev :
                 /\ Within(f, q) => Within(f, q \o SubSeq(p, 1, n))
                 /\ Within(f, p) => \/ Within(f, q \o SubSeq(p, 1, n))
                                    \/ Within(f, SubSeq(p, n + 1, Len(p)))
<1> DEFINE a == SubSeq(p, 1, n)
           b == SubSeq(p, n + 1, Len(p))
<1>1. a \in Seq(Ev) /\ Len(a) = n /\ \A i \in 1 .. n : a[i] = p[i]
    OBVIOUS
<1>2. /\ b \in Seq(Ev) /\ Len(b) = Len(p) - n
      /\ \A i \in 1 .. Len(p) - n : b[i] = p[i + n]
    OBVIOUS
<1> HIDE DEF a, b
<1>3. /\ q \o a \in Seq(Ev) /\ Len(q \o a) = Len(q) + n
      /\ \A i \in 1 .. Len(q) : (q \o a)[i] = q[i]
      /\ \A i \in 1 .. n : (q \o a)[Len(q) + i] = a[i]
    BY <1>1, SMTT(30)
<1>4. ASSUME NEW f \in Ev, Within(f, q) PROVE Within(f, q \o a)
  <2>1. PICK i \in 1 .. Len(q) : q[i] = f
    BY <1>4 DEF Within
  <2> QED
    BY <1>3, <2>1 DEF Within
<1>5. ASSUME NEW f \in Ev, Within(f, p) PROVE Within(f, q \o a) \/ Within(f, b)
  <2>1. PICK i \in 1 .. Len(p) : p[i] = f
    BY <1>5 DEF Within
  <2>2. CASE i <= n
    <3>1. (q \o a)[Len(q) + i] = f /\ Len(q) + i \in 1 .. Len(q \o a)
      BY <1>1, <1>3, <2>1, <2>2
    <3> QED
      BY <1>3, <3>1 DEF Within
  <2>3. CASE i > n
    <3>1. i - n \in 1 .. Len(b) /\ b[i - n] = f
      BY <1>2, <2>1, <2>3
    <3> QED
      BY <1>2, <3>1 DEF Within
  <2> QED
    BY <2>1, <2>2, <2>3
<1> QED
    BY <1>2, <1>3, <1>4, <1>5 DEF a, b

(* The entry that is fetched is the first one of a queue.                  *)
LEMMA EntryFirst ==
    EventsTypeOK /\ ~NoEntry =>
        /\ Entry \in Ev
        /\ usr_queue # <<>> => Entry = Head(usr_queue)
        /\ usr_queue = <<>> => usr_shadow_queue # <<>> /\ Entry = Head(usr_shadow_queue)
    BY WithinTail DEF EventsTypeOK, NoEntry, Entry

(* FlushEpollEvents moves as many entries as fit.                          *)
LEMMA FlushMoves ==
    EventsTypeOK /\ FlushEpollEvents =>
        \E n \in 0 .. Len(mtcp_queue) : MoveEvents(n) /\ Len(usr_queue) + n <= QSIZE
<1> SUFFICES ASSUME EventsTypeOK, FlushEpollEvents
             PROVE  \E n \in 0 .. Len(mtcp_queue) :
                        MoveEvents(n) /\ Len(usr_queue) + n <= QSIZE
    OBVIOUS
<1> DEFINE m == IF Len(mtcp_queue) <= QSIZE - Len(usr_queue)
                THEN Len(mtcp_queue) ELSE QSIZE - Len(usr_queue)
<1>1. MoveEvents(m)
    BY DEF FlushEpollEvents
<1>2. Len(mtcp_queue) \in Nat /\ Len(usr_queue) \in Nat /\ QSIZE \in Nat
    BY MtcpEventsAssumption DEF EventsTypeOK
<1>3. m \in 0 .. Len(mtcp_queue) /\ Len(usr_queue) + m <= QSIZE
    BY <1>2 DEF EventsTypeOK
<1> QED
    BY <1>1, <1>3

-----------------------------------------------------------------------------
(* Type correctness of the application's steps that raise an event: the    *)
(* thread goes into AddEpollEvent or past it.                              *)
LEMMA AppTyped ==
    ASSUME app \in Apps, NEW e \in Ev, NEW t \in {"idle", "pending_out", "handle"}
    PROVE  /\ app_adds(e, t) => app' \in Apps
           /\ app_goes(t) => app' \in Apps
           /\ app.got # <<>> => done(app) \in Apps
<1>1. app_adds(e, t) => app' \in Apps
    BY ZenonT(60) DEF Apps, app_adds
<1>2. app_goes(t) => app' \in Apps
    BY DEF Apps, app_goes
<1>3. ASSUME app.got # <<>> PROVE done(app) \in Apps
  <2>1. Tail(app.got) \in Seq(Ev)
    BY <1>3, WithinTail DEF Apps
  <2> QED
    BY <2>1, Zenon DEF Apps, done
<1> QED
    BY <1>1, <1>2, <1>3

(* Every step keeps the types of the variables.                            *)
LEMMA TypesKept == EventsTypeOK /\ AppPlace /\ [EventsNext]_eventVars => EventsTypeOK'
<1> SUFFICES ASSUME EventsTypeOK, AppPlace, [EventsNext]_eventVars
             PROVE  EventsTypeOK'
    OBVIOUS
<1> USE MtcpEventsAssumption, EvMembers DEF EventsTypeOK, queues
<1>1. CASE payload_arrives
  <2>1. stack' \in Stacks
    BY <1>1, Zenon DEF payload_arrives, raise, Stacks
  <2>2. stream' \in Streams
    <3>1. stream.merged_len + 1 \in Nat
      BY DEF Streams
    <3> QED
      BY <1>1, <3>1, Zenon DEF payload_arrives, Streams
  <2>3. used' \in [arrived : Nat, writes : Nat, ctl : Nat]
    <3>1. used.arrived + 1 \in Nat
      OBVIOUS
    <3> QED
      BY <1>1, <3>1, SMTT(30) DEF payload_arrives
  <2> QED
    BY <1>1, <2>1, <2>2, <2>3, SMTT(30) DEF payload_arrives
<1>2. CASE fin_arrives
    BY <1>2, Zenon DEF fin_arrives, raise, Stacks, Streams
<1>3. CASE ack_arrives
    BY <1>3, Zenon DEF ack_arrives, raise, Stacks, Streams
<1>4. CASE stack_registered
    BY <1>4, Zenon DEF stack_registered, stack_goes, Stacks
<1>5. CASE stack_test
    BY <1>5, Zenon DEF stack_test, stack_goes, Stacks
<1>6. CASE stack_load
    BY <1>6, Zenon DEF stack_load, Stacks
<1>7. CASE stack_store
  <2>1. stack' \in Stacks /\ stack.word \in SUBSET Ev /\ stack.ev \in Ev
    BY <1>7, Zenon DEF stack_store, stack_goes, Stacks
  <2>2. app' \in Apps
    BY <1>7, Zenon DEF stack_store, Apps
  <2> QED
    BY <1>7, <2>1, <2>2 DEF stack_store, Stacks
<1>8. CASE FlushEpollEvents
  <2>1. PICK n \in 0 .. Len(mtcp_queue) : MoveEvents(n) /\ Len(usr_queue) + n <= QSIZE
    BY <1>8, FlushMoves
  <2>2. mtcp_queue' \in Seq(Ev) /\ usr_queue' \in Seq(Ev) /\ Len(usr_queue') <= QSIZE
    BY <2>1, WithinMove, SMTT(30) DEF MoveEvents
  <2> QED
    BY <1>8, <2>2, SMTT(30) DEF FlushEpollEvents
<1>9. CASE app_test
    BY <1>9, Zenon DEF app_test, app_goes, Apps
<1>10. CASE app_load
    BY <1>10, Zenon DEF app_load, Apps
<1>11. CASE app_store
  <2>1. app' \in Apps /\ app.word \in SUBSET Ev /\ app.ev \in Ev
    BY <1>11, Zenon DEF app_store, app_goes, Apps
  <2>2. stack' \in Stacks
    BY <1>11, Zenon DEF app_store, Stacks
  <2> QED
    BY <1>11, <2>1, <2>2 DEF app_store
<1>12. CASE pending_in
    BY <1>12, AppTyped DEF pending_in
<1>13. CASE pending_out
    BY <1>13, AppTyped DEF pending_out
<1>14. CASE mtcp_epoll_wait
  <2>1. <<>> \in Seq(Ev)
    OBVIOUS
  <2>2. app' \in Apps
    BY <1>14, <2>1, Zenon DEF mtcp_epoll_wait, Apps
  <2> QED
    BY <1>14, <2>2 DEF mtcp_epoll_wait
<1>15. CASE check
  <2>1. app' \in Apps
    BY <1>15, Zenon DEF check, app_goes, Apps
  <2>2. waiting' \in BOOLEAN
    BY <1>15 DEF check, NoEntry
  <2> QED
    BY <1>15, <2>1, <2>2 DEF check
<1>16. CASE wake
    BY <1>16, Zenon DEF wake, app_goes, Apps
<1>17. CASE fetch_valid
  <2>1. Entry \in Ev
    BY <1>17, EntryFirst DEF fetch_valid, AppPlace
  <2>2. app' \in Apps
    BY <1>17, <2>1, Zenon DEF fetch_valid, Apps
  <2> QED
    BY <1>17, <2>2 DEF fetch_valid
<1>18. CASE fetch_clear
    BY <1>18, Zenon DEF fetch_clear, Apps
<1>19. CASE fetch_store
  <2>1. app.word \in SUBSET Ev /\ app.ev \in Ev /\ app.got \in Seq(Ev)
    BY DEF Apps
  <2>2. app' \in Apps
    <3> DEFINE got == IF app.valid THEN Append(app.got, app.ev) ELSE app.got
               pc == fetched(got, Len(usr_queue) + Len(usr_shadow_queue) - 1)
    <3>1. got \in Seq(Ev)
      BY <2>1
    <3>2. pc \in {"valid", "check", "handle"}
      BY DEF fetched
    <3>3. app' = [app EXCEPT !.pc = pc, !.got = got]
      BY <1>19 DEF fetch_store
    <3> HIDE DEF got, pc
    <3> QED
      BY <3>1, <3>2, <3>3, Zenon DEF Apps
  <2>3. stack' \in Stacks
    BY <1>19, Zenon DEF fetch_store, Stacks
  <2>4. ~NoEntry
    BY <1>19 DEF fetch_store, AppPlace
  <2>5. usr_queue' \in Seq(Ev) /\ usr_shadow_queue' \in Seq(Ev) /\ Len(usr_queue') <= QSIZE
    <3>1. CASE usr_queue # <<>>
      <4>1. Tail(usr_queue) \in Seq(Ev) /\ Len(Tail(usr_queue)) = Len(usr_queue) - 1
        BY <3>1, WithinTail
      <4>2. Len(usr_queue) - 1 <= QSIZE
        OBVIOUS
      <4> QED
        BY <1>19, <3>1, <4>1, <4>2, Zenon DEF fetch_store
    <3>2. CASE usr_queue = <<>>
      BY <1>19, <2>4, <3>2, WithinTail, Zenon DEF fetch_store, NoEntry
    <3> QED
      BY <3>1, <3>2
  <2> QED
    BY <1>19, <2>1, <2>2, <2>3, <2>5, SMTT(30) DEF fetch_store
<1>20. CASE handle
    BY <1>20, Zenon DEF handle, Apps
<1>21. CASE recv_closed
  <2>1. done(app) \in Apps
    BY <1>21, AppTyped DEF recv_closed, AppPlace
  <2>2. app' \in Apps
    BY <1>21, <2>1, Zenon DEF recv_closed, Apps
  <2> QED
    BY <1>21, <2>2 DEF recv_closed
<1>22. CASE recv_again
  <2>1. done(app) \in Apps
    BY <1>22, AppTyped DEF recv_again, AppPlace
  <2> QED
    BY <1>22, <2>1 DEF recv_again
<1>23. CASE mtcp_recv
  <2>1. done(app) \in Apps
    BY <1>23, AppTyped DEF mtcp_recv, AppPlace
  <2>2. PICK left \in Nat :
            /\ stream' = [stream EXCEPT !.merged_len = left]
            /\ \/ app' = [done(app) EXCEPT !.pc = "test", !.ev = "IN", !.then = "handle"]
               \/ app' = done(app)
    <3>1. stream.merged_len \in Nat
      BY DEF Streams
    <3>2. (IF stream.merged_len < READ THEN 0 ELSE stream.merged_len - READ) \in Nat
      BY <3>1
    <3> QED
      BY <1>23, <3>2, Zenon DEF mtcp_recv
  <2>3. stream' \in Streams
    BY <2>2, Zenon DEF Streams
  <2>4. [done(app) EXCEPT !.pc = "test", !.ev = "IN", !.then = "handle"] \in Apps
    BY <2>1, Zenon DEF Apps
  <2> QED
    BY <1>23, <2>1, <2>2, <2>3, <2>4 DEF mtcp_recv
<1>24. CASE app_write
  <2>1. done(app) \in Apps
    BY <1>24, AppTyped DEF app_write, AppPlace
  <2>2. app' \in Apps
    <3>1. [done(app) EXCEPT !.pc = "room"] \in Apps
      BY <2>1, Zenon DEF Apps
    <3> QED
      BY <1>24, <2>1, <3>1, Zenon DEF app_write
  <2>3. stream' \in Streams
    BY <1>24, Zenon DEF app_write, Streams
  <2>4. used' \in [arrived : Nat, writes : Nat, ctl : Nat]
    <3>1. used.writes + 1 \in Nat
      OBVIOUS
    <3> QED
      BY <1>24, <3>1, SMTT(30) DEF app_write
  <2> QED
    BY <1>24, <2>2, <2>3, <2>4, SMTT(30) DEF app_write
<1>25. CASE room
    BY <1>25, AppTyped DEF room
<1>26. ASSUME NEW asked \in SUBSET {"IN", "OUT"}, mtcp_epoll_ctl(asked)
       PROVE  EventsTypeOK'
  <2>1. asked \in SUBSET Ev
    BY DEF Ev
  <2>2. app' \in Apps
    BY <1>26, Zenon DEF mtcp_epoll_ctl, app_goes, Apps
  <2>3. used.ctl + 1 \in Nat
    OBVIOUS
  <2>4. used' \in [arrived : Nat, writes : Nat, ctl : Nat]
    BY <1>26, <2>3, SMTT(30) DEF mtcp_epoll_ctl
  <2> QED
    BY <1>26, <2>1, <2>2, <2>4, SMTT(30) DEF mtcp_epoll_ctl
<1>27. CASE UNCHANGED eventVars
    BY <1>27 DEF eventVars
<1> HIDE DEF EventsTypeOK
<1> QED
    BY <1>1, <1>2, <1>3, <1>4, <1>5, <1>6, <1>7, <1>8, <1>9, <1>10, <1>11, <1>12,
       <1>13, <1>14, <1>15, <1>16, <1>17, <1>18, <1>19, <1>20, <1>21, <1>22, <1>23,
       <1>24, <1>25, <1>26, <1>27, SMTT(30)
    DEF EventsNext, AppSteps, StackSteps
(* What AddEpollEvent and the end of a read or a write leave of the        *)
(* application's state.                                                    *)
LEMMA AppFields ==
    ASSUME app \in Apps, NEW e, NEW t
    PROVE  /\ app_adds(e, t) =>
                 /\ app'.pc = "test" /\ app'.ev = e /\ app'.then = t
                 /\ app'.got = app.got /\ app'.eof = app.eof
           /\ /\ done(app).pc = "handle" /\ done(app).got = Tail(app.got)
              /\ done(app).eof = app.eof
    BY Zenon DEF Apps, app_adds, done

(* Where a write leaves the application.                                   *)
LEMMA WriteFields ==
    app \in Apps /\ app_write =>
        /\ app'.got = Tail(app.got) /\ app'.eof = app.eof
        /\ app'.pc = IF stream.full \/ used.writes = MaxWrites THEN "handle" ELSE "room"
<1> SUFFICES ASSUME app \in Apps, app_write
             PROVE  /\ app'.got = Tail(app.got) /\ app'.eof = app.eof
                    /\ app'.pc = IF stream.full \/ used.writes = MaxWrites
                                 THEN "handle" ELSE "room"
    OBVIOUS
<1>1. CASE stream.full \/ used.writes = MaxWrites
    BY <1>1, ZenonT(60) DEF app_write, done, Apps
<1>2. CASE ~(stream.full \/ used.writes = MaxWrites)
  <2>1. app' = [done(app) EXCEPT !.pc = "room"]
    BY <1>2 DEF app_write
  <2> QED
    BY <1>2, <2>1 DEF done, Apps
<1> QED
    BY <1>1, <1>2

(* What the application was given besides the event it has handled.        *)
LEMMA RestKept ==
    ASSUME app \in Apps, app.got # <<>>, NEW e \in Ev, Head(app.got) # e, Within(e, app.got)
    PROVE  Within(e, Tail(app.got))
    BY WithinTail DEF Apps

(* A word that was loaded and not overtaken stays the word to be stored.   *)
LEMMA WordsKept == EventsInv /\ [EventsNext]_eventVars => WordsExact'
<1> SUFFICES ASSUME EventsInv, [EventsNext]_eventVars PROVE WordsExact'
    OBVIOUS
<1>1. CASE payload_arrives
    BY <1>1 DEF payload_arrives, raise, EventsInv, EventsTypeOK, Apps, Stacks,
        WordsExact, queues
<1>2. CASE fin_arrives
    BY <1>2 DEF fin_arrives, raise, EventsInv, EventsTypeOK, Apps, Stacks, WordsExact,
        queues
<1>3. CASE ack_arrives
    BY <1>3 DEF ack_arrives, raise, EventsInv, EventsTypeOK, Apps, Stacks, WordsExact,
        queues
<1>4. CASE stack_registered
    BY <1>4 DEF stack_registered, stack_goes, EventsInv, EventsTypeOK, Apps, Stacks,
        WordsExact, queues
<1>5. CASE stack_test
    BY <1>5 DEF stack_test, stack_goes, EventsInv, EventsTypeOK, Apps, Stacks,
        WordsExact, queues
<1>6. CASE stack_load
    BY <1>6 DEF stack_load, EventsInv, EventsTypeOK, Apps, Stacks, WordsExact, queues
<1>7. CASE stack_store
    BY <1>7 DEF stack_store, stack_goes, EventsInv, EventsTypeOK, Apps, Stacks,
        WordsExact, queues
<1>8. CASE FlushEpollEvents
    BY <1>8, SMTT(30) DEF FlushEpollEvents, MoveEvents, Locked, EventsInv, EventsTypeOK,
        Apps, Stacks, WordsExact, queues
<1>9. CASE app_test
    BY <1>9 DEF app_test, app_goes, EventsInv, EventsTypeOK, Apps, Stacks, WordsExact,
        queues
<1>10. CASE app_load
    BY <1>10 DEF app_load, EventsInv, EventsTypeOK, Apps, Stacks, WordsExact, queues
<1>11. CASE app_store
    BY <1>11 DEF app_store, app_goes, EventsInv, EventsTypeOK, Apps, Stacks, WordsExact,
        queues
<1>12. CASE pending_in
  <2>1. CASE "IN" \in epoll /\ (stream.merged_len > 0 \/ stream.close_wait)
    BY <1>12, <2>1, ZenonT(60) DEF pending_in, app_adds, EventsInv, EventsTypeOK, Apps,
        Stacks, WordsExact, queues
  <2>2. CASE ~("IN" \in epoll /\ (stream.merged_len > 0 \/ stream.close_wait))
    BY <1>12, <2>2 DEF pending_in, app_goes, EventsInv, EventsTypeOK, Apps, Stacks,
        WordsExact, queues
  <2> QED
    BY <2>1, <2>2
<1>13. CASE pending_out
  <2>1. CASE "OUT" \in epoll /\ ~stream.full
    BY <1>13, <2>1, ZenonT(60) DEF pending_out, app_adds, EventsInv, EventsTypeOK, Apps,
        Stacks, WordsExact, queues
  <2>2. CASE ~("OUT" \in epoll /\ ~stream.full)
    BY <1>13, <2>2 DEF pending_out, app_goes, EventsInv, EventsTypeOK, Apps, Stacks,
        WordsExact, queues
  <2> QED
    BY <2>1, <2>2
<1>14. CASE mtcp_epoll_wait
    BY <1>14 DEF mtcp_epoll_wait, EventsInv, EventsTypeOK, Apps, Stacks, WordsExact,
        queues
<1>15. CASE check
    BY <1>15 DEF check, app_goes, EventsInv, EventsTypeOK, Apps, Stacks, WordsExact,
        queues
<1>16. CASE wake
    BY <1>16 DEF wake, app_goes, EventsInv, EventsTypeOK, Apps, Stacks, WordsExact, queues
<1>17. CASE fetch_valid
    BY <1>17, Zenon DEF fetch_valid, EventsInv, EventsTypeOK, Apps, Stacks, WordsExact,
        queues
<1>18. CASE fetch_clear
    BY <1>18 DEF fetch_clear, EventsInv, EventsTypeOK, Apps, Stacks, WordsExact, queues
<1>19. CASE fetch_store
    BY <1>19 DEF fetch_store, fetched, AppPlace, EventsInv, EventsTypeOK, Apps, Stacks,
        WordsExact, queues
<1>20. CASE handle
    BY <1>20 DEF handle, EventsInv, EventsTypeOK, Apps, Stacks, WordsExact, queues
<1>21. CASE recv_closed
    BY <1>21 DEF recv_closed, done, EventsInv, EventsTypeOK, Apps, Stacks, WordsExact,
        queues
<1>22. CASE recv_again
    BY <1>22 DEF recv_again, done, EventsInv, EventsTypeOK, Apps, Stacks, WordsExact,
        queues
<1>23. CASE mtcp_recv
    BY <1>23 DEF mtcp_recv, done, remaining, EventsInv, EventsTypeOK, Apps, Stacks,
        WordsExact, queues
<1>24. CASE app_write
  <2>1. CASE stream.full \/ used.writes = MaxWrites
    BY <1>24, <2>1, ZenonT(60) DEF app_write, done, EventsInv, EventsTypeOK, Apps,
        Stacks, WordsExact, queues
  <2>2. CASE ~(stream.full \/ used.writes = MaxWrites)
    BY <1>24, <2>2, ZenonT(60) DEF app_write, done, EventsInv, EventsTypeOK, Apps,
        Stacks, WordsExact, queues
  <2> QED
    BY <2>1, <2>2
<1>25. CASE room
  <2>1. CASE ~stream.full /\ "OUT" \in epoll
    BY <1>25, <2>1, ZenonT(60) DEF room, app_adds, EventsInv, EventsTypeOK, Apps, Stacks,
        WordsExact, queues
  <2>2. CASE ~(~stream.full /\ "OUT" \in epoll)
    BY <1>25, <2>2 DEF room, app_goes, EventsInv, EventsTypeOK, Apps, Stacks, WordsExact,
        queues
  <2> QED
    BY <2>1, <2>2
<1>26. ASSUME NEW asked \in SUBSET {"IN", "OUT"}, mtcp_epoll_ctl(asked)
       PROVE  WordsExact'
    BY <1>26 DEF mtcp_epoll_ctl, app_goes, EventsInv, EventsTypeOK, Apps, Stacks,
        WordsExact, queues
<1>27. CASE UNCHANGED eventVars
    BY <1>27 DEF eventVars, EventsInv, EventsTypeOK, Apps, Stacks, WordsExact, queues
<1> QED
    BY <1>1, <1>2, <1>3, <1>4, <1>5, <1>6, <1>7, <1>8, <1>9, <1>10, <1>11, <1>12,
       <1>13, <1>14, <1>15, <1>16, <1>17, <1>18, <1>19, <1>20, <1>21, <1>22, <1>23,
       <1>24, <1>25, <1>26, <1>27, Zenon
    DEF EventsNext, AppSteps, StackSteps

(* The application's place agrees with its queues and its buffer.          *)
LEMMA PlaceKept == EventsInv /\ [EventsNext]_eventVars => AppPlace'
<1> SUFFICES ASSUME EventsInv, [EventsNext]_eventVars PROVE AppPlace'
    OBVIOUS
<1>1. CASE payload_arrives
    BY <1>1 DEF payload_arrives, raise, EventsInv, EventsTypeOK, Apps, Streams, AppPlace,
        NoEntry, Entry, queues
<1>2. CASE fin_arrives
    BY <1>2 DEF fin_arrives, raise, EventsInv, EventsTypeOK, Apps, Streams, AppPlace,
        NoEntry, Entry, queues
<1>3. CASE ack_arrives
    BY <1>3 DEF ack_arrives, raise, EventsInv, EventsTypeOK, Apps, Streams, AppPlace,
        NoEntry, Entry, queues
<1>4. CASE stack_registered
    BY <1>4 DEF stack_registered, stack_goes, EventsInv, EventsTypeOK, Apps, Streams,
        AppPlace, NoEntry, Entry, queues
<1>5. CASE stack_test
    BY <1>5 DEF stack_test, stack_goes, EventsInv, EventsTypeOK, Apps, Streams, AppPlace,
        NoEntry, Entry, queues
<1>6. CASE stack_load
    BY <1>6 DEF stack_load, EventsInv, EventsTypeOK, Apps, Streams, AppPlace, NoEntry,
        Entry, queues
<1>7. CASE stack_store
    BY <1>7 DEF stack_store, stack_goes, EventsInv, EventsTypeOK, Apps, Streams,
        AppPlace, NoEntry, Entry, queues
<1>8. CASE FlushEpollEvents
    BY <1>8 DEF FlushEpollEvents, MoveEvents, Locked, EventsInv, EventsTypeOK, Apps,
        Streams, AppPlace, NoEntry, Entry, queues
<1>9. CASE app_test
    BY <1>9, SMTT(30) DEF app_test, app_goes, EventsInv, EventsTypeOK, Apps, Streams,
        AppPlace, NoEntry, Entry, queues
<1>10. CASE app_load
    BY <1>10 DEF app_load, EventsInv, EventsTypeOK, Apps, Streams, AppPlace, NoEntry,
        Entry, queues
<1>11. CASE app_store
    BY <1>11, Zenon DEF app_store, app_goes, EventsInv, EventsTypeOK, Apps, Streams,
        AppPlace, NoEntry, Entry, queues
<1>12. CASE pending_in
  <2>1. CASE "IN" \in epoll /\ (stream.merged_len > 0 \/ stream.close_wait)
    BY <1>12, <2>1, AppFields DEF pending_in, EventsInv, EventsTypeOK, Apps, Streams,
        AppPlace, NoEntry, Entry, queues
  <2>2. CASE ~("IN" \in epoll /\ (stream.merged_len > 0 \/ stream.close_wait))
    BY <1>12, <2>2, SMTT(30) DEF pending_in, app_goes, EventsInv, EventsTypeOK, Apps,
        Streams, AppPlace, NoEntry, Entry, queues
  <2> QED
    BY <2>1, <2>2
<1>13. CASE pending_out
  <2>1. CASE "OUT" \in epoll /\ ~stream.full
    BY <1>13, <2>1, AppFields DEF pending_out, EventsInv, EventsTypeOK, Apps, Streams,
        AppPlace, NoEntry, Entry, queues
  <2>2. CASE ~("OUT" \in epoll /\ ~stream.full)
    BY <1>13, <2>2 DEF pending_out, app_goes, EventsInv, EventsTypeOK, Apps, Streams,
        AppPlace, NoEntry, Entry, queues
  <2> QED
    BY <2>1, <2>2
<1>14. CASE mtcp_epoll_wait
    BY <1>14 DEF mtcp_epoll_wait, EventsInv, EventsTypeOK, Apps, Streams, AppPlace,
        NoEntry, Entry, queues
<1>15. CASE check
    BY <1>15, Zenon DEF check, app_goes, EventsInv, EventsTypeOK, Apps, Streams,
        AppPlace, NoEntry, Entry, queues
<1>16. CASE wake
    BY <1>16 DEF wake, app_goes, EventsInv, EventsTypeOK, Apps, Streams, AppPlace,
        NoEntry, Entry, queues
<1>17. CASE fetch_valid
    BY <1>17 DEF fetch_valid, EventsInv, EventsTypeOK, Apps, Streams, AppPlace, NoEntry,
        Entry, queues
<1>18. CASE fetch_clear
    BY <1>18 DEF fetch_clear, EventsInv, EventsTypeOK, Apps, Streams, AppPlace, NoEntry,
        Entry, queues
<1>19. CASE fetch_store
    BY <1>19, SMTT(30) DEF fetch_store, fetched, EventsInv, EventsTypeOK, Apps, Streams,
        AppPlace, NoEntry, Entry, queues
<1>20. CASE handle
    BY <1>20, WithinTail DEF handle, Ev, EventsInv, EventsTypeOK, Apps, Streams,
        AppPlace, NoEntry, Entry, queues
<1>21. CASE recv_closed
    BY <1>21 DEF recv_closed, done, EventsInv, EventsTypeOK, Apps, Streams, AppPlace,
        NoEntry, Entry, queues
<1>22. CASE recv_again
    BY <1>22 DEF recv_again, done, EventsInv, EventsTypeOK, Apps, Streams, AppPlace,
        NoEntry, Entry, queues
<1>23. CASE mtcp_recv
    BY <1>23 DEF mtcp_recv, done, remaining, EventsInv, EventsTypeOK, Apps, Streams,
        AppPlace, NoEntry, Entry, queues
<1>24. CASE app_write
  <2>1. CASE stream.full \/ used.writes = MaxWrites
    BY <1>24, <2>1, AppFields, WithinTail, EvMembers, Zenon DEF app_write, EventsInv,
        EventsTypeOK, Apps, Streams, AppPlace, NoEntry, Entry, queues
  <2>2. CASE ~(stream.full \/ used.writes = MaxWrites)
    <3>1. app'.pc = "room" /\ app'.eof = app.eof
      BY <1>24, <2>2, WriteFields DEF EventsInv, EventsTypeOK, Apps, Streams, AppPlace,
        NoEntry, Entry, queues
    <3>2. /\ stream'.close_wait = stream.close_wait
          /\ stream'.merged_len = stream.merged_len
      BY <1>24, <2>2, SMTT(30) DEF app_write, EventsInv, EventsTypeOK, Apps, Streams,
        AppPlace, NoEntry, Entry, queues
    <3> QED
      BY <1>24, <2>2, <3>1, <3>2 DEF app_write, EventsInv, EventsTypeOK, Apps, Streams,
        AppPlace, NoEntry, Entry, queues
  <2> QED
    BY <2>1, <2>2
<1>25. CASE room
  <2>1. CASE ~stream.full /\ "OUT" \in epoll
    BY <1>25, <2>1, AppFields DEF room, EventsInv, EventsTypeOK, Apps, Streams, AppPlace,
        NoEntry, Entry, queues
  <2>2. CASE ~(~stream.full /\ "OUT" \in epoll)
    BY <1>25, <2>2, SMTT(30) DEF room, app_goes, EventsInv, EventsTypeOK, Apps, Streams,
        AppPlace, NoEntry, Entry, queues
  <2> QED
    BY <2>1, <2>2
<1>26. ASSUME NEW asked \in SUBSET {"IN", "OUT"}, mtcp_epoll_ctl(asked)
       PROVE  AppPlace'
    BY <1>26 DEF mtcp_epoll_ctl, app_goes, EventsInv, EventsTypeOK, Apps, Streams,
        AppPlace, NoEntry, Entry, queues
<1>27. CASE UNCHANGED eventVars
    BY <1>27 DEF eventVars, EventsInv, EventsTypeOK, Apps, Streams, AppPlace, NoEntry,
        Entry, queues
<1> QED
    BY <1>1, <1>2, <1>3, <1>4, <1>5, <1>6, <1>7, <1>8, <1>9, <1>10, <1>11, <1>12,
       <1>13, <1>14, <1>15, <1>16, <1>17, <1>18, <1>19, <1>20, <1>21, <1>22, <1>23,
       <1>24, <1>25, <1>26, <1>27, Zenon
    DEF EventsNext, AppSteps, StackSteps

(* What there is to read is not forgotten.                                 *)
LEMMA ReadKeptStep == EventsInv /\ [EventsNext]_eventVars => ReadKept'
<1> SUFFICES ASSUME EventsInv, [EventsNext]_eventVars PROVE ReadKept'
    OBVIOUS
<1>1. CASE payload_arrives
    BY <1>1 DEF payload_arrives, raise, EventsInv, EventsTypeOK, Apps, Stacks, Streams,
        WordsExact, AppPlace, ReadKept, Readable, Raising, Handling, ToRead, queues
<1>2. CASE fin_arrives
    BY <1>2 DEF fin_arrives, raise, EventsInv, EventsTypeOK, Apps, Stacks, Streams,
        WordsExact, AppPlace, ReadKept, Readable, Raising, Handling, ToRead, queues
<1>3. CASE ack_arrives
    BY <1>3 DEF ack_arrives, raise, EventsInv, EventsTypeOK, Apps, Stacks, Streams,
        WordsExact, AppPlace, ReadKept, Readable, Raising, Handling, ToRead, queues
<1>4. CASE stack_registered
    BY <1>4 DEF stack_registered, stack_goes, EventsInv, EventsTypeOK, Apps, Stacks,
        Streams, WordsExact, AppPlace, ReadKept, Readable, Raising, Handling, ToRead,
        queues
<1>5. CASE stack_test
    BY <1>5, ZenonT(60) DEF stack_test, stack_goes, EventsInv, EventsTypeOK, Apps,
        Stacks, Streams, WordsExact, AppPlace, ReadKept, Readable, Raising, Handling,
        ToRead, queues
<1>6. CASE stack_load
    BY <1>6 DEF stack_load, EventsInv, EventsTypeOK, Apps, Stacks, Streams, WordsExact,
        AppPlace, ReadKept, Readable, Raising, Handling, ToRead, queues
<1>7. CASE stack_store
    BY <1>7 DEF stack_store, stack_goes, EventsInv, EventsTypeOK, Apps, Stacks, Streams,
        WordsExact, AppPlace, ReadKept, Readable, Raising, Handling, ToRead, queues
<1>8. CASE FlushEpollEvents
    BY <1>8 DEF FlushEpollEvents, MoveEvents, Locked, EventsInv, EventsTypeOK, Apps,
        Stacks, Streams, WordsExact, AppPlace, ReadKept, Readable, Raising, Handling,
        ToRead, queues
<1>9. CASE app_test
    BY <1>9, ZenonT(60) DEF app_test, app_goes, EventsInv, EventsTypeOK, Apps, Stacks,
        Streams, WordsExact, AppPlace, ReadKept, Readable, Raising, Handling, ToRead,
        queues
<1>10. CASE app_load
    BY <1>10 DEF app_load, EventsInv, EventsTypeOK, Apps, Stacks, Streams, WordsExact,
        AppPlace, ReadKept, Readable, Raising, Handling, ToRead, queues
<1>11. CASE app_store
    BY <1>11, SMTT(30) DEF app_store, app_goes, EventsInv, EventsTypeOK, Apps, Stacks,
        Streams, WordsExact, AppPlace, ReadKept, Readable, Raising, Handling, ToRead,
        queues
<1>12. CASE pending_in
  <2>1. CASE "IN" \in epoll /\ (stream.merged_len > 0 \/ stream.close_wait)
    BY <1>12, <2>1, AppFields DEF pending_in, EventsInv, EventsTypeOK, Apps, Stacks,
        Streams, WordsExact, AppPlace, ReadKept, Readable, Raising, Handling, ToRead,
        queues
  <2>2. CASE ~("IN" \in epoll /\ (stream.merged_len > 0 \/ stream.close_wait))
    BY <1>12, <2>2 DEF pending_in, app_goes, EventsInv, EventsTypeOK, Apps, Stacks,
        Streams, WordsExact, AppPlace, ReadKept, Readable, Raising, Handling, ToRead,
        queues
  <2> QED
    BY <2>1, <2>2
<1>13. CASE pending_out
  <2>1. CASE "OUT" \in epoll /\ ~stream.full
    BY <1>13, <2>1, AppFields DEF pending_out, EventsInv, EventsTypeOK, Apps, Stacks,
        Streams, WordsExact, AppPlace, ReadKept, Readable, Raising, Handling, ToRead,
        queues
  <2>2. CASE ~("OUT" \in epoll /\ ~stream.full)
    BY <1>13, <2>2, SMTT(30) DEF pending_out, app_goes, EventsInv, EventsTypeOK, Apps,
        Stacks, Streams, WordsExact, AppPlace, ReadKept, Readable, Raising, Handling,
        ToRead, queues
  <2> QED
    BY <2>1, <2>2, SMTT(30)
<1>14. CASE mtcp_epoll_wait
    BY <1>14 DEF mtcp_epoll_wait, EventsInv, EventsTypeOK, Apps, Stacks, Streams,
        WordsExact, AppPlace, ReadKept, Readable, Raising, Handling, ToRead, queues
<1>15. CASE check
    BY <1>15 DEF check, app_goes, EventsInv, EventsTypeOK, Apps, Stacks, Streams,
        WordsExact, AppPlace, ReadKept, Readable, Raising, Handling, ToRead, queues
<1>16. CASE wake
    BY <1>16 DEF wake, app_goes, EventsInv, EventsTypeOK, Apps, Stacks, Streams,
        WordsExact, AppPlace, ReadKept, Readable, Raising, Handling, ToRead, queues
<1>17. CASE fetch_valid
    BY <1>17 DEF fetch_valid, EventsInv, EventsTypeOK, Apps, Stacks, Streams, WordsExact,
        AppPlace, ReadKept, Readable, Raising, Handling, ToRead, queues
<1>18. CASE fetch_clear
    BY <1>18, SMTT(30) DEF fetch_clear, EventsInv, EventsTypeOK, Apps, Stacks, Streams,
        WordsExact, AppPlace, ReadKept, Readable, Raising, Handling, ToRead, queues
<1>19. CASE fetch_store
  <2> SUFFICES ASSUME ~raced', ~dropped', Readable'
               PROVE  Raising("IN")' \/ "IN" \in events' \/ Within("IN", ToRead')
    BY DEF EventsInv, EventsTypeOK, Apps, Stacks, Streams, WordsExact, AppPlace, ReadKept, Readable, Raising, Handling, ToRead, queues
  <2>1. events' = events \ {app.ev} /\ ~raced /\ ~dropped /\ ~app.over
    BY <1>19 DEF fetch_store, EventsInv, EventsTypeOK, Apps, Stacks, Streams, WordsExact,
        AppPlace, ReadKept, Readable, Raising, Handling, ToRead, queues
  <2>2. Readable
    BY <1>19 DEF fetch_store, EventsInv, EventsTypeOK, Apps, Stacks, Streams, WordsExact,
        AppPlace, ReadKept, Readable, Raising, Handling, ToRead, queues
  <2>3. app'.pc # "recv_data"
    BY <1>19 DEF fetch_store, fetched, EventsInv, EventsTypeOK, Apps, Stacks, Streams,
        WordsExact, AppPlace, ReadKept, Readable, Raising, Handling, ToRead, queues
  <2>4. /\ app.valid => app'.got = Append(app.got, app.ev)
        /\ ~app.valid => app'.got = app.got
    BY <1>19 DEF fetch_store, EventsInv, EventsTypeOK, Apps, Stacks, Streams, WordsExact,
        AppPlace, ReadKept, Readable, Raising, Handling, ToRead, queues
  <2>5. ToRead' = app'.got
    BY <2>3 DEF EventsInv, EventsTypeOK, Apps, Stacks, Streams, WordsExact, AppPlace,
        ReadKept, Readable, Raising, Handling, ToRead, queues
  <2>6. ToRead = app.got
    BY <1>19 DEF fetch_store, EventsInv, EventsTypeOK, Apps, Stacks, Streams, WordsExact,
        AppPlace, ReadKept, Readable, Raising, Handling, ToRead, queues
  <2>7. app.got \in Seq(Ev) /\ app.ev \in Ev /\ app.valid \in BOOLEAN
    BY DEF EventsInv, EventsTypeOK, Apps, Stacks, Streams, WordsExact, AppPlace, ReadKept, Readable, Raising, Handling, ToRead, queues
  <2>8. CASE Within("IN", app.got)
    <3>1. Within("IN", Append(app.got, app.ev))
      BY <2>7, <2>8, WithinAppend, EvMembers, SMTT(30) DEF EventsInv, EventsTypeOK, Apps,
        Stacks, Streams, WordsExact, AppPlace, ReadKept, Readable, Raising, Handling,
        ToRead, queues
    <3>2. Within("IN", app'.got)
      BY <2>4, <2>7, <2>8, <3>1, Zenon
    <3> QED
      BY <2>5, <3>2
  <2>9. CASE app.valid /\ app.ev = "IN"
    <3>1. Within("IN", Append(app.got, app.ev))
      BY <2>7, <2>9, WithinAppend DEF EventsInv, EventsTypeOK, Apps, Stacks, Streams,
        WordsExact, AppPlace, ReadKept, Readable, Raising, Handling, ToRead, queues
    <3>2. Within("IN", app'.got)
      BY <2>4, <2>9, <3>1, Zenon
    <3> QED
      BY <2>5, <3>2
  <2>10. CASE ~Within("IN", app.got) /\ ~(app.valid /\ app.ev = "IN")
    <3>1. app.pc = "clear_store" /\ stack' = [stack EXCEPT !.over = TRUE] /\ epoll' = epoll
      BY <1>19 DEF fetch_store, EventsInv, EventsTypeOK, Apps, Stacks, Streams, WordsExact,
        AppPlace, ReadKept, Readable, Raising, Handling, ToRead, queues
    <3>2. Raising("IN") \/ "IN" \in events
      BY <2>1, <2>2, <2>6, <2>10, <3>1 DEF EventsInv, EventsTypeOK, Apps, Stacks,
          Streams, WordsExact, AppPlace, ReadKept, Handling, Raising, Readable, ToRead, queues
    <3>3. "IN" \in events => "IN" \in events'
      BY <2>1, <2>2, <2>10, <3>1 DEF EventsInv, EventsTypeOK, Apps, Stacks,
          Streams, WordsExact, AppPlace, ReadKept, Handling, Raising, Readable, ToRead, queues
    <3>4. Raising("IN") => Raising("IN")'
      BY <3>1 DEF EventsInv, EventsTypeOK, Apps, Stacks, Streams, WordsExact, AppPlace,
        ReadKept, Readable, Raising, Handling, ToRead, queues
    <3> QED
      BY <3>2, <3>3, <3>4
  <2> QED
    BY <2>8, <2>9, <2>10, SMTT(30)
<1>20. CASE handle
    BY <1>20, WithinTail DEF handle, Ev, EventsInv, EventsTypeOK, Apps, Stacks, Streams,
        WordsExact, AppPlace, ReadKept, Readable, Raising, Handling, ToRead, queues
<1>21. CASE recv_closed
    BY <1>21, AppFields, WithinTail, EvMembers, SMTT(30) DEF recv_closed, EventsInv,
        EventsTypeOK, Apps, Stacks, Streams, WordsExact, AppPlace, ReadKept,
        Readable, Raising, Handling, ToRead, queues
<1>22. CASE recv_again
  <2>1. app'.pc = "handle" /\ app'.got = Tail(app.got) /\ app'.eof = app.eof
    BY <1>22, AppFields, Zenon DEF recv_again, EventsInv, EventsTypeOK, Apps, Stacks,
        Streams, WordsExact, AppPlace, ReadKept, Readable, Raising, Handling, ToRead,
        queues
  <2>2. ToRead' = ToRead
    BY <1>22, <2>1 DEF recv_again, EventsInv, EventsTypeOK, Apps, Stacks, Streams,
        WordsExact, AppPlace, ReadKept, Readable, Raising, Handling, ToRead, queues
  <2> QED
    BY <1>22, <2>1, <2>2, SMTT(30) DEF recv_again, EventsInv, EventsTypeOK, Apps, Stacks,
        Streams, WordsExact, AppPlace, ReadKept, Readable, Raising, Handling, ToRead,
        queues
<1>23. CASE mtcp_recv
  <2> SUFFICES ASSUME Readable' PROVE Handling("IN")'
    BY DEF EventsInv, EventsTypeOK, Apps, Stacks, Streams, WordsExact, AppPlace, ReadKept, Readable, Raising, Handling, ToRead, queues
  <2>1. PICK left \in Nat :
            /\ stream' = [stream EXCEPT !.merged_len = left]
            /\ app' = IF remaining(left) /\ epoll # {}
                      THEN [done(app) EXCEPT !.pc = "test", !.ev = "IN", !.then = "handle"]
                      ELSE done(app)
    <3>1. stream.merged_len \in Nat /\ READ \in Nat
      BY MtcpEventsAssumption DEF EventsInv, EventsTypeOK, Apps, Stacks, Streams,
        WordsExact, AppPlace, ReadKept, Readable, Raising, Handling, ToRead, queues
    <3>2. (IF stream.merged_len < READ THEN 0 ELSE stream.merged_len - READ) \in Nat
      BY <3>1 DEF EventsInv, EventsTypeOK, Apps, Stacks, Streams, WordsExact, AppPlace,
        ReadKept, Readable, Raising, Handling, ToRead, queues
    <3> QED
      BY <1>23, <3>2, ZenonT(60) DEF mtcp_recv, EventsInv, EventsTypeOK, Apps, Stacks,
        Streams, WordsExact, AppPlace, ReadKept, Readable, Raising, Handling, ToRead,
        queues
  <2>2. stream'.merged_len = left /\ stream'.close_wait = stream.close_wait
    BY <2>1 DEF EventsInv, EventsTypeOK, Apps, Stacks, Streams, WordsExact, AppPlace,
        ReadKept, Readable, Raising, Handling, ToRead, queues
  <2>3. "IN" \in epoll
    BY <1>23 DEF mtcp_recv, EventsInv, EventsTypeOK, Apps, Stacks, Streams, WordsExact,
        AppPlace, ReadKept, Readable, Raising, Handling, ToRead, queues
  <2>4. left > 0 \/ stream.close_wait
    BY <2>2 DEF EventsInv, EventsTypeOK, Apps, Stacks, Streams, WordsExact, AppPlace,
        ReadKept, Readable, Raising, Handling, ToRead, queues
  <2>5. remaining(left) /\ epoll # {}
    BY <2>1, <2>3, <2>4 DEF remaining, EventsInv, EventsTypeOK, Apps, Stacks, Streams,
        WordsExact, AppPlace, ReadKept, Readable, Raising, Handling, ToRead, queues
  <2>6. app'.pc = "test" /\ app'.ev = "IN"
    BY <2>1, <2>5, SMTT(30) DEF done, EventsInv, EventsTypeOK, Apps, Stacks, Streams,
        WordsExact, AppPlace, ReadKept, Readable, Raising, Handling, ToRead, queues
  <2> QED
    BY <2>6 DEF EventsInv, EventsTypeOK, Apps, Stacks, Streams, WordsExact, AppPlace,
        ReadKept, Readable, Raising, Handling, ToRead, queues
<1>24. CASE app_write
  <2>1. CASE stream.full \/ used.writes = MaxWrites
    <3>1. /\ app'.got = Tail(app.got) /\ app'.pc = "handle" /\ app'.eof = app.eof
          /\ stream'.merged_len = stream.merged_len
          /\ stream'.close_wait = stream.close_wait
      BY <1>24, <2>1, WriteFields DEF app_write, EventsInv, EventsTypeOK, Apps, Stacks,
        Streams, WordsExact, AppPlace, ReadKept, Readable, Raising, Handling, ToRead,
        queues
    <3>2. Within("IN", app.got) => Within("IN", Tail(app.got))
      BY <1>24, RestKept, EvMembers DEF app_write, EventsInv, EventsTypeOK, Apps, Stacks,
        Streams, WordsExact, AppPlace, ReadKept, Readable, Raising, Handling, ToRead,
        queues
    <3>3. ToRead = app.got /\ ToRead' = app'.got
      BY <1>24, <3>1 DEF app_write, EventsInv, EventsTypeOK, Apps, Stacks, Streams,
        WordsExact, AppPlace, ReadKept, Readable, Raising, Handling, ToRead, queues
    <3>4. Readable' => Readable
      BY <1>24, <3>1 DEF app_write, EventsInv, EventsTypeOK, Apps, Stacks, Streams,
        WordsExact, AppPlace, ReadKept, Readable, Raising, Handling, ToRead, queues
    <3> QED
      BY <1>24, <3>1, <3>2, <3>3, <3>4 DEF app_write, EventsInv, EventsTypeOK, Apps,
        Stacks, Streams, WordsExact, AppPlace, ReadKept, Readable, Raising, Handling,
        ToRead, queues
  <2>2. CASE ~(stream.full \/ used.writes = MaxWrites)
    <3>1. /\ app'.got = Tail(app.got) /\ app'.pc = "room" /\ app'.eof = app.eof
          /\ stream'.merged_len = stream.merged_len
          /\ stream'.close_wait = stream.close_wait
      BY <1>24, <2>2, WriteFields, SMTT(30) DEF app_write, EventsInv, EventsTypeOK, Apps,
        Stacks, Streams, WordsExact, AppPlace, ReadKept, Readable, Raising, Handling,
        ToRead, queues
    <3>2. Within("IN", app.got) => Within("IN", Tail(app.got))
      BY <1>24, RestKept, EvMembers DEF app_write, EventsInv, EventsTypeOK, Apps, Stacks,
        Streams, WordsExact, AppPlace, ReadKept, Readable, Raising, Handling, ToRead,
        queues
    <3>3. ToRead = app.got /\ ToRead' = app'.got
      BY <1>24, <3>1 DEF app_write, EventsInv, EventsTypeOK, Apps, Stacks, Streams,
        WordsExact, AppPlace, ReadKept, Readable, Raising, Handling, ToRead, queues
    <3>4. Readable' => Readable
      BY <1>24, <3>1, SMTT(30) DEF app_write, EventsInv, EventsTypeOK, Apps, Stacks,
        Streams, WordsExact, AppPlace, ReadKept, Readable, Raising, Handling, ToRead,
        queues
    <3> QED
      BY <1>24, <3>1, <3>2, <3>3, <3>4, SMTT(30) DEF app_write, EventsInv, EventsTypeOK,
        Apps, Stacks, Streams, WordsExact, AppPlace, ReadKept, Readable, Raising,
        Handling, ToRead, queues
  <2> QED
    BY <2>1, <2>2
<1>25. CASE room
  <2>1. CASE ~stream.full /\ "OUT" \in epoll
    BY <1>25, <2>1, AppFields DEF room, EventsInv, EventsTypeOK, Apps, Stacks, Streams,
        WordsExact, AppPlace, ReadKept, Readable, Raising, Handling, ToRead, queues
  <2>2. CASE ~(~stream.full /\ "OUT" \in epoll)
    BY <1>25, <2>2, SMTT(30) DEF room, app_goes, EventsInv, EventsTypeOK, Apps, Stacks,
        Streams, WordsExact, AppPlace, ReadKept, Readable, Raising, Handling, ToRead,
        queues
  <2> QED
    BY <2>1, <2>2, SMTT(30)
<1>26. ASSUME NEW asked \in SUBSET {"IN", "OUT"}, mtcp_epoll_ctl(asked)
       PROVE  ReadKept'
    BY <1>26 DEF mtcp_epoll_ctl, app_goes, EventsInv, EventsTypeOK, Apps, Stacks,
        Streams, WordsExact, AppPlace, ReadKept, Readable, Raising, Handling, ToRead,
        queues
<1>27. CASE UNCHANGED eventVars
    BY <1>27, SMTT(30) DEF eventVars, EventsInv, EventsTypeOK, Apps, Stacks, Streams,
        WordsExact, AppPlace, ReadKept, Readable, Raising, Handling, ToRead, queues
<1> QED
    BY <1>1, <1>2, <1>3, <1>4, <1>5, <1>6, <1>7, <1>8, <1>9, <1>10, <1>11, <1>12,
       <1>13, <1>14, <1>15, <1>16, <1>17, <1>18, <1>19, <1>20, <1>21, <1>22, <1>23,
       <1>24, <1>25, <1>26, <1>27, ZenonT(60)
    DEF EventsNext, AppSteps, StackSteps

(* Nor is the room to write.                                               *)
LEMMA WriteKeptStep == EventsInv /\ [EventsNext]_eventVars => WriteKept'
<1> SUFFICES ASSUME EventsInv, [EventsNext]_eventVars PROVE WriteKept'
    OBVIOUS
<1>1. CASE payload_arrives
    BY <1>1 DEF payload_arrives, raise, EventsInv, EventsTypeOK, Apps, Stacks, Streams,
        WordsExact, AppPlace, WriteKept, Writable, Raising, Handling, ToWrite, queues
<1>2. CASE fin_arrives
    BY <1>2 DEF fin_arrives, raise, EventsInv, EventsTypeOK, Apps, Stacks, Streams,
        WordsExact, AppPlace, WriteKept, Writable, Raising, Handling, ToWrite, queues
<1>3. CASE ack_arrives
    BY <1>3 DEF ack_arrives, raise, EventsInv, EventsTypeOK, Apps, Stacks, Streams,
        WordsExact, AppPlace, WriteKept, Writable, Raising, Handling, ToWrite, queues
<1>4. CASE stack_registered
    BY <1>4 DEF stack_registered, stack_goes, EventsInv, EventsTypeOK, Apps, Stacks,
        Streams, WordsExact, AppPlace, WriteKept, Writable, Raising, Handling,
        ToWrite, queues
<1>5. CASE stack_test
    BY <1>5, ZenonT(60) DEF stack_test, stack_goes, EventsInv, EventsTypeOK, Apps,
        Stacks, Streams, WordsExact, AppPlace, WriteKept, Writable, Raising,
        Handling, ToWrite, queues
<1>6. CASE stack_load
    BY <1>6 DEF stack_load, EventsInv, EventsTypeOK, Apps, Stacks, Streams, WordsExact,
        AppPlace, WriteKept, Writable, Raising, Handling, ToWrite, queues
<1>7. CASE stack_store
    BY <1>7 DEF stack_store, stack_goes, EventsInv, EventsTypeOK, Apps, Stacks, Streams,
        WordsExact, AppPlace, WriteKept, Writable, Raising, Handling, ToWrite, queues
<1>8. CASE FlushEpollEvents
    BY <1>8 DEF FlushEpollEvents, MoveEvents, Locked, EventsInv, EventsTypeOK, Apps,
        Stacks, Streams, WordsExact, AppPlace, WriteKept, Writable, Raising,
        Handling, ToWrite, queues
<1>9. CASE app_test
    BY <1>9, ZenonT(60) DEF app_test, app_goes, EventsInv, EventsTypeOK, Apps, Stacks,
        Streams, WordsExact, AppPlace, WriteKept, Writable, Raising, Handling,
        ToWrite, queues
<1>10. CASE app_load
    BY <1>10 DEF app_load, EventsInv, EventsTypeOK, Apps, Stacks, Streams, WordsExact,
        AppPlace, WriteKept, Writable, Raising, Handling, ToWrite, queues
<1>11. CASE app_store
    BY <1>11 DEF app_store, app_goes, EventsInv, EventsTypeOK, Apps, Stacks, Streams,
        WordsExact, AppPlace, WriteKept, Writable, Raising, Handling, ToWrite, queues
<1>12. CASE pending_in
  <2>1. CASE "IN" \in epoll /\ (stream.merged_len > 0 \/ stream.close_wait)
    BY <1>12, <2>1, AppFields DEF pending_in, EventsInv, EventsTypeOK, Apps, Stacks,
        Streams, WordsExact, AppPlace, WriteKept, Writable, Raising, Handling,
        ToWrite, queues
  <2>2. CASE ~("IN" \in epoll /\ (stream.merged_len > 0 \/ stream.close_wait))
    BY <1>12, <2>2, SMTT(30) DEF pending_in, app_goes, EventsInv, EventsTypeOK, Apps,
        Stacks, Streams, WordsExact, AppPlace, WriteKept, Writable, Raising,
        Handling, ToWrite, queues
  <2> QED
    BY <2>1, <2>2
<1>13. CASE pending_out
  <2>1. CASE "OUT" \in epoll /\ ~stream.full
    BY <1>13, <2>1, AppFields DEF pending_out, EventsInv, EventsTypeOK, Apps, Stacks,
        Streams, WordsExact, AppPlace, WriteKept, Writable, Raising, Handling,
        ToWrite, queues
  <2>2. CASE ~("OUT" \in epoll /\ ~stream.full)
    BY <1>13, <2>2 DEF pending_out, app_goes, EventsInv, EventsTypeOK, Apps, Stacks,
        Streams, WordsExact, AppPlace, WriteKept, Writable, Raising, Handling,
        ToWrite, queues
  <2> QED
    BY <2>1, <2>2, SMTT(30)
<1>14. CASE mtcp_epoll_wait
    BY <1>14 DEF mtcp_epoll_wait, EventsInv, EventsTypeOK, Apps, Stacks, Streams,
        WordsExact, AppPlace, WriteKept, Writable, Raising, Handling, ToWrite, queues
<1>15. CASE check
    BY <1>15 DEF check, app_goes, EventsInv, EventsTypeOK, Apps, Stacks, Streams,
        WordsExact, AppPlace, WriteKept, Writable, Raising, Handling, ToWrite, queues
<1>16. CASE wake
    BY <1>16 DEF wake, app_goes, EventsInv, EventsTypeOK, Apps, Stacks, Streams,
        WordsExact, AppPlace, WriteKept, Writable, Raising, Handling, ToWrite, queues
<1>17. CASE fetch_valid
    BY <1>17 DEF fetch_valid, EventsInv, EventsTypeOK, Apps, Stacks, Streams, WordsExact,
        AppPlace, WriteKept, Writable, Raising, Handling, ToWrite, queues
<1>18. CASE fetch_clear
    BY <1>18 DEF fetch_clear, EventsInv, EventsTypeOK, Apps, Stacks, Streams, WordsExact,
        AppPlace, WriteKept, Writable, Raising, Handling, ToWrite, queues
<1>19. CASE fetch_store
    BY <1>19, WithinAppend, EvMembers, SMTT(30) DEF fetch_store, EventsInv, EventsTypeOK,
        Apps, Stacks, Streams, WordsExact, AppPlace, WriteKept, Writable, Raising,
        Handling, ToWrite, queues
<1>20. CASE handle
    BY <1>20, WithinTail DEF handle, Ev, EventsInv, EventsTypeOK, Apps, Stacks, Streams,
        WordsExact, AppPlace, WriteKept, Writable, Raising, Handling, ToWrite, queues
<1>21. CASE recv_closed
  <2>1. app'.got = Tail(app.got) \/ app'.got = app.got
    BY <1>21, AppFields DEF recv_closed, done, EventsInv, EventsTypeOK, Apps, Stacks,
        Streams, WordsExact, AppPlace, WriteKept, Writable, Raising, Handling,
        ToWrite, queues
  <2>2. Within("OUT", app.got) => Within("OUT", Tail(app.got))
    BY <1>21, RestKept, EvMembers, SMTT(30) DEF recv_closed, EventsInv, EventsTypeOK,
        Apps, Stacks, Streams, WordsExact, AppPlace, WriteKept, Writable, Raising,
        Handling, ToWrite, queues
  <2> QED
    BY <1>21, <2>1, <2>2, ZenonT(60) DEF recv_closed, EventsInv, EventsTypeOK, Apps,
        Stacks, Streams, WordsExact, AppPlace, WriteKept, Writable, Raising,
        Handling, ToWrite, queues
<1>22. CASE recv_again
  <2>1. app'.got = Tail(app.got)
    BY <1>22, AppFields, Zenon DEF recv_again, EventsInv, EventsTypeOK, Apps, Stacks,
        Streams, WordsExact, AppPlace, WriteKept, Writable, Raising, Handling,
        ToWrite, queues
  <2>2. Within("OUT", app.got) => Within("OUT", Tail(app.got))
    BY <1>22, RestKept, EvMembers DEF recv_again, EventsInv, EventsTypeOK, Apps, Stacks,
        Streams, WordsExact, AppPlace, WriteKept, Writable, Raising, Handling,
        ToWrite, queues
  <2> QED
    BY <1>22, <2>1, <2>2 DEF recv_again, EventsInv, EventsTypeOK, Apps, Stacks, Streams,
        WordsExact, AppPlace, WriteKept, Writable, Raising, Handling, ToWrite, queues
<1>23. CASE mtcp_recv
  <2>1. app'.got = Tail(app.got)
    BY <1>23 DEF mtcp_recv, done, EventsInv, EventsTypeOK, Apps, Stacks, Streams,
        WordsExact, AppPlace, WriteKept, Writable, Raising, Handling, ToWrite, queues
  <2>2. Within("OUT", app.got) => Within("OUT", Tail(app.got))
    BY <1>23, RestKept, EvMembers DEF mtcp_recv, EventsInv, EventsTypeOK, Apps, Stacks,
        Streams, WordsExact, AppPlace, WriteKept, Writable, Raising, Handling,
        ToWrite, queues
  <2>3. stream'.full = stream.full
    BY <1>23, SMTT(30) DEF mtcp_recv, EventsInv, EventsTypeOK, Apps, Stacks, Streams,
        WordsExact, AppPlace, WriteKept, Writable, Raising, Handling, ToWrite, queues
  <2> QED
    BY <1>23, <2>1, <2>2, <2>3, ZenonT(60) DEF mtcp_recv, EventsInv, EventsTypeOK, Apps,
        Stacks, Streams, WordsExact, AppPlace, WriteKept, Writable, Raising,
        Handling, ToWrite, queues
<1>24. CASE app_write
  <2>1. CASE stream.full \/ used.writes = MaxWrites
    BY <1>24, <2>1, AppFields, WithinTail, EvMembers, SMTT(30) DEF app_write, EventsInv,
        EventsTypeOK, Apps, Stacks, Streams, WordsExact, AppPlace, WriteKept,
        Writable, Raising, Handling, ToWrite, queues
  <2>2. CASE ~(stream.full \/ used.writes = MaxWrites)
    <3>1. app'.pc = "room"
      BY <1>24, <2>2, WriteFields, SMTT(30) DEF EventsInv, EventsTypeOK, Apps, Stacks,
        Streams, WordsExact, AppPlace, WriteKept, Writable, Raising, Handling,
        ToWrite, queues
    <3> QED
      BY <3>1, SMTT(30) DEF EventsInv, EventsTypeOK, Apps, Stacks, Streams, WordsExact,
        AppPlace, WriteKept, Writable, Raising, Handling, ToWrite, queues
  <2> QED
    BY <2>1, <2>2
<1>25. CASE room
  <2>1. CASE ~stream.full /\ "OUT" \in epoll
    BY <1>25, <2>1, AppFields DEF room, EventsInv, EventsTypeOK, Apps, Stacks, Streams,
        WordsExact, AppPlace, WriteKept, Writable, Raising, Handling, ToWrite, queues
  <2>2. CASE ~(~stream.full /\ "OUT" \in epoll)
    BY <1>25, <2>2 DEF room, app_goes, EventsInv, EventsTypeOK, Apps, Stacks, Streams,
        WordsExact, AppPlace, WriteKept, Writable, Raising, Handling, ToWrite, queues
  <2> QED
    BY <2>1, <2>2, SMTT(30)
<1>26. ASSUME NEW asked \in SUBSET {"IN", "OUT"}, mtcp_epoll_ctl(asked)
       PROVE  WriteKept'
    BY <1>26, SMTT(30) DEF mtcp_epoll_ctl, app_goes, EventsInv, EventsTypeOK, Apps,
        Stacks, Streams, WordsExact, AppPlace, WriteKept, Writable, Raising,
        Handling, ToWrite, queues
<1>27. CASE UNCHANGED eventVars
    BY <1>27 DEF eventVars, EventsInv, EventsTypeOK, Apps, Stacks, Streams, WordsExact,
        AppPlace, WriteKept, Writable, Raising, Handling, ToWrite, queues
<1> QED
    BY <1>1, <1>2, <1>3, <1>4, <1>5, <1>6, <1>7, <1>8, <1>9, <1>10, <1>11, <1>12,
       <1>13, <1>14, <1>15, <1>16, <1>17, <1>18, <1>19, <1>20, <1>21, <1>22, <1>23,
       <1>24, <1>25, <1>26, <1>27, ZenonT(60)
    DEF EventsNext, AppSteps, StackSteps

-----------------------------------------------------------------------------
(* Steps that change neither the queues nor socket->events.                *)
LEMMA BitSame ==
    BitHasEntry /\ UNCHANGED <<events, queues, raced>> => BitHasEntry'
    BY DEF BitHasEntry, Within, queues

(* The events and their queues change in four steps only.                  *)
LEMMA QueuesSame ==
    ASSUME EventsNext, ~stack_store, ~FlushEpollEvents, ~app_store, ~fetch_store
    PROVE  UNCHANGED <<events, queues, raced>>
<1>1. CASE \E asked \in SUBSET {"IN", "OUT"} : mtcp_epoll_ctl(asked)
    BY <1>1 DEF mtcp_epoll_ctl
<1>2. CASE StackSteps \/ payload_arrives \/ fin_arrives
    BY <1>2 DEF StackSteps, payload_arrives, fin_arrives, ack_arrives,
        stack_registered, stack_test, stack_load
<1>3. CASE AppSteps
    BY <1>3 DEF AppSteps, app_test, app_load, pending_in, pending_out,
        mtcp_epoll_wait, check, wake, fetch_valid, fetch_clear, handle,
        recv_closed, recv_again, mtcp_recv, app_write, room
<1> QED
    BY <1>1, <1>2, <1>3 DEF EventsNext

(* A bit that is set keeps its entry: the two are written together, an     *)
(* entry moves to another queue or is taken with its bit.                  *)
LEMMA BitKept == EventsInv /\ [EventsNext]_eventVars => BitHasEntry'
<1> SUFFICES ASSUME EventsInv, [EventsNext]_eventVars, ~raced', NEW e \in events'
             PROVE  \/ Within(e, mtcp_queue') \/ Within(e, usr_queue')
                    \/ Within(e, usr_shadow_queue')
    BY DEF BitHasEntry, Within
<1> DEFINE Has(f) == \/ Within(f, mtcp_queue) \/ Within(f, usr_queue)
                     \/ Within(f, usr_shadow_queue)
<1>1. ~raced => \A f \in events : Has(f)
    BY DEF EventsInv, BitHasEntry
<1>2. /\ mtcp_queue \in Seq(Ev) /\ usr_queue \in Seq(Ev) /\ usr_shadow_queue \in Seq(Ev)
      /\ stack.ev \in Ev /\ app.ev \in Ev /\ events \in SUBSET Ev
    BY DEF EventsInv, EventsTypeOK, Apps, Stacks
<1> HIDE DEF Has
<1>3. CASE stack_store
  <2>1. /\ ~raced /\ ~stack.over /\ mtcp_queue' = Append(mtcp_queue, stack.ev)
        /\ UNCHANGED <<usr_queue, usr_shadow_queue>>
    BY <1>3, Zenon DEF stack_store
  <2>2. e \in events \/ e = stack.ev
    BY <1>3, <2>1 DEF stack_store, EventsInv, WordsExact
  <2>3. CASE e = stack.ev
    BY <1>2, <2>1, <2>3, WithinAppend
  <2>4. CASE e \in events
    <3>1. Has(e) /\ e \in Ev
      BY <1>1, <1>2, <2>1, <2>4
    <3> QED
      BY <1>2, <2>1, <3>1, WithinAppend DEF Has
  <2> QED
    BY <2>2, <2>3, <2>4
<1>4. CASE app_store
  <2>1. /\ ~raced /\ ~app.over /\ usr_shadow_queue' = Append(usr_shadow_queue, app.ev)
        /\ UNCHANGED <<mtcp_queue, usr_queue>>
    BY <1>4, Zenon DEF app_store
  <2>2. e \in events \/ e = app.ev
    BY <1>4, <2>1 DEF app_store, EventsInv, WordsExact
  <2>3. CASE e = app.ev
    BY <1>2, <2>1, <2>3, WithinAppend
  <2>4. CASE e \in events
    <3>1. Has(e) /\ e \in Ev
      BY <1>1, <1>2, <2>1, <2>4
    <3> QED
      BY <1>2, <2>1, <3>1, WithinAppend DEF Has
  <2> QED
    BY <2>2, <2>3, <2>4
<1>5. CASE fetch_store
  <2>1. ~raced /\ ~app.over /\ UNCHANGED mtcp_queue /\ app.pc = "clear_store"
    BY <1>5, Zenon DEF fetch_store
  <2>2. e \in events /\ e # app.ev
    BY <1>5, <2>1 DEF fetch_store, EventsInv, WordsExact
  <2>3. Has(e) /\ e \in Ev
    BY <1>1, <1>2, <2>1, <2>2
  <2>4. ~NoEntry /\ app.ev = Entry
    BY <2>1 DEF EventsInv, AppPlace
  <2>5. CASE usr_queue # <<>>
    <3>1. usr_queue' = Tail(usr_queue) /\ UNCHANGED usr_shadow_queue
      BY <1>5, <2>5 DEF fetch_store
    <3>2. e # Head(usr_queue)
      BY <2>2, <2>4, <2>5, EntryFirst DEF EventsInv
    <3> QED
      BY <1>2, <2>1, <2>3, <2>5, <3>1, <3>2, WithinTail DEF Has
  <2>6. CASE usr_queue = <<>>
    <3>1. usr_shadow_queue' = Tail(usr_shadow_queue) /\ UNCHANGED usr_queue
      BY <1>5, <2>6 DEF fetch_store
    <3>2. usr_shadow_queue # <<>> /\ e # Head(usr_shadow_queue)
      BY <2>2, <2>4, <2>6, EntryFirst DEF EventsInv
    <3> QED
      BY <1>2, <2>1, <2>3, <3>1, <3>2, WithinTail DEF Has
  <2> QED
    BY <2>5, <2>6
<1>6. CASE FlushEpollEvents
  <2>1. ~raced /\ e \in events /\ UNCHANGED usr_shadow_queue
    BY <1>6 DEF FlushEpollEvents
  <2>2. Has(e) /\ e \in Ev
    BY <1>1, <1>2, <2>1
  <2>3. PICK n \in 0 .. Len(mtcp_queue) : MoveEvents(n)
    BY <1>6, FlushMoves DEF EventsInv
  <2> QED
    BY <1>2, <2>1, <2>2, <2>3, WithinMove DEF MoveEvents, Has
<1>7. CASE EventsNext /\ ~stack_store /\ ~FlushEpollEvents /\ ~app_store /\ ~fetch_store
    BY <1>7, QueuesSame, BitSame DEF EventsInv, BitHasEntry
<1>8. CASE UNCHANGED eventVars
    BY <1>8, BitSame DEF EventsInv, BitHasEntry, eventVars
<1> QED
    BY <1>3, <1>4, <1>5, <1>6, <1>7, <1>8

-----------------------------------------------------------------------------
(* The socket's state when it is made.                                     *)
LEMMA EventsInitInv == EventsInit => EventsInv
<1> SUFFICES ASSUME EventsInit PROVE EventsInv
    BY SMTT(30)
<1>1. EventsTypeOK
  <2>1. <<>> \in Seq(Ev) /\ Len(<<>>) = 0 /\ 0 <= QSIZE
    BY MtcpEventsAssumption
  <2> QED
    BY <2>1, EvMembers, Zenon DEF EventsInit, EventsTypeOK, Streams, Stacks, Apps
<1>2. WordsExact /\ AppPlace /\ BitHasEntry /\ ReadKept /\ WriteKept
    BY DEF EventsInit, WordsExact, AppPlace, BitHasEntry, ReadKept, WriteKept,
        Readable, Writable
<1> QED
    BY <1>1, <1>2 DEF EventsInv

(* The inductive invariant of the two threads holds in every reachable     *)
(* state, for every size of the queues, of the array of mtcp_epoll_wait    *)
(* and of the application's reads, and without a bound on what arrives, is *)
(* written or is registered.                                               *)
THEOREM EventsInvariant == EventsSpec => []EventsInv
<1>1. EventsInv /\ [EventsNext]_eventVars => EventsInv'
  <2> SUFFICES ASSUME EventsInv, [EventsNext]_eventVars PROVE EventsInv'
    OBVIOUS
  <2>1. EventsTypeOK'
    BY TypesKept DEF EventsInv
  <2> QED
    BY <2>1, WordsKept, PlaceKept, BitKept, ReadKeptStep, WriteKeptStep DEF EventsInv
<1> QED
    BY <1>1, EventsInitInv, PTL DEF EventsSpec

(* EventKept, the promise of FlushEpollEvents and mtcp_epoll_wait to an    *)
(* application that sleeps: what it has asked for and is there to be had   *)
(* is on its way to it, unless changes of socket->events have overlapped   *)
(* or a queue was full.                                                    *)
THEOREM EventsAreKept == EventsSpec => []EventKept
<1>1. EventsInv => EventKept
  <2> SUFFICES ASSUME EventsInv, app.pc = "sleep", ~signalled, ~raced, ~dropped
               PROVE  /\ usr_queue = <<>> /\ usr_shadow_queue = <<>>
                      /\ Readable => Coming("IN")
                      /\ Writable => Coming("OUT")
    BY DEF EventKept
  <2>1. usr_queue = <<>> /\ usr_shadow_queue = <<>> /\ app.got = <<>>
    BY DEF EventsInv, AppPlace, NoEntry
  <2>2. \A f : ~Within(f, <<>>)
    BY DEF Within
  <2>3. \A f \in events : Coming(f)
    BY <2>1, <2>2 DEF EventsInv, BitHasEntry, Coming, Within
  <2>4. Readable => Coming("IN")
    BY <2>1, <2>2, <2>3 DEF EventsInv, ReadKept, Raising, Handling, ToRead, Coming
  <2>5. Writable => Coming("OUT")
    BY <2>1, <2>2, <2>3 DEF EventsInv, WriteKept, Raising, Handling, ToWrite, Coming
  <2> QED
    BY <2>1, <2>4, <2>5
<1> QED
    BY <1>1, EventsInvariant, PTL
=============================================================================
