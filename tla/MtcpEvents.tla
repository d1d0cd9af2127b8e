----------------------------- MODULE MtcpEvents -----------------------------
(***************************************************************************)
(* Level triggered events of one mTCP socket, between the stack thread     *)
(* that raises them and the application thread that waits for them.  An    *)
(* event is an entry of one of three queues: the stack's own (mtcp_queue), *)
(* the one it hands over under epoll_lock (usr_queue) and the one of the   *)
(* application (usr_shadow_queue).  The word socket->events has the bit of *)
(* every event that is in a queue, so that it is not entered twice.  Both  *)
(* threads test and change that word, and neither does so under a lock:    *)
(* every change is a load and a store.                                     *)
(***************************************************************************)
EXTENDS Integers, Sequences

CONSTANTS
    QSIZE,          \* size of the event queues (mtcp_epoll_create)
    MAXEVENTS,      \* length of the array passed to mtcp_epoll_wait
    READ,           \* length of the buffer passed to mtcp_read
    MaxArrived,     \* bound: data that arrives
    MaxWrites,      \* bound: writes of the application
    MaxCtl          \* bound: changes of the registration

ASSUME MtcpEventsAssumption ==
    /\ QSIZE \in Nat \ {0} /\ MAXEVENTS \in Nat \ {0} /\ READ \in Nat \ {0}

VARIABLES
    epoll,          \* socket->epoll, the events asked for
    events,         \* socket->events
    mtcp_queue, usr_queue, usr_shadow_queue,
    waiting,        \* ep->waiting
    signalled,      \* epoll_cond has been signalled
    stream,         \* merged_len, CLOSE_WAIT, and whether snd_wnd is 0
    stack,          \* the stack thread
    app,            \* the application thread
    used,           \* how much of the bounds is used up
    raced,          \* two changes of the word have overlapped
    dropped         \* an event found its queue full

eventVars == <<epoll, events, mtcp_queue, usr_queue, usr_shadow_queue, waiting,
               signalled, stream, stack, app, used, raced, dropped>>

queues == <<mtcp_queue, usr_queue, usr_shadow_queue>>

EventsInit ==
    /\ epoll = {} /\ events = {}
    /\ mtcp_queue = <<>> /\ usr_queue = <<>> /\ usr_shadow_queue = <<>>
    /\ waiting = FALSE /\ signalled = FALSE
    /\ stream = [merged_len |-> 0, close_wait |-> FALSE, full |-> FALSE]
    /\ stack = [pc |-> "loop", ev |-> "IN", word |-> {}, over |-> FALSE]
    /\ app = [pc |-> "idle", ev |-> "IN", word |-> {}, over |-> FALSE,
              valid |-> FALSE, got |-> <<>>, then |-> "idle", eof |-> FALSE]
    /\ used = [arrived |-> 0, writes |-> 0, ctl |-> 0]
    /\ raced = FALSE /\ dropped = FALSE

-----------------------------------------------------------------------------
\* The stack thread.  What it has to report, and then RaiseReadEvent or
\* RaiseWriteEvent with AddEpollEvent into its own queue.
raise(e) == stack' = [stack EXCEPT !.pc = "registered", !.ev = e]

payload_arrives ==
    /\ stack.pc = "loop" /\ ~stream.close_wait
    /\ used.arrived < MaxArrived
    /\ stream' = [stream EXCEPT !.merged_len = @ + 1]
    /\ used' = [used EXCEPT !.arrived = @ + 1]
    /\ raise("IN")
    /\ UNCHANGED <<epoll, events, queues, waiting, signalled, app, raced, dropped>>

fin_arrives ==
    /\ stack.pc = "loop" /\ ~stream.close_wait
    /\ stream' = [stream EXCEPT !.close_wait = TRUE]
    /\ raise("IN")
    /\ UNCHANGED <<epoll, events, queues, waiting, signalled, app, used, raced, dropped>>

\* The last part of ProcessACK, under write_lock until the event is raised.
ack_arrives ==
    /\ stack.pc = "loop" /\ stream.full
    /\ stream' = [stream EXCEPT !.full = FALSE]
    /\ raise("OUT")
    /\ UNCHANGED <<epoll, events, queues, waiting, signalled, app, used, raced, dropped>>

stack_goes(pc) == stack' = [stack EXCEPT !.pc = pc]

stack_registered ==
    /\ stack.pc = "registered"
    /\ stack_goes(IF stack.ev \in epoll THEN "test" ELSE "loop")
    /\ UNCHANGED <<epoll, events, queues, waiting, signalled, stream, app, used, raced, dropped>>

stack_test ==
    /\ stack.pc = "test"
    /\ stack_goes(IF stack.ev \in events \/ Len(mtcp_queue) >= QSIZE
                  THEN "loop" ELSE "load")
    /\ dropped' = (dropped \/ (stack.ev \notin events /\ Len(mtcp_queue) >= QSIZE))
    /\ UNCHANGED <<epoll, events, queues, waiting, signalled, stream, app, used, raced>>

stack_load ==
    /\ stack.pc = "load"
    /\ stack' = [stack EXCEPT !.pc = "store", !.word = events \cup {stack.ev},
                              !.over = FALSE]
    /\ UNCHANGED <<epoll, events, queues, waiting, signalled, stream, app, used, raced, dropped>>

stack_store ==
    /\ stack.pc = "store"
    /\ events' = stack.word
    /\ mtcp_queue' = Append(mtcp_queue, stack.ev)
    /\ raced' = (raced \/ stack.over)
    /\ app' = [app EXCEPT !.over = TRUE]
    /\ stack_goes("loop")
    /\ UNCHANGED <<epoll, usr_queue, usr_shadow_queue, waiting, signalled, stream, used, dropped>>

\* epoll_lock is held by mtcp_epoll_wait except while it sleeps.
Locked == app.pc \in {"check", "valid", "clear", "clear_store"}

MoveEvents(n) ==
    /\ usr_queue' = usr_queue \o SubSeq(mtcp_queue, 1, n)
    /\ mtcp_queue' = SubSeq(mtcp_queue, n + 1, Len(mtcp_queue))

FlushEpollEvents ==
    /\ stack.pc = "loop" /\ ~Locked
    /\ \E n \in {IF Len(mtcp_queue) <= QSIZE - Len(usr_queue)
                 THEN Len(mtcp_queue) ELSE QSIZE - Len(usr_queue)} :
           MoveEvents(n)
    /\ signalled' = (\/ signalled
                     \/ waiting /\ (usr_queue' # <<>> \/ usr_shadow_queue # <<>>))
    /\ UNCHANGED <<epoll, events, usr_shadow_queue, waiting, stream, stack, app, used, raced, dropped>>

-----------------------------------------------------------------------------
\* AddEpollEvent of the application thread, into its own queue.
app_adds(e, then) ==
    app' = [app EXCEPT !.pc = "test", !.ev = e, !.then = then]

app_goes(pc) == app' = [app EXCEPT !.pc = pc]

app_test ==
    /\ app.pc = "test"
    /\ app_goes(IF app.ev \in events \/ Len(usr_shadow_queue) >= QSIZE
                THEN app.then ELSE "load")
    /\ dropped' = (dropped \/ (app.ev \notin events /\ Len(usr_shadow_queue) >= QSIZE))
    /\ UNCHANGED <<epoll, events, queues, waiting, signalled, stream, stack, used, raced>>

app_load ==
    /\ app.pc = "load"
    /\ app' = [app EXCEPT !.pc = "store", !.word = events \cup {app.ev}, !.over = FALSE]
    /\ UNCHANGED <<epoll, events, queues, waiting, signalled, stream, stack, used, raced, dropped>>

app_store ==
    /\ app.pc = "store"
    /\ events' = app.word
    /\ usr_shadow_queue' = Append(usr_shadow_queue, app.ev)
    /\ raced' = (raced \/ app.over)
    /\ stack' = [stack EXCEPT !.over = TRUE]
    /\ app_goes(app.then)
    /\ UNCHANGED <<epoll, mtcp_queue, usr_queue, waiting, signalled, stream, used, dropped>>

\* mtcp_epoll_ctl, ADD, MOD and DEL, and RaisePendingStreamEvents.
mtcp_epoll_ctl(asked) ==
    /\ app.pc = "idle" /\ used.ctl < MaxCtl /\ asked # epoll
    /\ epoll' = asked
    /\ used' = [used EXCEPT !.ctl = @ + 1]
    /\ app_goes("pending_in")
    /\ UNCHANGED <<events, queues, waiting, signalled, stream, stack, raced, dropped>>

\* Mutant: data that is there already is not reported.
pending_in_fin ==
    /\ app.pc = "pending_in"
    /\ IF "IN" \in epoll /\ stream.close_wait
       THEN app_adds("IN", "pending_out") ELSE app_goes("pending_out")
    /\ UNCHANGED <<epoll, events, queues, waiting, signalled, stream, stack, used, raced, dropped>>

pending_in ==
    /\ app.pc = "pending_in"
    /\ IF "IN" \in epoll /\ (stream.merged_len > 0 \/ stream.close_wait)
       THEN app_adds("IN", "pending_out") ELSE app_goes("pending_out")
    /\ UNCHANGED <<epoll, events, queues, waiting, signalled, stream, stack, used, raced, dropped>>

pending_out ==
    /\ app.pc = "pending_out"
    /\ IF "OUT" \in epoll /\ ~stream.full
       THEN app_adds("OUT", "idle") ELSE app_goes("idle")
    /\ UNCHANGED <<epoll, events, queues, waiting, signalled, stream, stack, used, raced, dropped>>

-----------------------------------------------------------------------------
\* mtcp_epoll_wait without a time out.
mtcp_epoll_wait ==
    /\ app.pc = "idle" /\ epoll # {}
    /\ app' = [app EXCEPT !.pc = "check", !.got = <<>>]
    /\ UNCHANGED <<epoll, events, queues, waiting, signalled, stream, stack, used, raced, dropped>>

NoEntry == usr_queue = <<>> /\ usr_shadow_queue = <<>>

check ==
    /\ app.pc = "check"
    /\ waiting' = NoEntry
    /\ app_goes(IF NoEntry THEN "sleep" ELSE "valid")
    /\ UNCHANGED <<epoll, events, queues, signalled, stream, stack, used, raced, dropped>>

wake ==
    /\ app.pc = "sleep" /\ signalled
    /\ signalled' = FALSE /\ waiting' = FALSE
    /\ app_goes("check")
    /\ UNCHANGED <<epoll, events, queues, stream, stack, used, raced, dropped>>

\* The next entry, of usr_queue first, is tested, its bit is cleared in any
\* case, and it is removed.
Entry == IF usr_queue # <<>> THEN Head(usr_queue) ELSE Head(usr_shadow_queue)

fetch_valid ==
    /\ app.pc = "valid"
    /\ app' = [app EXCEPT !.pc = "clear", !.ev = Entry, !.over = FALSE,
                          !.valid = Entry \in epoll /\ Entry \in events]
    /\ UNCHANGED <<epoll, events, queues, waiting, signalled, stream, stack, used, raced, dropped>>

fetch_clear ==
    /\ app.pc = "clear"
    /\ app' = [app EXCEPT !.pc = "clear_store", !.word = events \ {app.ev},
                          !.over = app.over /\ ~app.valid]
    /\ UNCHANGED <<epoll, events, queues, waiting, signalled, stream, stack, used, raced, dropped>>

fetched(got, left) ==
    IF left > 0 /\ Len(got) < MAXEVENTS THEN "valid"
    ELSE IF got = <<>> THEN "check" ELSE "handle"

fetch_store ==
    LET got == IF app.valid THEN Append(app.got, app.ev) ELSE app.got
    IN  /\ app.pc = "clear_store"
        /\ events' = app.word
        /\ IF usr_queue # <<>>
           THEN usr_queue' = Tail(usr_queue) /\ UNCHANGED usr_shadow_queue
           ELSE usr_shadow_queue' = Tail(usr_shadow_queue) /\ UNCHANGED usr_queue
        /\ app' = [app EXCEPT !.pc = fetched(got, Len(usr_queue) + Len(usr_shadow_queue) - 1),
                              !.got = got]
        /\ stack' = [stack EXCEPT !.over = TRUE]
        /\ raced' = (raced \/ app.over)
        /\ UNCHANGED <<epoll, mtcp_queue, waiting, signalled, stream, used, dropped>>

-----------------------------------------------------------------------------
\* The application handles what it was given: one read, one write.
handle ==
    /\ app.pc = "handle"
    /\ app' = [app EXCEPT
           !.pc = IF app.got = <<>> THEN "idle"
                  ELSE IF Head(app.got) = "IN" THEN "recv" ELSE "write"]
    /\ UNCHANGED <<epoll, events, queues, waiting, signalled, stream, stack, used, raced, dropped>>

done(a) == [a EXCEPT !.pc = "handle", !.got = Tail(@)]

\* mtcp_recv: the end of the stream and the empty buffer are looked for
\* before the lock is taken.
recv_closed ==
    /\ app.pc = "recv"
    /\ app' = IF stream.close_wait /\ stream.merged_len = 0
              THEN [done(app) EXCEPT !.eof = TRUE]
              ELSE [app EXCEPT !.pc = "recv_data"]
    /\ UNCHANGED <<epoll, events, queues, waiting, signalled, stream, stack, used, raced, dropped>>

recv_again ==
    /\ app.pc = "recv_data" /\ stream.merged_len = 0
    /\ app' = done(app)
    /\ UNCHANGED <<epoll, events, queues, waiting, signalled, stream, stack, used, raced, dropped>>

\* Mutant: the end of the stream is not reported after the last data.
remaining_data(left) == "IN" \in epoll /\ left > 0

remaining(left) == ("IN" \in epoll /\ left > 0) \/ (stream.close_wait /\ left = 0)

mtcp_recv ==
    /\ app.pc = "recv_data" /\ stream.merged_len > 0
    /\ \E left \in {IF stream.merged_len < READ THEN 0 ELSE stream.merged_len - READ} :
           /\ stream' = [stream EXCEPT !.merged_len = left]
           /\ app' = IF remaining(left) /\ epoll # {}
                     THEN [done(app) EXCEPT !.pc = "test", !.ev = "IN", !.then = "handle"]
                     ELSE done(app)
    /\ UNCHANGED <<epoll, events, queues, waiting, signalled, stack, used, raced, dropped>>

\* mtcp_write: the lock is the one ProcessACK holds while it raises the event.
app_write ==
    /\ app.pc = "write"
    /\ ~(stack.pc # "loop" /\ stack.ev = "OUT")
    /\ IF stream.full \/ used.writes = MaxWrites
       THEN app' = done(app) /\ UNCHANGED <<stream, used>>
       ELSE /\ \E full \in BOOLEAN : stream' = [stream EXCEPT !.full = full]
            /\ used' = [used EXCEPT !.writes = @ + 1]
            /\ app' = [done(app) EXCEPT !.pc = "room"]
    /\ UNCHANGED <<epoll, events, queues, waiting, signalled, stack, raced, dropped>>

room ==
    /\ app.pc = "room"
    /\ IF ~stream.full /\ "OUT" \in epoll
       THEN app_adds("OUT", "handle") ELSE app_goes("handle")
    /\ UNCHANGED <<epoll, events, queues, waiting, signalled, stream, stack, used, raced, dropped>>

-----------------------------------------------------------------------------
AppSteps ==
    \/ app_test \/ app_load \/ app_store \/ pending_in \/ pending_out
    \/ mtcp_epoll_wait \/ check \/ wake
    \/ fetch_valid \/ fetch_clear \/ fetch_store
    \/ handle \/ recv_closed \/ recv_again \/ mtcp_recv \/ app_write \/ room

StackSteps ==
    \/ stack_registered \/ stack_test \/ stack_load \/ stack_store
    \/ FlushEpollEvents \/ ack_arrives

EventsNext ==
    \/ AppSteps
    \/ StackSteps
    \/ payload_arrives \/ fin_arrives
    \/ \E asked \in SUBSET {"IN", "OUT"} : mtcp_epoll_ctl(asked)

EventsSpec == EventsInit /\ [][EventsNext]_eventVars

EventsFairSpec ==
    EventsSpec /\ WF_eventVars(AppSteps) /\ WF_eventVars(StackSteps)

-----------------------------------------------------------------------------
\* What a level triggered event stands for.
Readable ==
    /\ "IN" \in epoll
    /\ stream.merged_len > 0 \/ (stream.close_wait /\ ~app.eof)

Writable == "OUT" \in epoll /\ ~stream.full /\ used.writes < MaxWrites

\* An event is on its way to a sleeping application.
Coming(e) ==
    \/ stack.pc # "loop" /\ stack.ev = e
    \/ e \in events /\ \E i \in DOMAIN mtcp_queue : mtcp_queue[i] = e

(* An application does not sleep in mtcp_epoll_wait over something it has  *)
(* asked for: if there is data or the end of the stream to read, or room   *)
(* to write, the stack is raising the event or has a valid entry for it in *)
(* its queue, and no entry waits in the queues that the application reads. *)
(* So it is with every order of registration, arrival, reading, writing    *)
(* and flushing, unless two changes of socket->events have overlapped or a *)
(* queue was full.                                                         *)
EventKept ==
    app.pc = "sleep" /\ ~signalled /\ ~raced /\ ~dropped =>
        /\ usr_queue = <<>> /\ usr_shadow_queue = <<>>
        /\ Readable => Coming("IN")
        /\ Writable => Coming("OUT")

(* The same without the exception for changes of socket->events that       *)
(* overlap: "if there are pending events, wake up user".                   *)
EventNotLost ==
    app.pc = "sleep" /\ ~signalled /\ ~dropped /\ Readable => Coming("IN")

(* What has arrived is read, with the same exceptions.                     *)
Heard == Readable ~> (~Readable \/ raced \/ dropped)

-----------------------------------------------------------------------------
(***************************************************************************)
(* The inductive form of EventKept.                                        *)
(***************************************************************************)
Ev == {"IN", "OUT"}

Streams == [merged_len : Nat, close_wait : BOOLEAN, full : BOOLEAN]

Stacks == [pc : {"loop", "registered", "test", "load", "store"}, ev : Ev,
           word : SUBSET Ev, over : BOOLEAN]

Apps == [pc : {"idle", "test", "load", "store", "pending_in", "pending_out",
               "check", "sleep", "valid", "clear", "clear_store", "handle",
               "recv", "recv_data", "write", "room"},
         ev : Ev, word : SUBSET Ev, over : BOOLEAN, valid : BOOLEAN,
         got : Seq(Ev), then : {"idle", "pending_out", "handle"}, eof : BOOLEAN]

EventsTypeOK ==
    /\ epoll \in SUBSET Ev /\ events \in SUBSET Ev
    /\ mtcp_queue \in Seq(Ev) /\ usr_queue \in Seq(Ev) /\ usr_shadow_queue \in Seq(Ev)
    /\ Len(usr_queue) <= QSIZE
    /\ waiting \in BOOLEAN /\ signalled \in BOOLEAN
    /\ stream \in Streams /\ stack \in Stacks /\ app \in Apps
    /\ used \in [arrived : Nat, writes : Nat, ctl : Nat]
    /\ raced \in BOOLEAN /\ dropped \in BOOLEAN

Within(e, q) == \E i \in DOMAIN q : q[i] = e

\* A word that was loaded and not overtaken is the word to be stored.
WordsExact ==
    /\ stack.pc = "store" /\ ~stack.over => stack.word = events \cup {stack.ev}
    /\ app.pc = "store" /\ ~app.over => app.word = events \cup {app.ev}
    /\ app.pc = "clear_store" /\ ~app.over => app.word = events \ {app.ev}
    /\ app.pc \in {"clear", "clear_store"} /\ ~app.over /\ ~app.valid =>
           app.ev \notin events \/ app.ev \notin epoll

\* Where the application is in mtcp_epoll_wait and in what it was given.
AppPlace ==
    /\ waiting => app.pc = "sleep"
    /\ app.pc = "sleep" => waiting /\ (signalled \/ NoEntry)
    /\ \/ app.pc \in {"idle", "pending_in", "pending_out", "check", "sleep"}
       \/ app.pc \in {"test", "load", "store"} /\ app.then # "handle"
       => app.got = <<>>
    /\ app.pc = "valid" => ~NoEntry
    /\ app.pc \in {"clear", "clear_store"} => ~NoEntry /\ app.ev = Entry
    /\ app.pc \in {"recv", "recv_data"} => app.got # <<>> /\ Head(app.got) = "IN"
    /\ app.pc = "write" => app.got # <<>> /\ Head(app.got) = "OUT"
    /\ app.eof => stream.close_wait /\ stream.merged_len = 0

\* A bit that is set has its entry.
BitHasEntry ==
    ~raced => \A e \in events :
        \/ Within(e, mtcp_queue) \/ Within(e, usr_queue) \/ Within(e, usr_shadow_queue)

\* The event is about to be raised or handled by the application itself.
Handling(e) ==
    \/ app.pc = "pending_in"
    \/ app.pc \in {"test", "load", "store"} /\ app.ev = e
    \/ app.pc \in {"clear", "clear_store"} /\ app.ev = e /\ app.valid

ToRead ==
    IF app.pc = "recv_data" /\ stream.merged_len = 0 THEN Tail(app.got) ELSE app.got

ToWrite ==
    \/ app.pc \in {"pending_out", "room"}
    \/ app.pc \in {"test", "load", "store"} /\ app.then = "pending_out"
    \/ Within("OUT", app.got)

Raising(e) == stack.pc # "loop" /\ stack.ev = e

ReadKept ==
    ~raced /\ ~dropped /\ Readable =>
        Raising("IN") \/ "IN" \in events \/ Handling("IN") \/ Within("IN", ToRead)

WriteKept ==
    ~raced /\ ~dropped /\ Writable =>
        Raising("OUT") \/ "OUT" \in events \/ Handling("OUT") \/ ToWrite

EventsInv ==
    /\ EventsTypeOK /\ WordsExact /\ AppPlace /\ BitHasEntry
    /\ ReadKept /\ WriteKept
=============================================================================
