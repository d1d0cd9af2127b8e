------------------------------- MODULE Wakeup -------------------------------
(***************************************************************************)
(* Sleeping and waking up around the queues of AppctxQueue.  A consumer    *)
(* that has found nothing for the time DELTA polls once more and then      *)
(* sleeps until its event descriptor is written.  A producer writes the    *)
(* descriptor only if its last message is more than DELTA old, because     *)
(* otherwise the consumer is known to be polling.  Nothing else tells the  *)
(* producer whether the consumer sleeps.                                   *)
(*                                                                         *)
(* The module composes the queue with both sides' clocks for three kinds   *)
(* of queues:                                                              *)
(*   kout  slow path to application: the producer reads the clock when it  *)
(*         notifies, the consumer when it asks whether it may wait;        *)
(*   arx   fast path to application: the producer notifies with the time   *)
(*         at which its loop began;                                        *)
(*   atx   application to fast path: the consumer counts from the time at  *)
(*         which its loop began.                                           *)
(***************************************************************************)
EXTENDS AppctxQueue

CONSTANTS
    DELTA,          \* poll_cycle_app, poll_cycle_tas
    MaxLoop,        \* longest time a round of a polling loop takes
    Kinds           \* kinds of queues to look at

ASSUME WakeupAssumption ==
    /\ DELTA \in Nat /\ MaxLoop \in Nat
    /\ Kinds \subseteq {"kout", "arx", "atx"}

VARIABLES
    kind,
    age,            \* how long ago each time stamp was taken, see below
    tonotify,       \* an entry is written, its notification is still due
    evfd,           \* the event descriptor is readable
    pc,             \* consumer: "out" of a poll, in a "poll", after it and
                    \* about to "decide" whether to wait, "asleep"
    flags,          \* CTX_FLAG_* of a context; can_block, second_bar
    found,          \* whether this poll has found an entry
    blind,          \* since the consumer last found an entry, a stamp was
                    \* used that was not taken at the event it stands for
    gap             \* how long before the last poll the consumer had found
                    \* something, or had begun to poll after a wait; None
                    \* after a wait

consv == <<pc, flags, found, gap>>
wvars == <<vars, kind, age, tonotify, consv, evfd, blind>>

\* Only differences of time stamps are compared, and only with DELTA.  The
\* model therefore keeps how old each stamp is, up to an age from which it
\* does not matter:
\*   loop   when the producer's loop began (arx)
\*   last   last_ts of notify_core and of flextcp_flexnic_kick
\*   wrote  when the last entry was written
\*   since  last_inev_ts, last_active_ts
\*   cyc    when the consumer's poll or loop began
\*   quiet  the last poll that has found something, or the first after a wait
Old == MaxLoop + DELTA + 1
Stamps == {"loop", "last", "wrote", "since", "cyc", "quiet"}
None == -1
Least(a, b) == IF a < b THEN a ELSE b

WInit ==
    /\ Init
    /\ kind \in Kinds
    /\ age = [x \in Stamps |-> IF x \in {"last", "since"} THEN Old ELSE 0]
    /\ tonotify = FALSE /\ evfd = FALSE /\ blind = FALSE
    /\ pc = "out" /\ flags = {} /\ found = FALSE /\ gap = None

\* The stamps that are still going to be read.
InUse ==
    {"last"}
    \cup (IF kind = "arx" THEN {"loop"} ELSE {})
    \cup (IF kind = "atx" \/ tonotify THEN {"wrote"} ELSE {})
    \cup (IF kind = "atx" \/ "WANTWAIT" \in flags THEN {"since"} ELSE {})
    \cup (IF pc \in {"poll", "decide"} THEN {"cyc"} ELSE {})
    \cup (IF gap # None THEN {"quiet"} ELSE {})

\* Time passes.  A round of a loop does not take longer than MaxLoop.
tick ==
    /\ kind = "arx" => age["loop"] < MaxLoop
    /\ pc \in {"poll", "decide"} => age["cyc"] < MaxLoop
    /\ age' = [x \in Stamps |->
                  IF x \in InUse THEN Least(age[x] + 1, Old) ELSE 0]
    /\ UNCHANGED <<vars, kind, tonotify, consv, evfd, blind>>

-----------------------------------------------------------------------------
(* The producer.                                                           *)

\* The next round of dataplane_loop.
producer_loop ==
    /\ kind = "arx" /\ ~tonotify
    /\ age' = [age EXCEPT !["loop"] = 0]
    /\ UNCHANGED <<vars, kind, tonotify, consv, evfd, blind>>

\* kout has no count of free entries: its producer looks at the next entry
\* (appif_conn_opened and its kind).
kout_produce ==
    /\ entry[phead] = 0 /\ made < MaxMsgs
    /\ entry' = [entry EXCEPT ![phead] = made + 1]
    /\ phead' = Wrap(phead + 1)
    /\ made' = made + 1
    /\ known' = cleared
    /\ avail' = N - (made + 1 - cleared)
    /\ UNCHANGED <<chead, aqe, got, taken, cleared>>

\* arx_cache_flush writes several entries before it notifies, the others
\* notify for each.
write_entry ==
    /\ kind # "arx" => ~tonotify
    /\ IF kind = "kout" THEN kout_produce ELSE produce
    /\ tonotify' = TRUE
    /\ age' = [age EXCEPT !["wrote"] = 0]
    /\ UNCHANGED <<kind, consv, evfd, blind>>

look_for_space ==
    /\ kind # "kout" /\ probe
    /\ UNCHANGED <<kind, age, tonotify, consv, evfd, blind>>

\* The age of the clock reading that notify_appctx is called with, and that
\* notify_app_core and flextcp_flexnic_kick take themselves.
StampAge == IF kind = "arx" THEN age["loop"] ELSE 0

\* Mutant: the consumer is taken to be awake for too long.
Kick_late == age["last"] - StampAge > DELTA + 1

Kick == age["last"] - StampAge > DELTA

\* notify_core, flextcp_flexnic_kick
notify_core ==
    /\ tonotify
    /\ tonotify' = FALSE
    /\ evfd' = (evfd \/ Kick)
    /\ age' = [age EXCEPT !["last"] = StampAge]
    /\ blind' = (blind \/ age["wrote"] # StampAge)
    /\ UNCHANGED <<vars, kind, consv>>

-----------------------------------------------------------------------------
(* The consumer.                                                           *)

\* flextcp_context_poll; a round of dataplane_loop.  An application may poll
\* again without asking whether it may wait.
poll_begin ==
    /\ pc = "out" \/ (pc = "decide" /\ kind # "atx")
    /\ pc' = "poll" /\ found' = FALSE
    /\ age' = [age EXCEPT !["cyc"] = 0]
    /\ flags' = IF kind = "atx" THEN flags ELSE flags \cup {"POLL_CALLED"}
    /\ UNCHANGED <<vars, kind, tonotify, gap, evfd, blind>>

poll_fetch ==
    /\ pc = "poll" /\ (kind # "atx" => taken = cleared)
    /\ fetch
    /\ found' = TRUE
    /\ UNCHANGED <<kind, age, tonotify, pc, flags, gap, evfd, blind>>

poll_clear ==
    /\ pc = "poll" /\ clear
    /\ UNCHANGED <<kind, age, tonotify, consv, evfd, blind>>

\* The poll ends when there is nothing left to take, or when it has taken as
\* much as was asked for.
poll_end ==
    /\ pc = "poll" /\ taken = cleared
    /\ pc' = "decide"
    /\ \/ /\ found
          /\ flags' = IF kind = "atx" THEN flags ELSE flags \cup {"POLL_EVENTS"}
          /\ gap' = 0 /\ age' = [age EXCEPT !["quiet"] = 0]
          /\ blind' = FALSE
       \/ /\ ~found /\ entry[chead] = 0
          /\ gap' = IF gap = None THEN 0 ELSE Least(age["quiet"], DELTA + 1)
          /\ age' = IF gap = None THEN [age EXCEPT !["quiet"] = 0] ELSE age
          /\ UNCHANGED <<flags, blind>>
    /\ UNCHANGED <<vars, kind, tonotify, found, evfd>>

\* Mutant: a poll before the end of the grace period is good enough.
GraceOver_polled == (flags \ {"WANTWAIT"}) \cup {"LASTWAIT"}

\* Polled once more before the context may wait.
GraceOver == (flags \ {"POLL_CALLED", "WANTWAIT"}) \cup {"LASTWAIT"}

\* flextcp_context_canwait and flextcp_context_wait, which an application may
\* call after a poll or once more.
flextcp_context_canwait ==
    /\ kind # "atx" /\ pc \in {"out", "decide"}
    /\ \/ /\ "POLL_EVENTS" \in flags
          /\ flags' = flags \ {"POLL_EVENTS", "WANTWAIT", "LASTWAIT"}
          /\ pc' = "out" /\ UNCHANGED age
       \/ /\ "POLL_EVENTS" \notin flags /\ "WANTWAIT" \in flags
          /\ flags' = IF age["since"] > DELTA THEN GraceOver ELSE flags
          /\ pc' = "out" /\ UNCHANGED age
       \/ /\ flags \cap {"POLL_EVENTS", "WANTWAIT"} = {}
          /\ "LASTWAIT" \in flags
          /\ pc' = IF "POLL_CALLED" \in flags THEN "asleep" ELSE "out"
          /\ UNCHANGED <<flags, age>>
       \/ /\ flags = {"POLL_CALLED"}
          /\ flags' = flags \cup {"WANTWAIT"}
          /\ age' = [age EXCEPT !["since"] = 0]
          /\ pc' = "out"
    /\ UNCHANGED <<vars, kind, tonotify, found, gap, evfd, blind>>

\* notify_canblock, which takes the time at which the round began.
notify_canblock ==
    /\ kind = "atx" /\ pc = "decide"
    /\ \/ /\ found
          /\ flags' = {} /\ pc' = "out"
          /\ age' = [age EXCEPT !["since"] = age["cyc"]]
          /\ blind' = (blind \/ age["cyc"] > Least(age["wrote"], age["last"]))
       \/ /\ ~found /\ "second_bar" \in flags
          /\ flags' = {} /\ pc' = "asleep"
          /\ age' = [age EXCEPT !["since"] = age["cyc"]]
          /\ UNCHANGED blind
       \/ /\ ~found /\ "second_bar" \notin flags
          /\ flags' = flags \cup
                {IF "can_block" \in flags /\ age["since"] - age["cyc"] > DELTA
                 THEN "second_bar" ELSE "can_block"}
          /\ pc' = "out" /\ UNCHANGED <<age, blind>>
    /\ UNCHANGED <<vars, kind, tonotify, found, gap, evfd>>

\* flextcp_context_waitclear; the end of dataplane_block.
flextcp_context_waitclear ==
    /\ pc = "asleep"
    /\ evfd' = FALSE /\ pc' = "out" /\ gap' = None
    /\ flags' = flags \ {"WANTWAIT", "LASTWAIT", "POLL_CALLED"}
    /\ UNCHANGED <<vars, kind, age, tonotify, found, blind>>

wake == evfd /\ flextcp_context_waitclear

\* The timeout of a wait, when there is one.
wait_timeout == ~evfd /\ flextcp_context_waitclear

consumer ==
    \/ poll_begin \/ poll_fetch \/ poll_clear \/ poll_end
    \/ flextcp_context_canwait \/ notify_canblock \/ wake

WNext ==
    \/ tick
    \/ producer_loop \/ write_entry \/ look_for_space \/ notify_core
    \/ consumer \/ wait_timeout

\* Both sides keep running.  What is sent is up to the application and the
\* network, and a wait need not have a timeout.
WSpec ==
    /\ WInit /\ [][WNext]_wvars
    /\ WF_wvars(notify_core) /\ WF_wvars(look_for_space)
    /\ WF_wvars(poll_begin) /\ WF_wvars(poll_fetch) /\ WF_wvars(poll_clear)
    /\ WF_wvars(poll_end) /\ WF_wvars(notify_canblock) /\ WF_wvars(wake)

-----------------------------------------------------------------------------
WTypeOK ==
    /\ TypeOK
    /\ kind \in Kinds
    /\ tonotify \in BOOLEAN /\ evfd \in BOOLEAN /\ blind \in BOOLEAN
    /\ found \in BOOLEAN
    /\ age \in [Stamps -> 0 .. Old]
    /\ pc \in {"out", "poll", "decide", "asleep"}
    /\ flags \subseteq IF kind = "atx" THEN {"can_block", "second_bar"}
                       ELSE {"POLL_CALLED", "POLL_EVENTS", "WANTWAIT", "LASTWAIT"}
    /\ gap \in {None} \cup 0 .. DELTA + 1

(* A consumer does not sleep while an entry waits for it, unless one side  *)
(* has used a time stamp that was not taken at the very event it stands    *)
(* for: the producer's stamp at the time of its write, the consumer's at   *)
(* the time it found the last entry.                                       *)
WakeupOrBlind ==
    pc = "asleep" /\ entry[chead] # 0 /\ ~evfd /\ ~tonotify => blind

(* An application sleeps only when its last poll has found nothing, more  *)
(* than DELTA after it last found something or began to poll again: what   *)
(* the states of flextcp_context_canwait are for.                          *)
PollGap == pc = "asleep" /\ kind # "atx" => gap > DELTA

\* The consumer has found something in the poll that it is in or has just
\* ended, and has not yet started to count the time again.
Fresh ==
    \/ pc = "poll" /\ found
    \/ IF kind = "atx" THEN pc = "decide" /\ found ELSE "POLL_EVENTS" \in flags

\* It may go to sleep without another poll.
Resolved ==
    IF kind = "atx"
    THEN pc = "asleep" \/ (pc = "decide" /\ ~found /\ "second_bar" \in flags)
    ELSE /\ pc # "poll" /\ {"LASTWAIT", "POLL_CALLED"} \subseteq flags
         /\ "POLL_EVENTS" \notin flags

\* An event of age a lies before the time the consumer counts from; and more
\* than DELTA back once it has counted that far.
Passed(a) ==
    /\ kind = "atx" \/ "WANTWAIT" \in flags => a >= age["since"]
    /\ flags \cap {"LASTWAIT", "second_bar"} # {} \/ pc = "asleep" => a > DELTA

\* A poll clears what it has taken; rounds take no longer than MaxLoop.
Clocks ==
    /\ pc # "poll" => taken = cleared
    /\ kind = "arx" =>
         /\ age["loop"] <= MaxLoop
         /\ tonotify => age["wrote"] <= age["loop"]
    /\ pc \in {"poll", "decide"} =>
         /\ age["cyc"] <= MaxLoop
         /\ kind = "atx" => age["cyc"] <= age["since"]

\* When everything sent was taken, the last notification lies as far back as
\* the consumer has counted, and so will the one that is still due.
LastPassed ==
    got = made /\ ~blind /\ ~Fresh =>
        /\ Passed(age["last"])
        /\ tonotify /\ age["wrote"] = StampAge => Passed(age["wrote"])

\* A consumer that polls no more is signalled for what it has not taken, or
\* will be.
Signalled ==
    Resolved /\ got < made /\ ~blind =>
        evfd \/ (tonotify /\ (age["wrote"] # StampAge \/ Kick))

\* The time an application's polls have found nothing for.
GapKept ==
    kind # "atx" =>
        /\ pc = "asleep" => Resolved
        /\ "POLL_CALLED" \in flags /\ pc # "poll" => gap # None
        /\ flags \cap {"WANTWAIT", "LASTWAIT"} # {} => gap # None
        /\ "POLL_EVENTS" \notin flags =>
             /\ "WANTWAIT" \in flags => age["quiet"] >= age["since"]
             /\ "LASTWAIT" \in flags => age["quiet"] > DELTA
        /\ Resolved => gap > DELTA

(* The inductive invariant: WakeupOrBlind and PollGap hold because of how  *)
(* the ages of the two sides' time stamps compare, long before the         *)
(* consumer goes to sleep.                                                 *)
WakeInv == WTypeOK /\ IInv /\ Clocks /\ LastPassed /\ Signalled /\ GapKept

(* Whatever was sent is taken, also when the consumer sleeps, and a        *)
(* producer that finds the queue full finds space again, unless such a     *)
(* stamp was used.                                                         *)
TakenOrBlind ==
    /\ (got < made) ~> (got = made \/ blind)
    /\ (kind # "kout" /\ avail = 0) ~> (avail # 0 \/ blind)
=============================================================================
