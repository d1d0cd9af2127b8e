---------------------------- MODULE WakeupProofs ----------------------------
(***************************************************************************)
(* The queue between fast path and application (AppctxQueue) is correct    *)
(* for every length, batch and probe size, and wake-ups are not lost       *)
(* (Wakeup), for every grace period and every bound on a round of the      *)
(* polling loops.                                                          *)
(***************************************************************************)
EXTENDS Wakeup, TLAPS

-----------------------------------------------------------------------------
(* The queue.                                                              *)

(* Positions wrap once at most: the sums the code forms stay in the queue. *)
LEMMA WrapPos ==
    ASSUME NEW p \in Pos, NEW n \in 0 .. N
    PROVE  /\ Wrap(p + n) \in Pos
           /\ Wrap(p + n) = p + n \/ Wrap(p + n) = p + n - N
    BY AppctxQueueAssumption DEF Pos, Wrap

(* In the initial state of the queue nothing is valid or in use.           *)
LEMMA InitIInv == Init => IInv
    BY AppctxQueueAssumption DEF Init, IInv, TypeOK, Pos, Wrap, Offset

(* produce of the fast path or of libtas: the entry written is behind the  *)
(* last valid one.                                                         *)
LEMMA ProduceIInv == IInv /\ produce => IInv'
<1> SUFFICES ASSUME IInv, produce PROVE IInv'
    OBVIOUS
<1> USE AppctxQueueAssumption
<1>1. TypeOK'
  <2>1. phead' \in Pos
    BY WrapPos DEF IInv, TypeOK, produce, Pos, Wrap
  <2> QED
    BY <2>1 DEF IInv, TypeOK, produce, Pos
<1>2. made - known < N /\ made - cleared < N /\ aqe \in Pos
    BY DEF IInv, TypeOK, produce
<1>3. phead' = Wrap(aqe' + (made' - cleared'))
    BY <1>2 DEF IInv, TypeOK, produce, Pos, Wrap
<1>4. Offset(phead) = made - cleared
    BY <1>2 DEF IInv, TypeOK, Pos, Wrap, Offset
<1>5. \A p \in Pos : entry'[p] =
        (IF Offset(p)' < made' - cleared' THEN cleared' + Offset(p)' + 1 ELSE 0)
  <2> TAKE p \in Pos
  <2>1. Offset(p)' = Offset(p) /\ Offset(p) \in Pos
    BY <1>2 DEF produce, Offset, Pos
  <2>2. CASE p = phead
    BY <1>2, <1>4, <2>1, <2>2 DEF IInv, TypeOK, produce
  <2>3. CASE p # phead
    <3>1. Offset(p) # made - cleared
      <4>1. phead \in Pos
        BY DEF IInv, TypeOK
      <4> QED
        BY <1>2, <1>4, <2>3, <4>1 DEF Offset, Pos
    <3>2. entry'[p] = entry[p]
      BY <2>3 DEF IInv, TypeOK, produce
    <3>3. entry[p] = IF Offset(p) < made - cleared
                     THEN cleared + Offset(p) + 1 ELSE 0
      BY DEF IInv
    <3>4. made' = made + 1 /\ cleared' = cleared /\ made \in Nat /\ cleared \in Nat
      BY DEF IInv, TypeOK, produce
    <3> QED
      BY <2>1, <3>1, <3>2, <3>3, <3>4 DEF Pos
  <2> QED
    BY <2>2, <2>3
<1>6. chead' = Wrap(aqe' + (taken' - cleared'))
    BY DEF IInv, produce, Wrap
<1>7. /\ known' <= cleared' /\ cleared' <= taken' /\ taken' <= made'
      /\ made' <= known' + N /\ taken' - cleared' <= BATCH
      /\ avail' = N - (made' - known') /\ got' = taken'
    BY <1>2 DEF IInv, TypeOK, produce
<1> QED
    BY <1>1, <1>3, <1>5, <1>6, <1>7 DEF IInv

(* probe: the entries it counts as free have all been cleared.             *)
LEMMA ProbeIInv == IInv /\ probe => IInv'
<1> SUFFICES ASSUME IInv, probe PROVE IInv'
    OBVIOUS
<1> USE AppctxQueueAssumption
<1>1. PICK k \in 1 .. ProbeLimit(avail) :
        Free(k) /\ avail' = avail + k /\ known' = known + k
    BY DEF probe
<1>2. k \in Nat /\ k <= N - avail
    BY <1>1 DEF IInv, TypeOK, ProbeLimit
<1>3. known + k <= cleared
  <2> SUFFICES ASSUME cleared < known + k PROVE FALSE
    BY <1>2 DEF IInv, TypeOK
  <2> DEFINE i == cleared - known
  <2>1. i \in 0 .. k - 1
    BY <1>2 DEF IInv, TypeOK
  <2>2. entry[Wrap(phead + avail + i)] = 0
    BY <1>1, <2>1 DEF Free
  <2>3. Wrap(phead + avail + i) = aqe
    BY DEF IInv, TypeOK, Pos, Wrap
  <2>4. aqe \in Pos /\ Offset(aqe) = 0
    BY DEF IInv, TypeOK, Pos, Offset
  <2>5. made = cleared
    BY <2>2, <2>3, <2>4 DEF IInv, TypeOK
  <2> QED
    BY <1>2, <2>5 DEF IInv, TypeOK
<1>4. TypeOK'
    BY <1>1, <1>2 DEF IInv, TypeOK, probe
<1>5. UNCHANGED <<entry, phead, chead, aqe, got, made, taken, cleared>>
    BY DEF probe
<1>6. \A p \in Pos : Offset(p)' = Offset(p)
    BY <1>5 DEF Offset
<1> QED
    BY <1>1, <1>2, <1>3, <1>4, <1>5, <1>6 DEF IInv, TypeOK, Wrap

(* fetch: the next valid entry is the next message, never one of the batch.*)
LEMMA FetchNext ==
    ASSUME IInv, fetch
    PROVE  taken < made /\ entry[chead] = taken + 1
<1> USE AppctxQueueAssumption
<1>1. chead \in Pos /\ taken - cleared \in 0 .. N - 1 /\ aqe \in Pos
    BY DEF IInv, TypeOK, fetch
<1>2. Offset(chead) = taken - cleared
    BY <1>1 DEF IInv, TypeOK, Pos, Wrap, Offset
<1>3. entry[chead] = IF Offset(chead) < made - cleared
                     THEN cleared + Offset(chead) + 1 ELSE 0
    BY <1>1 DEF IInv
<1> QED
    BY <1>1, <1>2, <1>3 DEF IInv, TypeOK, fetch

(* fetch: the consumer moves on and takes no entry it has not cleared.     *)
LEMMA FetchIInv == IInv /\ fetch => IInv'
<1> SUFFICES ASSUME IInv, fetch PROVE IInv'
    OBVIOUS
<1> USE AppctxQueueAssumption
<1>1. taken < made /\ entry[chead] = taken + 1
    BY FetchNext
<1>2. UNCHANGED <<entry, phead, avail, aqe, made, cleared, known>>
    BY DEF fetch
<1>3. got' = taken + 1 /\ taken' = taken + 1 /\ chead' = Wrap(chead + 1)
    BY <1>1 DEF fetch
<1>4. chead' \in Pos /\ chead' = Wrap(aqe + (taken' - cleared))
    BY <1>1, <1>3 DEF IInv, TypeOK, Pos, Wrap, fetch
<1>5. TypeOK'
    BY <1>2, <1>3, <1>4 DEF IInv, TypeOK
<1>6. \A p \in Pos : Offset(p)' = Offset(p)
    BY <1>2 DEF Offset
<1>7. taken' - cleared' <= BATCH
    BY <1>2, <1>3 DEF fetch, IInv, TypeOK
<1> QED
    BY <1>1, <1>2, <1>3, <1>4, <1>5, <1>6, <1>7 DEF IInv, TypeOK, Wrap

(* clear: the run of valid entries loses its first.                        *)
LEMMA ClearIInv == IInv /\ clear => IInv'
<1> SUFFICES ASSUME IInv, clear PROVE IInv'
    OBVIOUS
<1> USE AppctxQueueAssumption
<1>1. UNCHANGED <<phead, avail, chead, got, made, taken, known>>
    BY DEF clear
<1>2. /\ cleared' = cleared + 1 /\ cleared < taken /\ made - cleared <= N
      /\ aqe \in Pos /\ aqe' = Wrap(aqe + 1) /\ aqe' \in Pos
    BY DEF IInv, TypeOK, clear, Wrap, Pos
<1>3. phead = Wrap(aqe' + (made - cleared'))
    BY <1>2 DEF IInv, TypeOK, Pos, Wrap
<1>4. chead = Wrap(aqe' + (taken - cleared'))
    BY <1>2 DEF IInv, TypeOK, Pos, Wrap
<1>5. TypeOK'
    BY <1>1, <1>2, SMTT(30) DEF IInv, TypeOK, clear, Pos
<1>6. \A p \in Pos : entry'[p] =
        (IF Offset(p)' < made' - cleared' THEN cleared' + Offset(p)' + 1 ELSE 0)
  <2> TAKE p \in Pos
  <2>1. CASE p = aqe
    <3>1. entry'[p] = 0
      BY <2>1 DEF IInv, TypeOK, clear
    <3>2. Offset(p)' = N - 1
      BY <1>2, <2>1 DEF Offset, Wrap, Pos
    <3> QED
      BY <1>1, <1>2, <3>1, <3>2 DEF IInv, TypeOK
  <2>2. CASE p # aqe
    <3>1. entry'[p] = entry[p]
      BY <2>2 DEF IInv, TypeOK, clear
    <3>2. Offset(p)' = Offset(p) - 1 /\ Offset(p) \in Pos
      BY <1>2, <2>2 DEF Offset, Wrap, Pos
    <3>3. entry[p] = IF Offset(p) < made - cleared
                     THEN cleared + Offset(p) + 1 ELSE 0
      BY DEF IInv
    <3>4. made' = made /\ made \in Nat /\ cleared \in Nat
      BY <1>1 DEF IInv, TypeOK
    <3> QED
      BY <1>2, <2>2, <3>1, <3>2, <3>3, <3>4 DEF Pos
  <2> QED
    BY <2>1, <2>2
<1>7. /\ known' <= cleared' /\ cleared' <= taken' /\ taken' <= made'
      /\ made' <= known' + N /\ taken' - cleared' <= BATCH
      /\ avail' = N - (made' - known') /\ got' = taken'
    BY <1>1, <1>2 DEF IInv, TypeOK
<1> QED
    BY <1>1, <1>3, <1>4, <1>5, <1>6, <1>7 DEF IInv

(* The invariant holds throughout: no order of producer, consumer and      *)
(* probes breaks the run of valid entries.                                 *)
THEOREM QueueInvariant == Spec => []IInv
<1>1. IInv /\ [Next]_vars => IInv'
  <2> SUFFICES ASSUME IInv, [Next]_vars PROVE IInv'
    OBVIOUS
  <2>1. CASE UNCHANGED vars
    BY <2>1 DEF vars, counts, IInv, TypeOK, Offset, Wrap
  <2> QED
    BY <2>1, ProduceIInv, ProbeIInv, FetchIInv, ClearIInv DEF Next
<1> QED
    BY <1>1, InitIInv, PTL DEF Spec

(* The producer never overwrites an entry that is not cleared: neither     *)
(* arx_cache_flush nor conns_bump destroys a message.                      *)
THEOREM QueueNoOverwrite == Spec => []NoOverwrite
<1>1. IInv => NoOverwrite
  <2> SUFFICES ASSUME IInv, avail # 0 PROVE entry[phead] = 0
    BY DEF NoOverwrite
  <2>1. made - cleared < N /\ aqe \in Pos /\ phead \in Pos /\ cleared <= made
    BY AppctxQueueAssumption DEF IInv, TypeOK
  <2>2. Offset(phead) = made - cleared
    BY <2>1, AppctxQueueAssumption DEF IInv, TypeOK, Pos, Wrap, Offset
  <2> QED
    BY <2>1, <2>2 DEF IInv, TypeOK
<1> QED
    BY <1>1, QueueInvariant, PTL

(* Every message is taken once, in the order in which it was sent.         *)
THEOREM QueueInOrder == Spec => []InOrder
<1>1. IInv => InOrder
    BY DEF IInv, InOrder
<1> QED
    BY <1>1, QueueInvariant, PTL

(* The queue in shared memory implements the abstract bounded FIFO queue.  *)
THEOREM QueueImplementsFifo == Spec => ImplementsFifo
<1>1. Init => Queue!Init
    BY DEF Init, Queue!Init
<1>2. IInv /\ [Next]_vars => [Queue!Next]_(Queue!vars)
  <2> SUFFICES ASSUME IInv, [Next]_vars PROVE [Queue!Next]_(Queue!vars)
    OBVIOUS
  <2>1. CASE UNCHANGED vars
    BY <2>1 DEF vars, counts, Queue!vars
  <2>2. CASE produce
    BY <2>2, AppctxQueueAssumption
       DEF produce, IInv, TypeOK, Queue!Next, Queue!Put
  <2>3. CASE probe
    BY <2>3 DEF probe, Queue!vars
  <2>4. CASE fetch
    <3>1. taken < made /\ entry[chead] = taken + 1
      BY <2>4, FetchNext
    <3> QED
      BY <2>4, <3>1 DEF fetch, IInv, TypeOK, Queue!Next, Queue!Get
  <2>5. CASE clear
    BY <2>5 DEF clear, Queue!vars
  <2> QED
    BY <2>1, <2>2, <2>3, <2>4, <2>5 DEF Next
<1> QED
    BY <1>1, <1>2, QueueInvariant, PTL DEF Spec, ImplementsFifo, Queue!Spec

-----------------------------------------------------------------------------
(* The wake-ups.                                                           *)

(* Steps that leave the queue alone.                                       *)
LEMMA QueueSame == IInv /\ UNCHANGED vars => IInv'
    BY DEF vars, counts, IInv, TypeOK, Offset, Wrap

(* The slow path's queue, which has no count of its own, is a run of       *)
(* consecutive messages as well: an entry that is found empty shows that   *)
(* the queue is not full.                                                  *)
LEMMA KoutIInv == IInv /\ kout_produce => IInv'
<1> SUFFICES ASSUME IInv, kout_produce PROVE IInv'
    OBVIOUS
<1> USE AppctxQueueAssumption
<1>1. /\ entry[phead] = 0
      /\ entry' = [entry EXCEPT ![phead] = made + 1]
      /\ phead' = Wrap(phead + 1) /\ made' = made + 1
      /\ known' = cleared /\ avail' = N - (made + 1 - cleared)
      /\ UNCHANGED <<chead, aqe, got, taken, cleared>>
    BY DEF kout_produce
<1>2. made - cleared < N
  <2> SUFFICES ASSUME made - cleared = N PROVE FALSE
    BY DEF IInv, TypeOK
  <2>1. phead = aqe /\ aqe \in Pos
    BY DEF IInv, TypeOK, Pos, Wrap
  <2>2. Offset(aqe) = 0
    BY <2>1 DEF Offset, Pos
  <2> QED
    BY <1>1, <2>1, <2>2 DEF IInv, TypeOK
<1>3. phead \in Pos /\ phead' \in Pos /\ aqe \in Pos
    BY <1>1 DEF IInv, TypeOK, Pos, Wrap
<1>4. phead' = Wrap(aqe' + (made' - cleared'))
    BY <1>1, <1>2 DEF IInv, TypeOK, Pos, Wrap
<1>5. Offset(phead) = made - cleared
    BY <1>2 DEF IInv, TypeOK, Pos, Wrap, Offset
<1>6. TypeOK'
    BY <1>1, <1>2, <1>3, SMTT(30) DEF IInv, TypeOK, Pos
<1>7. \A p \in Pos : entry'[p] =
        (IF Offset(p)' < made' - cleared' THEN cleared' + Offset(p)' + 1 ELSE 0)
  <2> TAKE p \in Pos
  <2>1. Offset(p)' = Offset(p) /\ Offset(p) \in Pos
    BY <1>1, <1>3 DEF Offset, Pos
  <2>2. CASE p = phead
    BY <1>1, <1>2, <1>5, <2>1, <2>2 DEF IInv, TypeOK
  <2>3. CASE p # phead
    <3>1. Offset(p) # made - cleared
      BY <1>3, <1>5, <2>3 DEF Offset, Pos
    <3>2. entry'[p] = entry[p]
      BY <1>1, <2>3 DEF IInv, TypeOK
    <3>3. entry[p] = IF Offset(p) < made - cleared
                     THEN cleared + Offset(p) + 1 ELSE 0
      BY DEF IInv
    <3>4. made' = made + 1 /\ cleared' = cleared /\ made \in Nat /\ cleared \in Nat
      BY <1>1 DEF IInv, TypeOK
    <3> QED
      BY <2>1, <3>1, <3>2, <3>3, <3>4 DEF Pos
  <2> QED
    BY <2>2, <2>3
<1>8. chead' = Wrap(aqe' + (taken' - cleared'))
    BY <1>1 DEF IInv, Wrap
<1>9. /\ known' <= cleared' /\ cleared' <= taken' /\ taken' <= made'
      /\ made' <= known' + N /\ taken' - cleared' <= BATCH
      /\ avail' = N - (made' - known') /\ got' = taken'
    BY <1>1, <1>2 DEF IInv, TypeOK
<1> QED
    BY <1>1, <1>4, <1>6, <1>7, <1>8, <1>9 DEF IInv

(* A poll that ends because the next entry is empty has left nothing.      *)
LEMMA NothingLeft ==
    ASSUME IInv, taken = cleared, entry[chead] = 0
    PROVE  got = made
<1> USE AppctxQueueAssumption
<1>1. chead = aqe /\ aqe \in Pos
    BY DEF IInv, TypeOK, Pos, Wrap
<1>2. Offset(aqe) = 0
    BY <1>1 DEF Offset, Pos
<1> QED
    BY <1>1, <1>2 DEF IInv, TypeOK

(* A valid entry at the consumer's position was not taken yet.             *)
LEMMA NothingTaken ==
    ASSUME IInv, entry[chead] # 0, taken - cleared < N
    PROVE  got < made
<1> USE AppctxQueueAssumption
<1>1. chead \in Pos /\ taken - cleared \in 0 .. N - 1 /\ aqe \in Pos
    BY DEF IInv, TypeOK
<1>2. Offset(chead) = taken - cleared
    BY <1>1 DEF IInv, TypeOK, Pos, Wrap, Offset
<1> QED
    BY <1>1, <1>2 DEF IInv, TypeOK

(* What the queue's counts look like to the rest of the model.             *)
LEMMA Counts == IInv => got \in Nat /\ made \in Nat /\ got <= made /\ TypeOK
    BY DEF IInv, TypeOK

(* What every step may use of the invariant.                               *)
LEMMA Types ==
    ASSUME WakeInv
    PROVE  /\ Old \in Nat /\ DELTA \in Nat /\ MaxLoop \in Nat
           /\ MaxLoop < Old /\ DELTA < Old /\ Old - MaxLoop > DELTA
           /\ \A x \in Stamps : age[x] \in 0 .. Old
           /\ age \in [Stamps -> 0 .. Old]
           /\ "loop" \in Stamps /\ "last" \in Stamps /\ "wrote" \in Stamps
           /\ "since" \in Stamps /\ "cyc" \in Stamps /\ "quiet" \in Stamps
           /\ got \in Nat /\ made \in Nat /\ got <= made
           /\ gap \in {None} \cup 0 .. DELTA + 1
           /\ kind \in {"kout", "arx", "atx"}
           /\ pc \in {"out", "poll", "decide", "asleep"}
    BY Counts, WakeupAssumption DEF WakeInv, WTypeOK, Old, Stamps

(* Time passes: the ages in use keep their order and their differences.    *)
LEMMA TickInv ==
    ASSUME WakeInv, tick
    PROVE  WakeInv'
<1> USE Types
<1>1. /\ kind = "arx" => age["loop"] < MaxLoop
      /\ pc \in {"poll", "decide"} => age["cyc"] < MaxLoop
      /\ age' = [x \in Stamps |->
                  IF x \in InUse THEN Least(age[x] + 1, Old) ELSE 0]
      /\ UNCHANGED <<entry, phead, avail, chead, aqe, got, made, taken, cleared, known>>
      /\ UNCHANGED <<kind, tonotify, pc, flags, found, gap, evfd, blind>>
    BY DEF tick, vars, counts, consv
<1>2. IInv' /\ TypeOK'
  <2>1. IInv'
    BY QueueSame DEF WakeInv, tick
  <2> QED BY <2>1 DEF IInv
<1>3. \A x \in Stamps : /\ age'[x] \in 0 .. Old
                        /\ x \in InUse => age'[x] = age[x] + 1 \/ (age'[x] = Old /\ age[x] = Old)
    BY <1>1 DEF Least
<1>4. WTypeOK'
    BY <1>1, <1>2, <1>3 DEF WTypeOK, WakeInv
<1>5. Clocks'
    BY <1>1, <1>3, SMTT(30) DEF Clocks, WakeInv, InUse
<1>6. LastPassed'
    BY <1>1, <1>3 DEF LastPassed, Clocks, WakeInv, InUse, Passed, Fresh, StampAge
<1>7. Signalled'
    BY <1>1, <1>3 DEF Signalled, Clocks, WakeInv, InUse, Resolved, Kick, StampAge
<1>8. GapKept'
    BY <1>1, <1>3 DEF GapKept, WakeInv, InUse, Resolved
<1> QED
    BY <1>2, <1>4, <1>5, <1>6, <1>7, <1>8 DEF WakeInv

(* The producer's loop begins again only when nothing is to be notified.   *)
LEMMA LoopInv ==
    ASSUME WakeInv, producer_loop
    PROVE  WakeInv'
<1> USE Types
<1>1. /\ kind = "arx" /\ ~tonotify
      /\ age' = [age EXCEPT !["loop"] = 0]
      /\ UNCHANGED <<entry, phead, avail, chead, aqe, got, made, taken, cleared, known>>
      /\ UNCHANGED <<kind, tonotify, pc, flags, found, gap, evfd, blind>>
    BY DEF producer_loop, vars, counts, consv
<1>2. IInv' /\ TypeOK'
  <2>1. IInv'
    BY QueueSame DEF WakeInv, producer_loop
  <2> QED BY <2>1 DEF IInv
<1>3. /\ age' \in [Stamps -> 0 .. Old] /\ age'["loop"] = 0
      /\ \A x \in Stamps \ {"loop"} : age'[x] = age[x]
    BY <1>1
<1>4. WTypeOK'
    BY <1>1, <1>2, <1>3 DEF WTypeOK, WakeInv
<1>5. Clocks'
    BY <1>1, <1>3 DEF Clocks, WakeInv
<1>6. LastPassed'
    BY <1>1, <1>3 DEF LastPassed, WakeInv, Passed, Fresh
<1>7. Signalled'
    BY <1>1, <1>3 DEF Signalled, WakeInv, Resolved
<1>8. GapKept'
    BY <1>1, <1>3 DEF GapKept, WakeInv, Resolved
<1> QED
    BY <1>2, <1>4, <1>5, <1>6, <1>7, <1>8 DEF WakeInv

(* An entry is written: a consumer that polls no more had counted further  *)
(* back than the last notification, so the one now due will signal it      *)
(* unless it comes late.                                                   *)
LEMMA WriteInv ==
    ASSUME WakeInv, write_entry
    PROVE  WakeInv'
<1> USE Types
<1>1. /\ kind # "arx" => ~tonotify
      /\ tonotify' = TRUE
      /\ age' = [age EXCEPT !["wrote"] = 0]
      /\ made' = made + 1 /\ UNCHANGED <<got, taken, cleared>>
      /\ UNCHANGED <<kind, pc, flags, found, gap, evfd, blind>>
    BY DEF write_entry, consv, kout_produce, produce
<1>2. IInv' /\ TypeOK'
  <2>1. IInv'
    BY KoutIInv, ProduceIInv DEF WakeInv, write_entry
  <2> QED BY <2>1 DEF IInv
<1>3. /\ age' \in [Stamps -> 0 .. Old] /\ age'["wrote"] = 0
      /\ \A x \in Stamps \ {"wrote"} : age'[x] = age[x]
    BY <1>1
<1>4. WTypeOK'
    BY <1>1, <1>2, <1>3 DEF WTypeOK, WakeInv
<1>5. Clocks'
    BY <1>1, <1>3 DEF Clocks, WakeInv
<1>6. LastPassed'
    BY <1>1 DEF LastPassed
<1>7. Signalled'
  <2> SUFFICES ASSUME Resolved, ~blind, ~evfd
               PROVE  age'["wrote"] # StampAge' \/ Kick'
    BY <1>1 DEF Signalled, Resolved
  <2>1. CASE got = made
    <3>1. ~Fresh /\ Passed(age["last"])
      BY <2>1 DEF Resolved, Fresh, LastPassed, WakeInv
    <3>2. age["last"] > DELTA
      BY <3>1 DEF Passed, Resolved
    <3> QED BY <1>1, <1>3, <3>2 DEF Kick, StampAge
  <2>2. CASE got # made
    <3>1. tonotify /\ (age["wrote"] # StampAge \/ Kick)
      BY <2>2 DEF Signalled, WakeInv
    <3> QED BY <1>1, <1>3, <3>1 DEF Kick, StampAge, Clocks, WakeInv
  <2> QED BY <2>1, <2>2
<1>8. GapKept'
    BY <1>1, <1>3 DEF GapKept, WakeInv, Resolved
<1> QED
    BY <1>2, <1>4, <1>5, <1>6, <1>7, <1>8 DEF WakeInv

(* A probe for free entries concerns the producer only.                    *)
LEMMA SpaceInv ==
    ASSUME WakeInv, look_for_space
    PROVE  WakeInv'
<1> USE Types
<1>1. /\ UNCHANGED <<got, made, taken, cleared>>
      /\ UNCHANGED <<kind, age, tonotify, pc, flags, found, gap, evfd, blind>>
    BY DEF look_for_space, probe, consv
<1>2. IInv' /\ TypeOK'
  <2>1. IInv'
    BY ProbeIInv DEF WakeInv, look_for_space
  <2> QED BY <2>1 DEF IInv
<1>3. WTypeOK' /\ Clocks'
    BY <1>1, <1>2 DEF WTypeOK, Clocks, WakeInv
<1>4. LastPassed' /\ Signalled' /\ GapKept'
    BY <1>1 DEF LastPassed, Signalled, GapKept, WakeInv, Passed, Fresh, Resolved,
                Kick, StampAge
<1> QED
    BY <1>2, <1>3, <1>4 DEF WakeInv

(* A notification signals the consumer when its last one is old enough,    *)
(* and then is the last one itself.                                        *)
LEMMA NotifyInv ==
    ASSUME WakeInv, notify_core
    PROVE  WakeInv'
<1> USE Types
<1>1. /\ tonotify /\ ~tonotify'
      /\ evfd' = (evfd \/ Kick)
      /\ age' = [age EXCEPT !["last"] = StampAge]
      /\ blind' = (blind \/ age["wrote"] # StampAge)
      /\ UNCHANGED <<entry, phead, avail, chead, aqe, got, made, taken, cleared, known>>
      /\ UNCHANGED <<kind, pc, flags, found, gap>>
    BY DEF notify_core, vars, counts, consv
<1>2. IInv' /\ TypeOK'
  <2>1. IInv'
    BY QueueSame DEF WakeInv, notify_core
  <2> QED BY <2>1 DEF IInv
<1>3. /\ StampAge \in 0 .. Old
      /\ age' \in [Stamps -> 0 .. Old] /\ age'["last"] = StampAge
      /\ \A x \in Stamps \ {"last"} : age'[x] = age[x]
  <2>1. StampAge \in 0 .. Old
    BY DEF StampAge
  <2> QED BY <1>1, <2>1
<1>4. WTypeOK'
  <2>1. tonotify' \in BOOLEAN /\ evfd' \in BOOLEAN /\ blind' \in BOOLEAN
    BY <1>1, Zenon DEF notify_core
  <2> QED
    BY <1>1, <1>2, <1>3, <2>1 DEF WTypeOK, WakeInv
<1>5. Clocks'
    BY <1>1, <1>3 DEF Clocks, WakeInv
<1>6. LastPassed'
  <2> SUFFICES ASSUME got = made, ~blind', ~Fresh' PROVE Passed(age["last"])'
    BY <1>1 DEF LastPassed
  <2>1. ~blind /\ age["wrote"] = StampAge
    BY <1>1, Zenon
  <2>2. ~Fresh
    BY <1>1 DEF Fresh
  <2>3. Passed(age["wrote"])
    BY <1>1, <2>1, <2>2 DEF LastPassed, WakeInv
  <2> QED
    BY <1>1, <1>3, <2>1, <2>3 DEF Passed
<1>7. Signalled'
  <2> SUFFICES ASSUME Resolved', got < made, ~blind' PROVE evfd'
    BY <1>1 DEF Signalled
  <2>1. ~blind /\ age["wrote"] = StampAge
    BY <1>1, Zenon
  <2>2. Resolved
    BY <1>1 DEF Resolved
  <2>3. evfd \/ Kick
    BY <2>1, <2>2 DEF Signalled, WakeInv
  <2> QED
    BY <1>1, <2>3, Zenon
<1>8. GapKept'
    BY <1>1, <1>3 DEF GapKept, WakeInv, Resolved
<1> QED
    BY <1>2, <1>4, <1>5, <1>6, <1>7, <1>8 DEF WakeInv

(* A poll begins: the consumer is no longer about to sleep.                *)
LEMMA BeginPollInv ==
    ASSUME WakeInv, poll_begin
    PROVE  WakeInv'
<1> USE Types
<1>1. /\ pc = "out" \/ (pc = "decide" /\ kind # "atx")
      /\ pc' = "poll" /\ ~found' /\ found' \in BOOLEAN
      /\ age' = [age EXCEPT !["cyc"] = 0]
      /\ flags' = IF kind = "atx" THEN flags ELSE flags \cup {"POLL_CALLED"}
      /\ UNCHANGED <<entry, phead, avail, chead, aqe, got, made, taken, cleared, known>>
      /\ UNCHANGED <<kind, tonotify, gap, evfd, blind>>
    BY Zenon DEF poll_begin, vars, counts
<1>2. IInv' /\ TypeOK'
  <2>1. IInv'
    BY QueueSame DEF WakeInv, poll_begin
  <2> QED BY <2>1 DEF IInv
<1>3. /\ age' \in [Stamps -> 0 .. Old] /\ age'["cyc"] = 0
      /\ \A x \in Stamps \ {"cyc"} : age'[x] = age[x]
    BY <1>1, SMTT(30)
<1>4. WTypeOK'
    BY <1>1, <1>2, <1>3 DEF WTypeOK, WakeInv
<1>5. Clocks'
    BY <1>1, <1>3 DEF Clocks, WakeInv
<1>6. LastPassed'
    BY <1>1, <1>3 DEF LastPassed, WakeInv, Passed, Fresh, StampAge
<1>7. Signalled'
    BY <1>1, SMTT(30) DEF Signalled, Resolved
<1>8. GapKept'
    BY <1>1, <1>3 DEF GapKept, WakeInv, Resolved
<1> QED
    BY <1>2, <1>4, <1>5, <1>6, <1>7, <1>8 DEF WakeInv

(* An entry is taken, or is done with.                                     *)
LEMMA InPollInv ==
    ASSUME WakeInv, poll_fetch \/ poll_clear
    PROVE  WakeInv'
<1> USE Types
<1>1. /\ pc = "poll" /\ pc' = "poll" /\ UNCHANGED made
      /\ \/ found' /\ found' \in BOOLEAN
         \/ UNCHANGED <<got, found>>
      /\ UNCHANGED <<kind, age, tonotify, flags, gap, evfd, blind>>
    BY Zenon DEF poll_fetch, poll_clear, fetch, clear, consv
<1>2. IInv' /\ TypeOK'
  <2>1. IInv'
    BY FetchIInv, ClearIInv DEF WakeInv, poll_fetch, poll_clear
  <2> QED BY <2>1 DEF IInv
<1>3. WTypeOK' /\ Clocks'
    BY <1>1, <1>2 DEF WTypeOK, Clocks, WakeInv
<1>4. LastPassed'
    BY <1>1 DEF LastPassed, WakeInv, Passed, Fresh, StampAge
<1>5. Signalled'
    BY <1>1 DEF Signalled, Resolved
<1>6. GapKept'
    BY <1>1 DEF GapKept, WakeInv, Resolved
<1> QED
    BY <1>2, <1>3, <1>4, <1>5, <1>6 DEF WakeInv

(* A poll ends: it has found something and the count starts again, or it   *)
(* leaves nothing behind.                                                  *)
LEMMA EndPollInv ==
    ASSUME WakeInv, poll_end
    PROVE  WakeInv'
<1> USE Types
<1>1. /\ pc = "poll" /\ pc' = "decide" /\ taken = cleared
      /\ UNCHANGED <<entry, phead, avail, chead, aqe, got, made, taken, cleared, known>>
      /\ UNCHANGED <<kind, tonotify, found, evfd>>
    BY DEF poll_end, vars, counts
<1>2. IInv' /\ TypeOK'
  <2>1. IInv'
    BY QueueSame DEF WakeInv, poll_end
  <2> QED BY <2>1 DEF IInv
<1>3. CASE found
  <2>1. /\ flags' = IF kind = "atx" THEN flags ELSE flags \cup {"POLL_EVENTS"}
        /\ gap' = 0 /\ age' = [age EXCEPT !["quiet"] = 0]
        /\ ~blind' /\ blind' \in BOOLEAN
    BY <1>3, Zenon DEF poll_end
  <2>2. /\ age' \in [Stamps -> 0 .. Old]
        /\ \A x \in Stamps \ {"quiet"} : age'[x] = age[x]
    BY <2>1, SMTT(30)
  <2>3. WTypeOK' /\ Clocks'
    BY <1>1, <1>2, <2>1, <2>2 DEF WTypeOK, Clocks, WakeInv
  <2>4. LastPassed' /\ Signalled'
    BY <1>1, <1>3, <2>1 DEF LastPassed, Signalled, Fresh, Resolved
  <2>5. GapKept'
    BY <1>1, <2>1 DEF GapKept, Resolved, None
  <2> QED
    BY <1>2, <2>3, <2>4, <2>5 DEF WakeInv
<1>4. CASE ~found
  <2>1. /\ entry[chead] = 0
        /\ gap' = IF gap = None THEN 0 ELSE Least(age["quiet"], DELTA + 1)
        /\ age' = IF gap = None THEN [age EXCEPT !["quiet"] = 0] ELSE age
        /\ UNCHANGED <<flags, blind>>
    BY <1>4 DEF poll_end
  <2>2. /\ age' \in [Stamps -> 0 .. Old]
        /\ \A x \in Stamps \ {"quiet"} : age'[x] = age[x]
        /\ gap # None => age' = age
        /\ gap' \in 0 .. DELTA + 1
    BY <2>1 DEF Least
  <2>3. WTypeOK' /\ Clocks'
    BY <1>1, <1>2, <2>1, <2>2 DEF WTypeOK, Clocks, WakeInv
  <2>4. got = made
    BY <1>1, <2>1, NothingLeft, SMTT(30) DEF WakeInv
  <2>5. LastPassed'
    BY <1>1, <1>4, <2>1, <2>2 DEF LastPassed, WakeInv, Fresh, Passed, StampAge
  <2>6. Signalled'
    BY <1>1, <2>4, SMTT(30) DEF Signalled
  <2>7. GapKept'
    BY <1>1, <2>1, <2>2 DEF GapKept, WakeInv, Resolved, None, Least
  <2> QED
    BY <1>2, <2>3, <2>5, <2>6, <2>7 DEF WakeInv
<1> QED BY <1>3, <1>4 DEF WakeInv, WTypeOK

(* An application asks whether it may wait.                                *)
LEMMA CanwaitInv ==
    ASSUME WakeInv, flextcp_context_canwait
    PROVE  WakeInv'
<1> USE Types
<1>1. /\ kind # "atx" /\ pc \in {"out", "decide"}
      /\ UNCHANGED <<entry, phead, avail, chead, aqe, got, made, taken, cleared, known>>
      /\ UNCHANGED <<kind, tonotify, found, gap, evfd, blind>>
    BY DEF flextcp_context_canwait, vars, counts
<1>2. IInv' /\ TypeOK'
  <2>1. IInv'
    BY QueueSame, SMTT(30) DEF WakeInv, flextcp_context_canwait
  <2> QED BY <2>1 DEF IInv
<1>3. CASE /\ "POLL_EVENTS" \in flags
           /\ flags' = flags \ {"POLL_EVENTS", "WANTWAIT", "LASTWAIT"}
           /\ pc' = "out" /\ UNCHANGED age
  <2>1. WTypeOK' /\ Clocks'
    BY <1>1, <1>2, <1>3, SMTT(30) DEF WTypeOK, Clocks, WakeInv
  <2>2. LastPassed'
    BY <1>1, <1>3 DEF LastPassed, Passed, WakeInv, WTypeOK
  <2>3. Signalled'
    BY <1>1, <1>3, SMTT(30) DEF Signalled, Resolved
  <2>4. GapKept'
    BY <1>1, <1>3, SMTT(30) DEF GapKept, WakeInv, Resolved
  <2> QED BY <1>2, <2>1, <2>2, <2>3, <2>4 DEF WakeInv
<1>4. CASE /\ "POLL_EVENTS" \notin flags /\ "WANTWAIT" \in flags
           /\ flags' = IF age["since"] > DELTA THEN GraceOver ELSE flags
           /\ pc' = "out" /\ UNCHANGED age
  <2>1. WTypeOK' /\ Clocks'
    BY <1>1, <1>2, <1>4, SMTT(30) DEF WTypeOK, Clocks, WakeInv, GraceOver
  <2>2. LastPassed'
    BY <1>1, <1>4, SMTT(30) DEF LastPassed, Passed, WakeInv, WTypeOK, GraceOver, Fresh, StampAge
  <2>3. Signalled'
    BY <1>1, <1>4, SMTT(30) DEF Signalled, Resolved, GraceOver, WakeInv, Kick, StampAge
  <2>4. GapKept'
    BY <1>1, <1>4, SMTT(30) DEF GapKept, WakeInv, Resolved, GraceOver
  <2> QED BY <1>2, <2>1, <2>2, <2>3, <2>4 DEF WakeInv
<1>5. CASE /\ flags \cap {"POLL_EVENTS", "WANTWAIT"} = {} /\ "LASTWAIT" \in flags
           /\ pc' = IF "POLL_CALLED" \in flags THEN "asleep" ELSE "out"
           /\ UNCHANGED <<flags, age>>
  <2>1. WTypeOK' /\ Clocks'
    BY <1>1, <1>2, <1>5, SMTT(30) DEF WTypeOK, Clocks, WakeInv
  <2>2. LastPassed'
    BY <1>1, <1>5, SMTT(30) DEF LastPassed, Passed, WakeInv, Fresh, StampAge
  <2>3. Signalled'
    BY <1>1, <1>5, SMTT(30) DEF Signalled, Resolved, WakeInv, Kick, StampAge
  <2>4. GapKept'
    BY <1>1, <1>5 DEF GapKept, WakeInv, Resolved
  <2> QED BY <1>2, <2>1, <2>2, <2>3, <2>4 DEF WakeInv
<1>6. CASE /\ flags = {"POLL_CALLED"}
           /\ flags' = flags \cup {"WANTWAIT"}
           /\ age' = [age EXCEPT !["since"] = 0]
           /\ pc' = "out"
  <2>1. /\ age' \in [Stamps -> 0 .. Old] /\ age'["since"] = 0
        /\ \A x \in Stamps \ {"since"} : age'[x] = age[x]
    BY <1>6, SMTT(30)
  <2>2. WTypeOK' /\ Clocks'
    BY <1>1, <1>2, <1>6, <2>1 DEF WTypeOK, Clocks, WakeInv
  <2>3. LastPassed'
    BY <1>1, <1>6, <2>1 DEF LastPassed, Passed
  <2>4. Signalled'
    BY <1>1, <1>6, SMTT(30) DEF Signalled, Resolved
  <2>5. GapKept'
    BY <1>1, <1>6, <2>1 DEF GapKept, WakeInv, Resolved
  <2> QED BY <1>2, <2>2, <2>3, <2>4, <2>5 DEF WakeInv
<1> QED
    BY <1>3, <1>4, <1>5, <1>6 DEF flextcp_context_canwait

(* A fast path core asks whether it may block.                             *)
LEMMA CanblockInv ==
    ASSUME WakeInv, notify_canblock
    PROVE  WakeInv'
<1> USE Types
<1>1. /\ kind = "atx" /\ pc = "decide"
      /\ UNCHANGED <<entry, phead, avail, chead, aqe, got, made, taken, cleared, known>>
      /\ UNCHANGED <<kind, tonotify, found, gap, evfd>>
    BY DEF notify_canblock, vars, counts
<1>2. IInv' /\ TypeOK'
  <2>1. IInv'
    BY QueueSame DEF WakeInv, notify_canblock
  <2> QED BY <2>1 DEF IInv
<1>3. age["cyc"] <= age["since"] /\ age["cyc"] \in 0 .. Old
    BY <1>1 DEF Clocks, WakeInv
<1>4. GapKept'
    BY <1>1 DEF GapKept
<1>5. CASE /\ found
           /\ flags' = {} /\ pc' = "out"
           /\ age' = [age EXCEPT !["since"] = age["cyc"]]
           /\ blind' = (blind \/ age["cyc"] > Least(age["wrote"], age["last"]))
  <2>1. /\ age' \in [Stamps -> 0 .. Old] /\ age'["since"] = age["cyc"]
        /\ \A x \in Stamps \ {"since"} : age'[x] = age[x]
    BY <1>3, <1>5
  <2>2. blind' \in BOOLEAN
    BY <1>5, Zenon
  <2>3. WTypeOK' /\ Clocks'
    BY <1>1, <1>2, <1>5, <2>1, <2>2 DEF WTypeOK, Clocks, WakeInv
  <2>4. LastPassed'
    <3> SUFFICES ASSUME ~blind'
                 PROVE  Passed(age["last"])' /\ Passed(age["wrote"])'
      BY DEF LastPassed
    <3>1. ~ (age["cyc"] > Least(age["wrote"], age["last"]))
      BY <1>5, Zenon
    <3>2. age["cyc"] <= age["wrote"] /\ age["cyc"] <= age["last"]
      BY <3>1 DEF Least
    <3> QED
      BY <1>1, <1>5, <2>1, <3>2 DEF Passed
  <2>5. Signalled'
    BY <1>1, <1>5 DEF Signalled, Resolved
  <2> QED BY <1>2, <1>4, <2>3, <2>4, <2>5 DEF WakeInv
<1>6. CASE /\ ~found /\ "second_bar" \in flags
           /\ flags' = {} /\ pc' = "asleep"
           /\ age' = [age EXCEPT !["since"] = age["cyc"]]
           /\ UNCHANGED blind
  <2>1. /\ age' \in [Stamps -> 0 .. Old] /\ age'["since"] = age["cyc"]
        /\ \A x \in Stamps \ {"since"} : age'[x] = age[x]
    BY <1>3, <1>6, SMTT(30)
  <2>2. WTypeOK' /\ Clocks'
    BY <1>1, <1>2, <1>6, <2>1, SMTT(30) DEF WTypeOK, Clocks, WakeInv
  <2>3. LastPassed'
    BY <1>1, <1>3, <1>6, <2>1, SMTT(30) DEF LastPassed, Passed, Fresh, StampAge, WakeInv
  <2>4. Signalled'
    BY <1>1, <1>6, <2>1, SMTT(30) DEF Signalled, Resolved, Kick, StampAge, WakeInv
  <2> QED BY <1>2, <1>4, <2>2, <2>3, <2>4 DEF WakeInv
<1>7. CASE /\ ~found /\ "second_bar" \notin flags
           /\ flags' = flags \cup
                {IF "can_block" \in flags /\ age["since"] - age["cyc"] > DELTA
                 THEN "second_bar" ELSE "can_block"}
           /\ pc' = "out" /\ UNCHANGED <<age, blind>>
  <2>1. WTypeOK' /\ Clocks'
    BY <1>1, <1>2, <1>7, SMTT(30) DEF WTypeOK, Clocks, WakeInv
  <2>2. LastPassed'
    BY <1>1, <1>3, <1>7 DEF LastPassed, Passed, Fresh, StampAge, WakeInv, WTypeOK
  <2>3. Signalled'
    BY <1>1, <1>7 DEF Signalled, Resolved
  <2> QED BY <1>2, <1>4, <2>1, <2>2, <2>3 DEF WakeInv
<1> QED
    BY <1>5, <1>6, <1>7 DEF notify_canblock

(* The consumer wakes up.                                                  *)
LEMMA WakeStepInv ==
    ASSUME WakeInv, flextcp_context_waitclear
    PROVE  WakeInv'
<1> USE Types
<1>1. /\ pc = "asleep" /\ pc' = "out" /\ gap' = None
      /\ ~evfd' /\ evfd' \in BOOLEAN
      /\ flags' = flags \ {"WANTWAIT", "LASTWAIT", "POLL_CALLED"}
      /\ UNCHANGED <<entry, phead, avail, chead, aqe, got, made, taken, cleared, known>>
      /\ UNCHANGED <<kind, age, tonotify, found, blind>>
    BY Zenon DEF flextcp_context_waitclear, vars, counts
<1>2. IInv' /\ TypeOK'
  <2>1. IInv'
    BY QueueSame, SMTT(30) DEF WakeInv, flextcp_context_waitclear
  <2> QED BY <2>1 DEF IInv
<1>3. WTypeOK' /\ Clocks'
    BY <1>1, <1>2, SMTT(30) DEF WTypeOK, Clocks, WakeInv
<1>4. LastPassed'
    BY <1>1 DEF LastPassed, Passed, Fresh, StampAge, WakeInv, GapKept, Resolved
<1>5. Signalled'
    BY <1>1 DEF Signalled, Resolved
<1>6. GapKept'
    BY <1>1 DEF GapKept, Resolved
<1> QED
    BY <1>2, <1>3, <1>4, <1>5, <1>6 DEF WakeInv

(* A step of something else.                                               *)
LEMMA WStutterInv ==
    ASSUME WakeInv, UNCHANGED wvars
    PROVE  WakeInv'
<1>1. /\ UNCHANGED <<entry, phead, avail, chead, aqe, got, made, taken, cleared, known>>
      /\ UNCHANGED <<kind, age, tonotify, pc, flags, found, gap, evfd, blind>>
    BY DEF wvars, vars, counts, consv
<1>2. IInv' /\ TypeOK'
  <2>1. IInv'
    BY QueueSame DEF WakeInv, wvars
  <2> QED BY <2>1 DEF IInv
<1>3. WTypeOK' /\ Clocks'
    BY <1>1, <1>2, SMTT(30) DEF WTypeOK, Clocks, WakeInv
<1>4. LastPassed' /\ Signalled' /\ GapKept'
    BY <1>1 DEF LastPassed, Signalled, GapKept, WakeInv, Passed, Fresh, Resolved,
                Kick, StampAge
<1> QED
    BY <1>2, <1>3, <1>4 DEF WakeInv

(* In the initial state nothing was sent and nobody sleeps.                *)
LEMMA WInitInv == WInit => WakeInv
<1> SUFFICES ASSUME WInit PROVE WakeInv
    OBVIOUS
<1> USE WakeupAssumption
<1>1. IInv /\ TypeOK
  <2>1. IInv
    BY InitIInv DEF WInit
  <2> QED BY <2>1 DEF IInv
<1>2. /\ kind \in Kinds /\ age \in [Stamps -> 0 .. Old]
      /\ age["last"] = Old /\ age["since"] = Old /\ age["loop"] = 0
      /\ tonotify = FALSE /\ evfd = FALSE /\ blind = FALSE
      /\ pc = "out" /\ flags = {} /\ found = FALSE /\ gap = None
    BY DEF WInit, Old, Stamps
<1>3. WTypeOK /\ Clocks
  <2>1. WTypeOK
    BY <1>1, <1>2, Zenon DEF WTypeOK
  <2>2. taken = cleared
    BY DEF WInit, Init
  <2>3. Clocks
    BY <1>2, <2>2 DEF Clocks
  <2> QED BY <2>1, <2>3
<1>4. LastPassed /\ GapKept
    BY <1>2 DEF LastPassed, GapKept, Passed, Resolved, Old
<1>5. Signalled
    BY <1>2 DEF Signalled, Resolved
<1> QED
    BY <1>1, <1>3, <1>4, <1>5 DEF WakeInv

-----------------------------------------------------------------------------
(* The invariant holds throughout, for all three kinds of queues.          *)
THEOREM WakeupInvariant == WSpec => []WakeInv
<1>1. WakeInv /\ [WNext]_wvars => WakeInv'
  <2> SUFFICES ASSUME WakeInv, [WNext]_wvars PROVE WakeInv'
    OBVIOUS
  <2>1. CASE tick \/ producer_loop \/ write_entry \/ look_for_space \/ notify_core
    BY <2>1, TickInv, LoopInv, WriteInv, SpaceInv, NotifyInv
  <2>2. CASE poll_begin \/ poll_fetch \/ poll_clear \/ poll_end
    BY <2>2, BeginPollInv, InPollInv, EndPollInv
  <2>3. CASE flextcp_context_canwait \/ notify_canblock
    BY <2>3, CanwaitInv, CanblockInv
  <2>4. CASE wake \/ wait_timeout
    BY <2>4, WakeStepInv DEF wake, wait_timeout
  <2>5. CASE UNCHANGED wvars
    BY <2>5, WStutterInv
  <2> QED
    BY <2>1, <2>2, <2>3, <2>4, <2>5 DEF WNext, consumer
<1> QED
    BY <1>1, WInitInv, PTL DEF WSpec

(* No wake-up is lost unless a time stamp was not taken at the event it    *)
(* stands for: notify_core, flextcp_flexnic_kick, flextcp_context_canwait  *)
(* and notify_canblock fit together for every grace period.                *)
THEOREM WakeupNotLost == WSpec => []WakeupOrBlind
<1>1. WakeInv => WakeupOrBlind
  <2> SUFFICES ASSUME WakeInv, pc = "asleep", entry[chead] # 0, ~evfd, ~tonotify
               PROVE  blind
    BY DEF WakeupOrBlind
  <2>1. Resolved
    BY DEF WakeInv, GapKept, Resolved
  <2>2. taken = cleared
    BY DEF WakeInv, Clocks
  <2>3. taken - cleared < N
    BY <2>2, AppctxQueueAssumption DEF WakeInv, IInv, TypeOK
  <2>4. got < made
    BY <2>3, NothingTaken DEF WakeInv
  <2> QED
    BY <2>1, <2>4 DEF WakeInv, Signalled
<1> QED
    BY <1>1, WakeupInvariant, PTL

(* An application sleeps only when it has polled in vain for longer than   *)
(* the grace period of flextcp_context_canwait.                            *)
THEOREM WakeupPollGap == WSpec => []PollGap
<1>1. WakeInv => PollGap
    BY DEF WakeInv, GapKept, PollGap
<1> QED
    BY <1>1, WakeupInvariant, PTL

(* Sleeping and waking up, and the queue that has no count of its free     *)
(* entries, leave the queue correct.                                       *)
THEOREM WakeupQueue == WSpec => []IInv
<1>1. WakeInv => IInv
    BY DEF WakeInv
<1> QED
    BY <1>1, WakeupInvariant, PTL
=============================================================================
