----------------------------- MODULE AppctxQueue -----------------------------
(***************************************************************************)
(* A queue in shared memory between a fast path core and an application    *)
(* context: arx (fast path to libtas) or atx (libtas to fast path).  There *)
(* is no shared index.  An entry is valid when its type is not 0; the      *)
(* producer learns that entries are free again by looking at their types   *)
(* when half of the queue is in use.  The consumer of atx takes a batch of *)
(* entries first and clears them one by one when it has handled them; that *)
(* of arx is the special case BATCH = 1.                                   *)
(*                                                                         *)
(* An entry's content is the number of its message, positions and lengths  *)
(* are in entries.  `made', `taken', `cleared' and `known' are counts of   *)
(* what has happened so far that the code does not keep.                   *)
(***************************************************************************)
EXTENDS Integers

CONSTANTS
    N,              \* entries of the queue: rx_len, txq_len
    BATCH,          \* entries the consumer takes before it clears one
    PROBE,          \* entries looked at in one probe
    MaxMsgs         \* messages sent (bounds the model)

ASSUME AppctxQueueAssumption ==
    /\ N \in Nat \ {0} /\ BATCH \in 1 .. N
    /\ PROBE \in Nat \ {0} /\ MaxMsgs \in Nat

VARIABLES
    entry,          \* position -> 0 (type 0) or the number of a message
    phead,          \* rx_head of the fast path, txq_tail of libtas
    avail,          \* rx_avail of the fast path, txq_avail of libtas
    chead,          \* rxq_head of libtas, tx_head of the fast path
    aqe,            \* the oldest entry taken and not yet cleared
    got,            \* the last message taken
    made, taken, cleared, known

counts == <<made, taken, cleared, known>>
vars == <<entry, phead, avail, chead, aqe, got, counts>>

Pos == 0 .. N - 1

\* Mutant: a position equal to the length is not wrapped.
Wrap_late(p) == IF p > N THEN p - N ELSE p

Wrap(p) == IF p >= N THEN p - N ELSE p

Init ==
    /\ entry = [p \in Pos |-> 0]
    /\ phead = 0 /\ avail = N /\ chead = 0 /\ aqe = 0 /\ got = 0
    /\ made = 0 /\ taken = 0 /\ cleared = 0 /\ known = 0

\* fast_actx_rxq_alloc and arx_cache_flush; flextcp_context_tx_alloc,
\* conns_bump and flextcp_context_tx_done.
produce ==
    /\ avail # 0 /\ made < MaxMsgs
    /\ entry' = [entry EXCEPT ![phead] = made + 1]
    /\ phead' = Wrap(phead + 1)
    /\ avail' = avail - 1
    /\ made' = made + 1
    /\ UNCHANGED <<chead, aqe, got, taken, cleared, known>>

\* fast_actx_rxq_probe, txq_probe: as many entries as are free, from the first
\* that is not known to be.
Free(k) == \A i \in 0 .. k - 1 : entry[Wrap(phead + avail + i)] = 0

\* Mutant: the probe goes on when all entries are known to be free.
ProbeLimit_none(a) == PROBE

ProbeLimit(a) == IF N - a < PROBE THEN N - a ELSE PROBE

\* Mutant: the producer gives up before it probes when it knows of no free
\* entry.
probe_notFull ==
    /\ avail # 0 /\ 2 * avail <= N
    /\ \E k \in 1 .. ProbeLimit(avail) :
         /\ Free(k)
         /\ k < ProbeLimit(avail) => ~Free(k + 1)
         /\ avail' = avail + k
         /\ known' = known + k
    /\ UNCHANGED <<entry, phead, chead, aqe, got, made, taken, cleared>>

probe ==
    /\ 2 * avail <= N
    /\ \E k \in 1 .. ProbeLimit(avail) :
         /\ Free(k)
         /\ k < ProbeLimit(avail) => ~Free(k + 1)
         /\ avail' = avail + k
         /\ known' = known + k
    /\ UNCHANGED <<entry, phead, chead, aqe, got, made, taken, cleared>>

\* Mutant: the consumer takes entries for as long as it finds valid ones.
fetch_unlimited ==
    /\ entry[chead] # 0 /\ taken < MaxMsgs + N
    /\ got' = entry[chead]
    /\ chead' = Wrap(chead + 1)
    /\ taken' = taken + 1
    /\ UNCHANGED <<entry, phead, avail, aqe, made, cleared, known>>

\* fast_appctx_poll_fetch; the head of fastpath_poll_vec.
fetch ==
    /\ entry[chead] # 0 /\ taken - cleared < BATCH
    /\ got' = entry[chead]
    /\ chead' = Wrap(chead + 1)
    /\ taken' = taken + 1
    /\ UNCHANGED <<entry, phead, avail, aqe, made, cleared, known>>

\* fast_appctx_poll_bump; the end of fastpath_poll_vec.
clear ==
    /\ cleared < taken
    /\ entry' = [entry EXCEPT ![aqe] = 0]
    /\ aqe' = Wrap(aqe + 1)
    /\ cleared' = cleared + 1
    /\ UNCHANGED <<phead, avail, chead, got, made, taken, known>>

Next == produce \/ probe \/ fetch \/ clear

Spec == Init /\ [][Next]_vars

-----------------------------------------------------------------------------
TypeOK ==
    /\ entry \in [Pos -> Nat]
    /\ phead \in Pos /\ chead \in Pos /\ aqe \in Pos
    /\ avail \in 0 .. N
    /\ got \in Nat
    /\ made \in Nat /\ taken \in Nat /\ cleared \in Nat /\ known \in Nat

(* The producer never writes into an entry that the consumer has not yet   *)
(* cleared: neither a message that was not taken, nor one that was taken   *)
(* and is still being read, is overwritten.                                *)
NoOverwrite == avail # 0 => entry[phead] = 0

(* The consumer takes every message, once and in the order sent.           *)
InOrder == got = taken

\* How far a position is behind the oldest entry that is not cleared.
Offset(p) == IF p >= aqe THEN p - aqe ELSE p - aqe + N

(* The inductive invariant: the valid entries are one run of consecutive   *)
(* messages that begins at aqe, and the indices of both sides follow from  *)
(* how far each has come.                                                  *)
IInv ==
    /\ TypeOK
    /\ known <= cleared /\ cleared <= taken /\ taken <= made
    /\ made <= known + N /\ taken - cleared <= BATCH
    /\ avail = N - (made - known)
    /\ phead = Wrap(aqe + (made - cleared))
    /\ chead = Wrap(aqe + (taken - cleared))
    /\ \A p \in Pos : entry[p] =
         IF Offset(p) < made - cleared THEN cleared + Offset(p) + 1 ELSE 0
    /\ got = taken

\* The queue as the abstract specification sees it.
Queue == INSTANCE Fifo WITH Capacity <- N, sent <- made, received <- got

(* The shared memory queue implements the abstract one.                    *)
ImplementsFifo == Queue!Spec
=============================================================================
