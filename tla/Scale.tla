-------------------------------- MODULE Scale --------------------------------
(***************************************************************************)
(* Scaling the fast path up and down.  The load monitor in the slow path   *)
(* asks for another number of cores; fast path core 0 then rewrites the    *)
(* RSS redirection table entry by entry, hands it to the device, and only  *)
(* then says how many cores there are.  The slow path and the other cores  *)
(* read flow_group_steering while that happens.                            *)
(*                                                                         *)
(* The load is left to chance.  A failed update of the device ends the     *)
(* program and is left out.                                                *)
(***************************************************************************)
EXTENDS Integers, FiniteSets

CONSTANTS
    RETA_SIZE,      \* rss_reta_size
    fp_cores_max,
    V_MIN,          \* UINT8_MAX, where core_min begins to look
    WAIT            \* calls of flexnic_loadmon between two of its decisions

ASSUME ScaleAssumption ==
    /\ RETA_SIZE \in Nat /\ fp_cores_max \in Nat \ {0}
    /\ fp_cores_max <= RETA_SIZE
    /\ V_MIN \in Nat /\ WAIT \in Nat

VARIABLES
    reta,           \* rss_reta[].reta: entry -> core
    mask,           \* rss_reta[].mask: the entries to be updated
    rss_core_buckets,
    flow_group_steering,
    nic,            \* the redirection table of the device
    fp_cores_cur,
    fp_scale_to,
    sc,             \* poll_scale: where it is, its local variables
    lm,             \* flexnic_loadmon: num_cores, None outside
    waiting_n

tablev == <<reta, mask, rss_core_buckets, flow_group_steering>>
monv == <<lm, waiting_n>>
scalevars == <<tablev, nic, fp_cores_cur, fp_scale_to, sc, monv>>

Entries == 0 .. RETA_SIZE - 1
Cores == 0 .. fp_cores_max - 1
NoCores == -1

\* k is the next entry to look at, n the number of entries done with.
Idle == [pc |-> "idle", old |-> 1, new |-> 1, k |-> 0, n |-> 0]

\* reta_setup
ScaleInit ==
    /\ fp_cores_cur = 1 /\ fp_scale_to = 0
    /\ reta = [e \in Entries |-> 0]
    /\ mask = Entries
    /\ rss_core_buckets = [c \in Cores |-> IF c = 0 THEN RETA_SIZE ELSE 0]
    /\ flow_group_steering = reta /\ nic = reta
    /\ sc = Idle
    /\ lm = NoCores /\ waiting_n = 0

-----------------------------------------------------------------------------
(* Asking for a number of cores (slow path).                               *)

flexnic_scale_to(cores) ==
    fp_scale_to' = IF fp_scale_to # 0 THEN fp_scale_to ELSE cores

\* The beginning of flexnic_loadmon.
loadmon_read ==
    /\ lm = NoCores
    /\ lm' = fp_cores_cur
    /\ UNCHANGED <<tablev, nic, fp_cores_cur, fp_scale_to, sc, waiting_n>>

\* The rest of it: it is waiting, or the load asks for fewer cores, for more,
\* or for neither.  The number of cores may have changed since it was read.
loadmon_decide ==
    /\ lm # NoCores
    /\ lm' = NoCores
    /\ \/ /\ waiting_n' = IF waiting_n < WAIT THEN waiting_n + 1 ELSE WAIT
          /\ UNCHANGED fp_scale_to
       \/ /\ waiting_n + 1 >= WAIT
          /\ \/ lm > 1 /\ flexnic_scale_to(lm - 1)
             \/ lm < fp_cores_max /\ flexnic_scale_to(lm + 1)
          /\ waiting_n' = 0
    /\ UNCHANGED <<tablev, nic, fp_cores_cur, sc>>

\* An application's request, for as many cores as there can be.
kin_req_scale ==
    /\ lm = NoCores
    /\ \E cores \in 1 .. fp_cores_max : flexnic_scale_to(cores)
    /\ UNCHANGED <<tablev, nic, fp_cores_cur, sc, monv>>

-----------------------------------------------------------------------------
(* Rewriting the table (fast path core 0).                                 *)

\* Mutant: the search begins with a core that has no entry less than it.
core_min_none(num) == 0

\* The first of the first num cores with the fewest entries, if it has less
\* than V_MIN of them.
core_min(num) ==
    LET b == rss_core_buckets
        least(c) == /\ b[c] < V_MIN
                    /\ \A d \in 0 .. num - 1 :
                         b[c] < b[d] \/ (b[c] = b[d] /\ c <= d)
    IN  IF \E c \in 0 .. num - 1 : least(c)
        THEN CHOOSE c \in 0 .. num - 1 : least(c)
        ELSE 0

\* The last of the first num cores with the most entries.
core_max(num) ==
    LET b == rss_core_buckets IN
    CHOOSE c \in 0 .. num - 1 :
        \A d \in 0 .. num - 1 : b[c] > b[d] \/ (b[c] = b[d] /\ c >= d)

\* Mutant: rounded up.
Share_up(new) == (RETA_SIZE + new - 1) \div new

Share(new) == RETA_SIZE \div new

\* Mutant: the mask only holds the last entry.
Moved_last(e, c) ==
    /\ reta' = [reta EXCEPT ![e] = c]
    /\ mask' = {e}
    /\ flow_group_steering' = [flow_group_steering EXCEPT ![e] = c]
    /\ rss_core_buckets' =
         [rss_core_buckets EXCEPT ![reta[e]] = @ - 1, ![c] = @ + 1]

\* Mutant: the core that gives up an entry keeps its count.
Moved_keeps(e, c) ==
    /\ reta' = [reta EXCEPT ![e] = c]
    /\ mask' = mask \cup {e}
    /\ flow_group_steering' = [flow_group_steering EXCEPT ![e] = c]
    /\ rss_core_buckets' = [rss_core_buckets EXCEPT ![c] = @ + 1]

\* Entry e goes to core c.
Moved(e, c) ==
    /\ reta' = [reta EXCEPT ![e] = c]
    /\ mask' = mask \cup {e}
    /\ flow_group_steering' = [flow_group_steering EXCEPT ![e] = c]
    /\ rss_core_buckets' =
         [rss_core_buckets EXCEPT ![reta[e]] = @ - 1, ![c] = @ + 1]

\* Mutant: a request for as many cores as there are is left standing.
poll_scale_stands ==
    /\ sc.pc = "idle" /\ fp_scale_to \notin {0, fp_cores_cur}
    /\ sc' = [pc |-> IF fp_scale_to < fp_cores_cur THEN "down" ELSE "up",
              old |-> fp_cores_cur, new |-> fp_scale_to, k |-> 0, n |-> 0]
    /\ mask' = {}
    /\ UNCHANGED <<reta, rss_core_buckets, flow_group_steering, nic,
                   fp_cores_cur, fp_scale_to, monv>>

\* poll_scale, up to the loops of network_scale_up and network_scale_down.
poll_scale ==
    /\ sc.pc = "idle" /\ fp_scale_to # 0
    /\ sc' = [pc |-> IF fp_scale_to < fp_cores_cur THEN "down"
                     ELSE IF fp_scale_to > fp_cores_cur THEN "up" ELSE "set",
              old |-> fp_cores_cur, new |-> fp_scale_to, k |-> 0, n |-> 0]
    /\ mask' = IF fp_scale_to = fp_cores_cur THEN mask ELSE {}
    /\ UNCHANGED <<reta, rss_core_buckets, flow_group_steering, nic,
                   fp_cores_cur, fp_scale_to, monv>>

\* The n-th entry moved goes to the core j of the outer loop.
UpCore == sc.old + sc.n \div Share(sc.new)
UpLeft == sc.n < (sc.new - sc.old) * Share(sc.new)

\* How far entry e is from the entry looked at last.
Ahead(e) == (e - sc.k) % RETA_SIZE

\* One round of the loops of network_scale_up.
network_scale_up ==
    /\ sc.pc = "up" /\ UpLeft
    /\ \E e \in Entries :
         /\ reta[e] = core_max(sc.old)
         /\ \A f \in Entries : reta[f] = core_max(sc.old) => Ahead(e) <= Ahead(f)
         /\ Moved(e, UpCore)
         /\ sc' = [sc EXCEPT !.k = e, !.n = @ + 1]
    /\ UNCHANGED <<nic, fp_cores_cur, fp_scale_to, monv>>

\* One round of the loop of network_scale_down.
network_scale_down ==
    /\ sc.pc = "down" /\ sc.n < RETA_SIZE
    /\ IF reta[sc.n] >= sc.new
       THEN Moved(sc.n, core_min(sc.new)) ELSE UNCHANGED tablev
    /\ sc' = [sc EXCEPT !.n = @ + 1]
    /\ UNCHANGED <<nic, fp_cores_cur, fp_scale_to, monv>>

\* rte_eth_dev_rss_reta_update
reta_update ==
    /\ \/ sc.pc = "up" /\ ~UpLeft
       \/ sc.pc = "down" /\ sc.n = RETA_SIZE
    /\ nic' = [e \in Entries |-> IF e \in mask THEN reta[e] ELSE nic[e]]
    /\ sc' = [sc EXCEPT !.pc = "set"]
    /\ UNCHANGED <<tablev, fp_cores_cur, fp_scale_to, monv>>

\* The end of poll_scale: first the one variable, then the other.
set_cores ==
    /\ sc.pc = "set"
    /\ fp_cores_cur' = sc.new
    /\ sc' = [sc EXCEPT !.pc = "clear"]
    /\ UNCHANGED <<tablev, nic, fp_scale_to, monv>>

clear_request ==
    /\ sc.pc = "clear"
    /\ fp_scale_to' = 0
    /\ sc' = Idle
    /\ UNCHANGED <<tablev, nic, fp_cores_cur, monv>>

core0 ==
    \/ poll_scale \/ network_scale_up \/ network_scale_down \/ reta_update
    \/ set_cores \/ clear_request

ScaleNext == loadmon_read \/ loadmon_decide \/ kin_req_scale \/ core0

\* Core 0 goes round its loop; nobody has to ask for other cores.
ScaleSpec == ScaleInit /\ [][ScaleNext]_scalevars /\ WF_scalevars(core0)

-----------------------------------------------------------------------------
ScaleTypeOK ==
    /\ reta \in [Entries -> Cores]
    /\ mask \subseteq Entries
    /\ rss_core_buckets \in [Cores -> 0 .. RETA_SIZE]
    /\ flow_group_steering \in [Entries -> Cores]
    /\ nic \in [Entries -> Cores]
    /\ fp_cores_cur \in 1 .. fp_cores_max
    /\ fp_scale_to \in 0 .. fp_cores_max
    /\ sc \in [pc : {"idle", "up", "down", "set", "clear"},
               old : 1 .. fp_cores_max, new : 1 .. fp_cores_max,
               k : Entries, n : 0 .. RETA_SIZE]
    /\ lm \in {NoCores} \cup 1 .. fp_cores_max
    /\ waiting_n \in 0 .. WAIT

\* The entries of a core.
Of(c) == {e \in Entries : reta[e] = c}

(* rss_core_buckets, which is kept up to date by one addition and one      *)
(* subtraction per moved entry, always counts the entries of each core.    *)
Counted == \A c \in Cores : rss_core_buckets[c] = Cardinality(Of(c))

(* The search for an entry in network_scale_up, which has no other end,    *)
(* finds one every time.                                                   *)
SearchEnds == sc.pc = "up" /\ UpLeft => \E e \in Entries : reta[e] = core_max(sc.old)

(* Outside of poll_scale the device, the fast path and the slow path have  *)
(* the same table, and it only names cores that are in use: the masks of   *)
(* the update have covered every entry that changed.                       *)
Steered ==
    sc.pc = "idle" =>
        /\ nic = reta /\ flow_group_steering = reta
        /\ \A e \in Entries : reta[e] < fp_cores_cur

\* The number of cores that are in use before and after.
Staying ==
    IF sc.pc = "idle" THEN fp_cores_cur
    ELSE IF sc.new < sc.old THEN sc.new ELSE sc.old

(* However often the fast path is scaled, every core in use keeps at least *)
(* the entries it would have if all cores were in use.                     *)
Served ==
    \A c \in 0 .. Staying - 1 :
        rss_core_buckets[c] >= RETA_SIZE \div fp_cores_max

(* An entry of a core that is given up goes to a core with the fewest      *)
(* entries.  That is so only as long as two cores cannot both have V_MIN   *)
(* entries or more.                                                        *)
LeastLoaded ==
    sc.pc = "down" /\ RETA_SIZE < 2 * V_MIN =>
        \A c \in 0 .. sc.new - 1 :
            (\E e \in sc.n .. RETA_SIZE - 1 : reta[e] >= sc.new) =>
                rss_core_buckets[core_min(sc.new)] <= rss_core_buckets[c]

\* The entries that cores beyond the old ones have.
Given == {e \in Entries : reta[e] >= sc.old}

(* The inductive invariant.  An entry that differs from the device's is in *)
(* the mask; the entries given to new cores are as many as the rounds of   *)
(* network_scale_up, which fill these cores one after the other; those     *)
(* network_scale_down has passed are all on cores that stay.               *)
ScaleInv ==
    /\ ScaleTypeOK /\ Counted /\ Served
    /\ flow_group_steering = reta
    /\ sc.pc \in {"up", "down"} =>
         \A e \in Entries : e \notin mask => nic[e] = reta[e]
    /\ sc.pc \in {"idle", "set", "clear"} => nic = reta
    /\ sc.pc # "idle" => fp_scale_to = sc.new
    /\ sc.pc \in {"up", "down", "set"} => fp_cores_cur = sc.old
    /\ sc.pc = "clear" => fp_cores_cur = sc.new
    /\ sc.pc = "idle" => \A e \in Entries : reta[e] < fp_cores_cur
    /\ sc.pc \in {"up", "set", "clear"} => \A e \in Entries : reta[e] < sc.new
    /\ sc.pc = "up" =>
         /\ sc.old < sc.new
         /\ sc.n = Cardinality(Given)
         /\ sc.n <= (sc.new - sc.old) * Share(sc.new)
         /\ \A c \in sc.old .. sc.new - 1 :
              \/ rss_core_buckets[c] >= Share(sc.new)
              \/ rss_core_buckets[c] >= sc.n - (c - sc.old) * Share(sc.new)
    /\ sc.pc \in {"set", "clear"} =>
         \A c \in 0 .. sc.new - 1 :
             rss_core_buckets[c] >= RETA_SIZE \div fp_cores_max
    /\ sc.pc = "down" =>
         /\ sc.new < sc.old
         /\ \A e \in Entries : e < sc.n => reta[e] < sc.new

(* A request to scale is carried out, and the next one can be made.        *)
Rescaled == (fp_scale_to # 0) ~> (fp_scale_to = 0)
=============================================================================
