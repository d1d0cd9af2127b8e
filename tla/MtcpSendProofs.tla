--------------------------- MODULE MtcpSendProofs ---------------------------
(***************************************************************************)
(* mTCP's send buffer is exact and what is in it is not forgotten, for     *)
(* every size of the buffer, the writes and the window and any number of   *)
(* faults.  SendInv is inductive: besides what SendExact and Scheduled say *)
(* it knows that a close fixes the end of the data (CloseExact), that the  *)
(* peer acknowledges only what it was sent (PeerExact), and that data is   *)
(* left to the timer in one case only (LeftToTimer).                       *)
(***************************************************************************)
EXTENDS MtcpSend, TLAPS

(* Bytes put behind those that are in place, ln of them from ho on.        *)
LEMMA PutInPlace ==
    ASSUME NEW S \in Nat, NEW hs \in Nat, NEW ln \in Nat, NEW ho \in Nat, NEW n \in Nat,
           n > 0, ho + ln + n <= S, NEW dat \in [0 .. S - 1 -> Int],
           \A i \in 0 .. ln - 1 : dat[ho + i] = hs + i,
           NEW d, d = [i \in 0 .. S - 1 |->
                          IF i \in ho + ln .. ho + ln + n - 1
                          THEN hs + ln + (i - (ho + ln)) ELSE dat[i]]
    PROVE  d \in [0 .. S - 1 -> Int] /\ \A i \in 0 .. ln + n - 1 : d[ho + i] = hs + i
<1>1. d \in [0 .. S - 1 -> Int]
    OBVIOUS
<1>2. ASSUME NEW i \in 0 .. ln + n - 1 PROVE d[ho + i] = hs + i
  <2>1. ho + i \in 0 .. S - 1
    OBVIOUS
  <2>2. CASE i < ln
    BY <2>1, <2>2
  <2>3. CASE i >= ln
    BY <2>1, <2>3
  <2> QED
    BY <2>2, <2>3
<1> QED
    BY <1>1, <1>2, Zenon

(* The fields of a buffer.                                                 *)
LEMMA BufferFields ==
    ASSUME NEW b \in Buffers
    PROVE  /\ b.head_seq \in Nat /\ b.len \in Nat /\ b.head_off \in Nat
           /\ b.tail_off \in Nat /\ b.data \in [0 .. SB_SIZE - 1 -> Int]
           /\ SB_SIZE \in Nat
    BY MtcpSendAssumption DEF Buffers

(* Its contents, in place from head_off on.                                *)
LEMMA BufferParts ==
    ASSUME NEW b \in Buffers, BufferExact(b)
    PROVE  \E hs \in Nat, ln \in Nat, ho \in Nat, dat \in [0 .. SB_SIZE - 1 -> Int] :
               /\ b.head_seq = hs /\ b.len = ln /\ b.head_off = ho /\ b.data = dat
               /\ b.tail_off = ho + ln /\ ho + ln <= SB_SIZE
               /\ \A i \in 0 .. ln - 1 : dat[ho + i] = hs + i
<1>1. /\ b.head_seq \in Nat /\ b.len \in Nat /\ b.head_off \in Nat
      /\ b.data \in [0 .. SB_SIZE - 1 -> Int]
    BY BufferFields
<1> USE <1>1
<1> WITNESS b.head_seq \in Nat, b.len \in Nat, b.head_off \in Nat,
            b.data \in [0 .. SB_SIZE - 1 -> Int]
<1> QED
    BY DEF BufferExact

(* SBPut appends, with or without moving the contents to the front.        *)
LEMMA PutExact ==
    ASSUME NEW b \in Buffers, BufferExact(b), NEW n \in Nat, n > 0, b.len + n <= SB_SIZE
    PROVE  /\ SBPut(b, n) \in Buffers /\ BufferExact(SBPut(b, n))
           /\ SBPut(b, n).head_seq = b.head_seq /\ SBPut(b, n).len = b.len + n
<1>1. PICK hs \in Nat, ln \in Nat, ho \in Nat, dat \in [0 .. SB_SIZE - 1 -> Int] :
          /\ b.head_seq = hs /\ b.len = ln /\ b.head_off = ho /\ b.data = dat
          /\ b.tail_off = ho + ln /\ ho + ln <= SB_SIZE
          /\ \A i \in 0 .. ln - 1 : dat[ho + i] = hs + i
    BY BufferParts, Zenon
<1>2. SB_SIZE \in Nat /\ ln + n <= SB_SIZE
    BY <1>1, BufferFields
<1>3. CASE ho + ln + n < SB_SIZE
  <2> DEFINE d == [i \in 0 .. SB_SIZE - 1 |->
                      IF i \in ho + ln .. ho + ln + n - 1
                      THEN hs + ln + (i - (ho + ln)) ELSE dat[i]]
  <2>1. SBPut(b, n) = [b EXCEPT !.data = d, !.len = ln + n, !.tail_off = ho + ln + n]
    BY <1>1, <1>3 DEF SBPut
  <2>2. d \in [0 .. SB_SIZE - 1 -> Int] /\ \A i \in 0 .. ln + n - 1 : d[ho + i] = hs + i
    <3>1. ho + ln + n <= SB_SIZE /\ SB_SIZE \in Nat
      BY <1>1, <1>2, <1>3
    <3>2. d \in [0 .. SB_SIZE - 1 -> Int]
      BY <1>1, <3>1
    <3>3. ASSUME NEW i \in 0 .. ln + n - 1 PROVE d[ho + i] = hs + i
      <4>1. ho + i \in 0 .. SB_SIZE - 1
        BY <1>1, <3>1
      <4>2. CASE i < ln
        BY <1>1, <4>1, <4>2
      <4>3. CASE i >= ln
        BY <1>1, <4>1, <4>3
      <4> QED
        BY <1>1, <4>2, <4>3
    <3> QED
      BY <3>2, <3>3, Zenon
  <2> HIDE DEF d
  <2>3. SBPut(b, n) = [head_seq |-> hs, len |-> ln + n, head_off |-> ho,
                       tail_off |-> ho + ln + n, data |-> d]
    BY <1>1, <2>1, Zenon DEF Buffers
  <2>4. SBPut(b, n) \in Buffers
    BY <1>1, <2>2, <2>3 DEF Buffers
  <2>5. BufferExact(SBPut(b, n))
    BY <1>1, <1>2, <1>3, <2>2, <2>3 DEF BufferExact
  <2> QED
    BY <1>1, <2>3, <2>4, <2>5
<1>4. CASE ~(ho + ln + n < SB_SIZE)
  <2> DEFINE m == [i \in 0 .. SB_SIZE - 1 |-> IF i < ln THEN dat[ho + i] ELSE dat[i]]
             d == [i \in 0 .. SB_SIZE - 1 |->
                      IF i \in ln .. ln + n - 1 THEN hs + ln + (i - ln) ELSE m[i]]
  <2>1. SBPut(b, n) = [b EXCEPT !.data = d, !.len = ln + n, !.head_off = 0,
                                !.tail_off = ln + n]
    BY <1>1, <1>4 DEF SBPut
  <2>2. m \in [0 .. SB_SIZE - 1 -> Int] /\ \A i \in 0 .. ln - 1 : m[i] = hs + i
    <3>1. ho + ln <= SB_SIZE /\ SB_SIZE \in Nat
      BY <1>1, <1>2
    <3>2. ASSUME NEW i \in 0 .. SB_SIZE - 1
          PROVE  (IF i < ln THEN dat[ho + i] ELSE dat[i]) \in Int
      <4>1. i < ln => ho + i \in 0 .. SB_SIZE - 1
        BY <1>1, <3>1
      <4> QED
        BY <1>1, <4>1
    <3>3. ASSUME NEW i \in 0 .. ln - 1 PROVE m[i] = hs + i
      <4>1. i \in 0 .. SB_SIZE - 1 /\ i < ln
        BY <1>1, <3>1
      <4> QED
        BY <1>1, <4>1
    <3> QED
      BY <3>2, <3>3, Zenon
  <2> HIDE DEF m
  <2>3. d \in [0 .. SB_SIZE - 1 -> Int] /\ \A i \in 0 .. ln + n - 1 : d[i] = hs + i
    <3>1. d = [i \in 0 .. SB_SIZE - 1 |->
                  IF i \in 0 + ln .. 0 + ln + n - 1
                  THEN hs + ln + (i - (0 + ln)) ELSE m[i]]
      BY <1>1
    <3>2. \A i \in 0 .. ln - 1 : m[0 + i] = hs + i
      BY <2>2
    <3> HIDE DEF d
    <3>3. d \in [0 .. SB_SIZE - 1 -> Int] /\ \A i \in 0 .. ln + n - 1 : d[0 + i] = hs + i
      BY <1>1, <1>2, <2>2, <3>1, <3>2, PutInPlace, SMTT(30)
    <3> QED
      BY <3>3
  <2> HIDE DEF d
  <2>4. SBPut(b, n) = [head_seq |-> hs, len |-> ln + n, head_off |-> 0,
                       tail_off |-> ln + n, data |-> d]
    BY <1>1, <2>1, Zenon DEF Buffers
  <2>5. SBPut(b, n) \in Buffers
    BY <1>1, <2>3, <2>4 DEF Buffers
  <2>6. BufferExact(SBPut(b, n))
    BY <1>1, <1>2, <2>3, <2>4 DEF BufferExact
  <2> QED
    BY <1>1, <2>4, <2>5, <2>6
<1> QED
    BY <1>3, <1>4

(* SBRemove takes from the front.                                          *)
LEMMA RemoveExact ==
    ASSUME NEW b \in Buffers, BufferExact(b), NEW n \in Nat, n > 0, n <= b.len
    PROVE  /\ SBRemove(b, n) \in Buffers /\ BufferExact(SBRemove(b, n))
           /\ SBRemove(b, n).head_seq = b.head_seq + n
           /\ SBRemove(b, n).len = b.len - n
<1>1. PICK hs \in Nat, ln \in Nat, ho \in Nat, dat \in [0 .. SB_SIZE - 1 -> Int] :
          /\ b.head_seq = hs /\ b.len = ln /\ b.head_off = ho /\ b.data = dat
          /\ b.tail_off = ho + ln /\ ho + ln <= SB_SIZE
          /\ \A i \in 0 .. ln - 1 : dat[ho + i] = hs + i
    BY BufferParts, Zenon
<1>2. SB_SIZE \in Nat /\ n <= ln
    BY <1>1, BufferFields
<1>3. SBRemove(b, n) = [head_seq |-> hs + n, len |-> ln - n,
                        head_off |-> IF n = ln THEN 0 ELSE ho + n,
                        tail_off |-> IF n = ln THEN 0 ELSE ho + ln, data |-> dat]
  <2> DEFINE h == IF n = ln THEN 0 ELSE ho + n
             t == IF n = ln THEN 0 ELSE ho + ln
  <2>1. SBRemove(b, n) = [b EXCEPT !.head_seq = hs + n, !.len = ln - n,
                                   !.head_off = h, !.tail_off = t]
    BY <1>1 DEF SBRemove
  <2> HIDE DEF h, t
  <2>2. SBRemove(b, n) = [head_seq |-> hs + n, len |-> ln - n, head_off |-> h,
                          tail_off |-> t, data |-> dat]
    BY <1>1, <2>1, Zenon DEF Buffers
  <2> QED
    BY <2>2 DEF h, t
<1>4. SBRemove(b, n) \in Buffers
    BY <1>1, <1>2, <1>3 DEF Buffers
<1>5. \A i \in 0 .. ln - n - 1 : dat[ho + n + i] = hs + n + i
  <2> TAKE i \in 0 .. ln - n - 1
  <2>1. n + i \in 0 .. ln - 1 /\ ho + n + i = ho + (n + i) /\ hs + n + i = hs + (n + i)
    BY <1>1, <1>2
  <2> QED
    BY <1>1, <2>1, SMTT(30)
<1>6. BufferExact(SBRemove(b, n))
  <2>1. CASE n = ln
    BY <1>1, <1>2, <1>3, <2>1 DEF BufferExact
  <2>2. CASE n # ln
    BY <1>1, <1>2, <1>3, <1>5, <2>2 DEF BufferExact
  <2> QED
    BY <2>1, <2>2
<1> QED
    BY <1>1, <1>3, <1>4, <1>6

(* The peer acknowledges what it has: everything before the number, and    *)
(* the FIN only after all of the data.                                     *)
LEMMA AcksExact ==
    ASSUME SendInv, NEW a \in Nat, Acks(peer, a)
    PROVE  \/ a <= Written /\ 0 .. a - 1 \subseteq peer.got
           \/ /\ peer.fin /\ a = snd.fss + 1 /\ snd.fss = Written
              /\ 0 .. Written - 1 \subseteq peer.got
<1>1. /\ Written \in Nat /\ peer.got \subseteq 0 .. Written - 1
      /\ peer.fin => snd.fss = Written
  <2>1. sbuf.head_seq \in Nat /\ sbuf.len \in Nat
    BY BufferFields DEF SendInv, SendTypeOK
  <2>2. Written \in Nat
    BY <2>1 DEF Written
  <2> QED
    BY <2>2 DEF SendInv, PeerExact, CloseExact
<1>2. CASE 0 .. a - 1 \subseteq peer.got
  <2>1. ASSUME a > Written PROVE FALSE
    BY <1>1, <1>2, <2>1
  <2> QED
    BY <1>1, <1>2, <2>1
<1>3. CASE peer.fin /\ a = snd.fss + 1 /\ 0 .. snd.fss - 1 \subseteq peer.got
    BY <1>1, <1>3
<1> QED
    BY <1>2, <1>3 DEF Acks

(* The types of the fields, for the steps that do arithmetic on them.      *)
LEMMA Fields ==
    ASSUME SendInv
    PROVE  /\ sbuf.head_seq \in Nat /\ sbuf.len \in Nat /\ Written \in Nat
           /\ Written = sbuf.head_seq + sbuf.len
           /\ snd.nxt \in Nat /\ snd.una \in Nat /\ snd.fss \in Int
           /\ snd.fin_sent \in BOOLEAN /\ snd.last_ack \in Nat /\ snd.dup_acks \in 0 .. 4
           /\ sbuf.head_seq = IF state = "FIN_WAIT_2" THEN snd.fss ELSE snd.una
<1>1. sbuf.head_seq \in Nat /\ sbuf.len \in Nat
    BY BufferFields DEF SendInv, SendTypeOK
<1>2. Written \in Nat /\ Written = sbuf.head_seq + sbuf.len
    BY <1>1 DEF Written
<1>3. /\ snd.nxt \in Nat /\ snd.una \in Nat /\ snd.fss \in Int
      /\ snd.fin_sent \in BOOLEAN /\ snd.last_ack \in Nat /\ snd.dup_acks \in 0 .. 4
    BY DEF SendInv, SendTypeOK, Snds
<1> QED
    BY <1>1, <1>2, <1>3 DEF SendInv, SendExact

(* What a close has settled, once the stream is no longer ESTABLISHED.     *)
LEMMA CloseFacts ==
    ASSUME SendInv
    PROVE  /\ state # "ESTABLISHED" => snd.fss = Written /\ apc = "closed"
           /\ state = "FIN_WAIT_2" => snd.una = Written + 1 /\ snd.fin_sent
           /\ snd.fin_sent => state # "ESTABLISHED"
           /\ peer.fin => snd.fin_sent
    BY DEF SendInv, CloseExact, PeerExact

(* An acknowledgement never runs ahead of the peer: the number b that      *)
(* ProcessACK is given acknowledges data the peer has, and the one that    *)
(* acknowledges the FIN for the first time acknowledges all data with it.  *)
LEMMA AckBounds ==
    ASSUME SendInv, NEW a \in Nat, a <= snd.una \/ Acks(peer, a)
    PROVE  \E b \in Nat :
               /\ b = IF OfFin(a) THEN a - 1 ELSE a
               /\ New(b) => /\ b <= Written /\ 0 .. b - 1 \subseteq peer.got
                            /\ state # "FIN_WAIT_2"
               /\ OfFin(a) /\ state = "FIN_WAIT_1" =>
                      b = Written /\ a = Written + 1 /\ 0 .. Written - 1 \subseteq peer.got
<1> DEFINE b == IF OfFin(a) THEN a - 1 ELSE a
<1>1. OfFin(a) => a = Written + 1 /\ b = Written
    BY Fields, CloseFacts DEF OfFin
<1>2. b \in Nat /\ b <= a
    BY <1>1, Fields
<1>3. ASSUME a <= snd.una PROVE ~New(b) /\ ~(OfFin(a) /\ state = "FIN_WAIT_1")
  <2>1. CASE state = "FIN_WAIT_2"
    <3>1. snd.fin_sent /\ snd.fss = Written /\ snd.una = Written + 1 /\ sbuf.head_seq = snd.fss
      BY <2>1, Fields, CloseFacts
    <3>2. a = Written + 1 => OfFin(a)
      BY <2>1, <3>1 DEF OfFin
    <3>3. b <= Written
      BY <1>1, <1>3, <3>1, <3>2, Fields
    <3> QED
      BY <1>2, <2>1, <3>1, <3>3, Fields DEF New
  <2>2. CASE state # "FIN_WAIT_2"
    <3>1. sbuf.head_seq = snd.una /\ snd.una <= Written
      BY <2>2, Fields
    <3> QED
      BY <1>1, <1>2, <1>3, <3>1, Fields DEF New
  <2> QED
    BY <2>1, <2>2
<1>4. ASSUME a > snd.una, Acks(peer, a)
      PROVE  /\ b <= Written /\ 0 .. b - 1 \subseteq peer.got /\ state # "FIN_WAIT_2"
             /\ OfFin(a) => 0 .. Written - 1 \subseteq peer.got
  <2>1. CASE a <= Written /\ 0 .. a - 1 \subseteq peer.got
    <3>1. ~OfFin(a) /\ state # "FIN_WAIT_2"
      BY <1>1, <1>4, <2>1, Fields, CloseFacts
    <3> QED
      BY <2>1, <3>1
  <2>2. CASE /\ peer.fin /\ a = snd.fss + 1 /\ snd.fss = Written
             /\ 0 .. Written - 1 \subseteq peer.got
    <3>1. OfFin(a)
      BY <2>2, CloseFacts DEF OfFin
    <3>2. state # "FIN_WAIT_2"
      BY <1>4, <2>2, Fields, CloseFacts
    <3> QED
      BY <1>1, <2>2, <3>1, <3>2, Fields
  <2> QED
    BY <1>4, <2>1, <2>2, AcksExact
<1> HIDE DEF b
<1>5. /\ New(b) => /\ b <= Written /\ 0 .. b - 1 \subseteq peer.got
                   /\ state # "FIN_WAIT_2"
      /\ OfFin(a) /\ state = "FIN_WAIT_1" =>
             b = Written /\ a = Written + 1 /\ 0 .. Written - 1 \subseteq peer.got
  <2>1. CASE a <= snd.una
    BY <1>3, <2>1
  <2>2. CASE ~(a <= snd.una)
    BY <1>1, <1>4, <2>2, Fields
  <2> QED
    BY <2>1, <2>2
<1> USE <1>2
<1> WITNESS b \in Nat
<1> QED
    BY <1>5 DEF b

(* The fields ProcessACK leaves.                                           *)
LEMMA AckFields ==
    ASSUME SendInv, NEW b \in Nat
    PROVE  /\ ProcessACK(b).snd \in Snds /\ NxtAfter(b) \in Nat
           /\ ProcessACK(b).snd.nxt = NxtAfter(b)
           /\ ProcessACK(b).snd.una = (IF New(b) THEN b ELSE snd.una)
           /\ ProcessACK(b).snd.fss = snd.fss
           /\ ProcessACK(b).snd.fin_sent = snd.fin_sent
           /\ ProcessACK(b).sbuf =
                  IF New(b) THEN SBRemove(sbuf, b - sbuf.head_seq) ELSE sbuf
<1> DEFINE u == IF New(b) THEN b ELSE snd.una
<1>1. snd \in Snds
    BY DEF SendInv, SendTypeOK
<1>2. DupAcks(b) \in 0 .. 4 /\ NxtAfter(b) \in Nat /\ u \in Nat
    BY Fields DEF DupAcks, NxtAfter
<1>3. ProcessACK(b).snd = [snd EXCEPT !.nxt = NxtAfter(b), !.una = u,
                                      !.dup_acks = DupAcks(b), !.last_ack = b]
    BY DEF ProcessACK
<1>4. ProcessACK(b).sbuf = IF New(b) THEN SBRemove(sbuf, b - sbuf.head_seq) ELSE sbuf
    BY DEF ProcessACK
<1>5. /\ ProcessACK(b).snd \in Snds /\ ProcessACK(b).snd.nxt = NxtAfter(b)
      /\ ProcessACK(b).snd.una = u /\ ProcessACK(b).snd.fss = snd.fss
      /\ ProcessACK(b).snd.fin_sent = snd.fin_sent
  <2> HIDE DEF u
  <2> QED
    BY <1>1, <1>2, <1>3, Zenon DEF Snds
<1> QED
    BY <1>2, <1>4, <1>5

(* The stream's place in queues and lists after it.                        *)
LEMMA AckLists ==
    ASSUME SendInv, NEW b \in Nat, NEW l, l = ProcessACK(b).lists
    PROVE  /\ l \in Lists
           /\ l.closeq = lists.closeq /\ l.closeq_int = lists.closeq_int
           /\ l.waiting = lists.waiting /\ l.on_sendq = lists.on_sendq
           /\ l.on_control_list = lists.on_control_list
           /\ l.on_send_list <=> \/ Fast(b)
                                 \/ IF Recovered(b) THEN sbuf.len # 0
                                                    ELSE lists.on_send_list
           /\ l.rto <=> IF New(b) THEN NxtAfter(b) > b ELSE lists.rto
<1> DEFINE o == \/ Fast(b)
                \/ IF Recovered(b) THEN sbuf.len # 0 ELSE lists.on_send_list
           t == IF New(b) THEN NxtAfter(b) > b ELSE lists.rto
<1>1. lists \in Lists
    BY DEF SendInv, SendTypeOK
<1>2. o \in BOOLEAN
    OBVIOUS
<1>3. t \in BOOLEAN
  <2>1. lists.rto \in BOOLEAN
    BY <1>1 DEF Lists
  <2>2. (NxtAfter(b) > b) \in BOOLEAN
    BY AckFields
  <2> QED
    BY <2>1, <2>2, Zenon
<1>4. l = [lists EXCEPT !.on_send_list = o, !.rto = t]
    BY DEF ProcessACK
<1> HIDE DEF o, t
<1>5. /\ l \in Lists /\ l.on_send_list = o /\ l.rto = t
      /\ l.closeq = lists.closeq /\ l.closeq_int = lists.closeq_int
      /\ l.waiting = lists.waiting /\ l.on_sendq = lists.on_sendq
      /\ l.on_control_list = lists.on_control_list
    BY <1>1, <1>2, <1>3, <1>4, Zenon DEF Lists
<1> QED
    BY <1>5, Zenon DEF o, t

(* The buffer after it: what is acknowledged goes, and nothing else.       *)
LEMMA AckBuffer ==
    ASSUME SendInv, NEW b \in Nat, New(b) => b <= Written
    PROVE  /\ ProcessACK(b).sbuf \in Buffers /\ BufferExact(ProcessACK(b).sbuf)
           /\ ProcessACK(b).sbuf.head_seq = IF New(b) THEN b ELSE sbuf.head_seq
           /\ ProcessACK(b).sbuf.head_seq + ProcessACK(b).sbuf.len = Written
           /\ sbuf.len = 0 => ~New(b) /\ ProcessACK(b).sbuf.len = 0
<1>1. sbuf \in Buffers /\ BufferExact(sbuf)
    BY DEF SendInv, SendTypeOK, SendExact
<1>2. CASE New(b)
  <2> DEFINE n == b - sbuf.head_seq
  <2>1. n \in Nat /\ n > 0 /\ n <= sbuf.len
    BY <1>2, Fields DEF New
  <2>2. ProcessACK(b).sbuf = SBRemove(sbuf, n)
    BY <1>2, AckFields
  <2> HIDE DEF n
  <2>3. /\ ProcessACK(b).sbuf \in Buffers /\ BufferExact(ProcessACK(b).sbuf)
        /\ ProcessACK(b).sbuf.head_seq = sbuf.head_seq + n
        /\ ProcessACK(b).sbuf.len = sbuf.len - n
    BY <1>1, <2>1, <2>2, RemoveExact
  <2> QED
    BY <1>2, <2>1, <2>3, Fields DEF n
<1>3. CASE ~New(b)
    BY <1>1, <1>3, AckFields, Fields
<1> QED
    BY <1>2, <1>3

(* The first acknowledgement of the FIN: the buffer is empty, and the      *)
(* stream goes to FIN_WAIT_2.                                              *)
LEMMA LastAckKeeps ==
    ASSUME SendInv, NEW a \in Nat, NEW b \in Nat, b = a - 1, HandleACK(a),
           OfFin(a), state = "FIN_WAIT_1",
           b = Written, a = Written + 1, 0 .. Written - 1 \subseteq peer.got,
           UNCHANGED <<apc, peer, missed>>, spc' \in {"rx", "timer"}
    PROVE  SendInv'
<1> DEFINE r == ProcessACK(b)
<1>1. /\ snd' = [r.snd EXCEPT !.una = a, !.nxt = IF a > r.snd.nxt THEN a ELSE r.snd.nxt]
      /\ sbuf' = r.sbuf /\ lists' = [r.lists EXCEPT !.rto = FALSE]
      /\ state' = "FIN_WAIT_2"
    BY DEF HandleACK
<1>2. /\ r.snd \in Snds /\ r.lists \in Lists /\ r.snd.nxt \in Nat
      /\ r.snd.fss = snd.fss /\ r.snd.fin_sent = snd.fin_sent
    BY AckFields, AckLists
<1>3. /\ sbuf' \in Buffers /\ BufferExact(sbuf') /\ sbuf'.head_seq = Written
      /\ sbuf'.head_seq + sbuf'.len = Written
    BY <1>1, AckBuffer, Fields DEF New
<1>4. /\ snd' \in Snds /\ snd'.una = a /\ snd'.nxt \in Nat /\ snd'.nxt >= a
      /\ snd'.fss = snd.fss /\ snd'.fin_sent = snd.fin_sent
  <2> DEFINE n == IF a > r.snd.nxt THEN a ELSE r.snd.nxt
  <2>1. n \in Nat /\ n >= a
    BY <1>2
  <2>2. snd' = [r.snd EXCEPT !.una = a, !.nxt = n]
    BY <1>1, Zenon
  <2> HIDE DEF n, r
  <2> QED
    BY <1>2, <2>1, <2>2, Zenon DEF Snds
<1>5. /\ lists' \in Lists /\ lists'.closeq = lists.closeq
      /\ lists'.closeq_int = lists.closeq_int /\ lists'.waiting = lists.waiting
  <2>1. /\ r.lists.closeq = lists.closeq
        /\ r.lists.closeq_int = lists.closeq_int /\ r.lists.waiting = lists.waiting
    BY AckLists
  <2> HIDE DEF r
  <2> QED
    BY <1>1, <1>2, <2>1, Zenon DEF Lists
<1> HIDE DEF r
<1>6. Written' = Written /\ sbuf'.len = 0 /\ snd.fss = Written /\ snd.fin_sent
  <2>1. sbuf'.len \in Nat
    BY <1>3 DEF Buffers
  <2> QED
    BY <1>3, <2>1, Fields, CloseFacts DEF Written, OfFin
<1>7. SendTypeOK'
    BY <1>1, <1>3, <1>4, <1>5 DEF SendInv, SendTypeOK
<1>8. SendExact'
    BY <1>1, <1>3, <1>4, <1>6 DEF SendInv, SendExact
<1>9. CloseExact'
    BY <1>1, <1>4, <1>5, <1>6, Fields, Zenon DEF SendInv, CloseExact
<1>10. PeerExact'
    BY <1>4, <1>6 DEF SendInv, PeerExact
<1>11. ScheduledInd'
    BY <1>4, <1>6, Fields DEF ScheduledInd
<1> QED
    BY <1>7, <1>8, <1>9, <1>10, <1>11 DEF SendInv

(* Every other acknowledgement.  One that is new and ends below snd_nxt    *)
(* leaves the schedule alone; one beyond it finds data in the buffer, and  *)
(* puts the stream on the send list.                                       *)
LEMMA AckKeeps ==
    ASSUME SendInv, NEW a \in Nat, NEW b \in Nat, b = (IF OfFin(a) THEN a - 1 ELSE a),
           HandleACK(a), ~(OfFin(a) /\ state = "FIN_WAIT_1"), spc = "rx",
           New(b) => /\ b <= Written /\ 0 .. b - 1 \subseteq peer.got
                     /\ state # "FIN_WAIT_2",
           UNCHANGED <<apc, peer, missed>>, spc' \in {"rx", "timer"}
    PROVE  SendInv'
<1>1. /\ snd' = ProcessACK(b).snd /\ sbuf' = ProcessACK(b).sbuf
      /\ lists' = ProcessACK(b).lists /\ state' = state
    BY DEF HandleACK
<1>2. /\ snd' \in Snds /\ lists' \in Lists
      /\ snd'.nxt = NxtAfter(b) /\ snd'.una = (IF New(b) THEN b ELSE snd.una)
      /\ snd'.fss = snd.fss /\ snd'.fin_sent = snd.fin_sent /\ NxtAfter(b) \in Nat
    BY <1>1, AckFields, AckLists
<1>3. /\ sbuf' \in Buffers /\ BufferExact(sbuf')
      /\ sbuf'.head_seq = (IF New(b) THEN b ELSE sbuf.head_seq)
      /\ sbuf'.head_seq + sbuf'.len = Written
      /\ sbuf.len = 0 => ~New(b) /\ sbuf'.len = 0
    BY <1>1, AckBuffer
<1>4. Written' = Written
    BY <1>3 DEF Written
<1>5. /\ lists'.closeq = lists.closeq /\ lists'.closeq_int = lists.closeq_int
      /\ lists'.waiting = lists.waiting /\ lists'.on_sendq = lists.on_sendq
      /\ lists'.on_control_list = lists.on_control_list
      /\ lists'.on_send_list <=> \/ Fast(b)
                                 \/ IF Recovered(b) THEN sbuf.len # 0
                                                    ELSE lists.on_send_list
      /\ lists'.rto <=> IF New(b) THEN NxtAfter(b) > b ELSE lists.rto
    BY <1>1, AckLists
<1>6. SendTypeOK'
    BY <1>1, <1>2, <1>3 DEF SendInv, SendTypeOK
<1>7. SendExact'
  <2>1. CASE New(b)
    BY <1>1, <1>2, <1>3, <2>1 DEF SendInv, SendExact
  <2>2. CASE ~New(b)
    BY <1>1, <1>2, <1>3, <2>2, SMTT(30) DEF SendInv, SendExact
  <2> QED
    BY <2>1, <2>2
<1>8. CloseExact'
  <2>1. state = "FIN_WAIT_2" => snd'.una = snd.una
    BY <1>2
  <2>2. lists'.waiting => lists'.on_send_list \/ sbuf'.len = 0
    BY <1>3, <1>5 DEF SendInv, CloseExact
  <2> QED
    BY <1>1, <1>2, <1>4, <1>5, <2>1, <2>2 DEF SendInv, CloseExact
<1>9. PeerExact'
    BY <1>2, <1>4 DEF SendInv, PeerExact
<1>10. ScheduledInd'
  <2> SUFFICES ASSUME Written > NxtAfter(b), ~lists'.on_send_list
               PROVE  ScheduledInd'
    BY <1>2, <1>4 DEF ScheduledInd
  <2>1. ~Fast(b)
    BY <1>5
  <2>2. CASE Recovered(b)
    <3>1. sbuf.len = 0 /\ NxtAfter(b) = b
      BY <1>5, <2>2 DEF NxtAfter
    <3>2. ~New(b) /\ b < sbuf.head_seq
      BY <1>3, <3>1, Fields
    <3>3. b < snd.una
      BY <3>2, Fields, CloseFacts
    <3> QED
      BY <1>2, <3>1, <3>2, <3>3 DEF ScheduledInd
  <2>3. CASE ~Recovered(b)
    <3>1. NxtAfter(b) = snd.nxt /\ b <= snd.nxt
      BY <2>1, <2>3, Fields DEF NxtAfter, Recovered
    <3>2. ~lists.on_send_list
      BY <1>5, <2>3
    <3>3. New(b) => snd.una < b
      BY Fields, CloseFacts DEF New
    <3>4. /\ snd'.una >= snd.una
          /\ snd.nxt = snd.una => snd'.una = snd.una /\ (lists'.rto <=> lists.rto)
      <4>1. CASE New(b)
        BY <1>2, <3>1, <3>3, <4>1, Fields
      <4>2. CASE ~New(b)
        BY <1>2, <1>5, <4>2, Fields
      <4> QED
        BY <4>1, <4>2
    <3>5. ScheduledInd /\ Written > snd.nxt
      BY <3>1 DEF SendInv
    <3>6. LeftToTimer => LeftToTimer'
      BY <1>2, <1>5, <3>1, <3>4 DEF LeftToTimer
    <3>7. snd.nxt < snd.una => snd'.nxt < snd'.una
      BY <1>2, <3>1, <3>4, Fields
    <3> QED
      BY <1>5, <3>2, <3>5, <3>6, <3>7 DEF ScheduledInd
  <2> QED
    BY <2>2, <2>3
<1> QED
    BY <1>6, <1>7, <1>8, <1>9, <1>10 DEF SendInv

(* mtcp_write: CopyFromUser appends to the buffer under the lock, and the  *)
(* application goes on to see to it that the stream is served.             *)
LEMMA WriteKeeps ==
    ASSUME SendInv, NEW n \in 1 .. MaxWrite, mtcp_write(n)
    PROVE  SendInv'
<1>1. /\ apc = "idle" /\ state = "ESTABLISHED" /\ sbuf.len < SB_SIZE
      /\ Written + n <= MaxData /\ apc' = "on_sendq"
      /\ UNCHANGED <<snd, lists, state, spc, peer, missed>>
    BY DEF mtcp_write
<1>2. PICK put \in {IF n <= SB_SIZE - sbuf.len THEN n ELSE SB_SIZE - sbuf.len} :
          sbuf' = SBPut(sbuf, put)
    BY DEF mtcp_write
<1>3. put \in Nat /\ put > 0 /\ put <= n /\ sbuf.len + put <= SB_SIZE
    BY <1>1, <1>2, Fields, MtcpSendAssumption
<1>4. /\ sbuf' \in Buffers /\ BufferExact(sbuf')
      /\ sbuf'.head_seq = sbuf.head_seq /\ sbuf'.len = sbuf.len + put
    BY <1>2, <1>3, PutExact DEF SendInv, SendTypeOK, SendExact
<1>5. Written' \in Nat /\ Written' >= Written /\ Written' <= MaxData
    BY <1>1, <1>3, <1>4, Fields, MtcpSendAssumption DEF Written
<1>6. ~lists.closeq /\ ~lists.closeq_int /\ ~lists.waiting /\ snd.fss = -1
    BY <1>1 DEF SendInv, CloseExact
<1>7. SendTypeOK'
    BY <1>1, <1>4 DEF SendInv, SendTypeOK
<1>8. SendExact'
    BY <1>1, <1>4 DEF SendInv, SendExact
<1>9. CloseExact'
    BY <1>1, <1>6 DEF SendInv, CloseExact
<1>10. PeerExact'
  <2>1. 0 .. Written - 1 \subseteq 0 .. Written' - 1
    BY <1>5, Fields
  <2> QED
    BY <1>1, <1>5, <2>1 DEF SendInv, PeerExact
<1>11. ScheduledInd'
    BY <1>1 DEF ScheduledInd
<1> QED
    BY <1>7, <1>8, <1>9, <1>10, <1>11 DEF SendInv

(* mtcp_write's tests of the flags.  It goes away satisfied only if the    *)
(* stream is on the queue, or on the send list and not about to leave it.  *)
LEMMA TestsKeep ==
    ASSUME SendInv, test_on_sendq \/ test_on_send_list
    PROVE  SendInv'
<1>1. UNCHANGED <<sbuf, snd, lists, state, spc, peer>> /\ Written' = Written
    BY DEF test_on_sendq, test_on_send_list, Written
<1>2. apc \in {"on_sendq", "on_send_list"} /\ apc' \in {"idle", "on_send_list", "enqueue"}
    BY DEF test_on_sendq, test_on_send_list
<1>3. missed' \in BOOLEAN /\ (missed => missed')
    BY Zenon DEF test_on_sendq, test_on_send_list, SendInv, SendTypeOK
<1>4. SendTypeOK' /\ SendExact' /\ PeerExact'
    BY <1>1, <1>2, <1>3 DEF SendInv, SendTypeOK, SendExact, PeerExact
<1>5. CloseExact'
    BY <1>1, <1>2 DEF SendInv, CloseExact
<1>6. ScheduledInd'
  <2>1. CASE test_on_sendq
    BY <1>1, <2>1 DEF ScheduledInd, test_on_sendq
  <2>2. CASE test_on_send_list
    BY <1>1, <2>2, Zenon DEF ScheduledInd, test_on_send_list
  <2> QED
    BY <2>1, <2>2
<1> QED
    BY <1>4, <1>5, <1>6 DEF SendInv

(* The stream is queued, or its close is.                                  *)
LEMMA EnqueueKeeps ==
    ASSUME SendInv, enqueue_sendq \/ CloseStreamSocket
    PROVE  SendInv'
<1>1. UNCHANGED <<sbuf, snd, state, spc, peer, missed>> /\ Written' = Written
    BY DEF enqueue_sendq, CloseStreamSocket, Written
<1>2. lists \in Lists /\ (apc' = "idle" \/ apc' = "closed")
    BY DEF enqueue_sendq, CloseStreamSocket, SendInv, SendTypeOK
<1>3. CASE enqueue_sendq
  <2>1. /\ lists' \in Lists /\ lists'.on_sendq
        /\ lists'.closeq = lists.closeq /\ lists'.closeq_int = lists.closeq_int
        /\ lists'.waiting = lists.waiting /\ lists'.on_send_list = lists.on_send_list
    BY <1>2, <1>3, Zenon DEF enqueue_sendq, Lists
  <2>2. apc = "enqueue"
    BY <1>3 DEF enqueue_sendq
  <2>3. SendTypeOK' /\ SendExact' /\ PeerExact'
    BY <1>1, <1>2, <2>1 DEF SendInv, SendTypeOK, SendExact, PeerExact
  <2>4. CloseExact' /\ ScheduledInd'
    BY <1>1, <2>1, <2>2 DEF SendInv, CloseExact, ScheduledInd
  <2> QED
    BY <2>3, <2>4 DEF SendInv
<1>4. CASE CloseStreamSocket
  <2>1. /\ lists' \in Lists /\ lists'.closeq /\ lists'.closeq_int = lists.closeq_int
        /\ lists'.on_sendq = lists.on_sendq /\ lists'.on_send_list = lists.on_send_list
        /\ lists'.on_control_list = lists.on_control_list
        /\ lists'.waiting = lists.waiting /\ lists'.rto = lists.rto
    BY <1>2, <1>4, Zenon DEF CloseStreamSocket, Lists
  <2>2. apc = "idle" /\ apc' = "closed"
    BY <1>4 DEF CloseStreamSocket
  <2>3. SendTypeOK' /\ SendExact' /\ PeerExact'
    BY <1>1, <1>2, <2>1 DEF SendInv, SendTypeOK, SendExact, PeerExact
  <2>4. CloseExact'
    BY <1>1, <2>1, <2>2 DEF SendInv, CloseExact
  <2>5. ScheduledInd'
    BY <1>1, <2>1, <2>2 DEF SendInv, ScheduledInd, LeftToTimer
  <2> QED
    BY <2>3, <2>4, <2>5 DEF SendInv
<1> QED
    BY <1>3, <1>4

(* An acknowledgement, new or old.                                         *)
LEMMA ReceiveKeeps ==
    ASSUME SendInv, rx_new \/ rx_old
    PROVE  SendInv'
<1>1. /\ spc = "rx" /\ spc' \in {"rx", "timer"}
      /\ UNCHANGED <<apc, peer, missed>>
    BY DEF rx_new, rx_old
<1>2. PICK a \in Nat : HandleACK(a) /\ (a <= snd.una \/ Acks(peer, a))
  <2>1. CASE rx_new
    <3>1. PICK a \in snd.una + 1 .. MaxData + 1 : Acks(peer, a) /\ HandleACK(a)
      BY <2>1 DEF rx_new
    <3>2. a \in Nat
      BY Fields, MtcpSendAssumption
    <3> QED
      BY <3>1, <3>2
  <2>2. CASE rx_old
    <3>1. PICK a \in 0 .. snd.una : HandleACK(a)
      BY <2>2 DEF rx_old
    <3>2. a \in Nat /\ a <= snd.una
      BY Fields
    <3> QED
      BY <3>1, <3>2
  <2> QED
    BY <2>1, <2>2
<1>3. PICK b \in Nat :
          /\ b = IF OfFin(a) THEN a - 1 ELSE a
          /\ New(b) => /\ b <= Written /\ 0 .. b - 1 \subseteq peer.got
                       /\ state # "FIN_WAIT_2"
          /\ OfFin(a) /\ state = "FIN_WAIT_1" =>
                 b = Written /\ a = Written + 1 /\ 0 .. Written - 1 \subseteq peer.got
    BY <1>2, AckBounds
<1>4. CASE OfFin(a) /\ state = "FIN_WAIT_1"
  <2>1. b = a - 1
    BY <1>3, <1>4
  <2> QED
    BY <1>1, <1>2, <1>3, <1>4, <2>1, LastAckKeeps
<1>5. CASE ~(OfFin(a) /\ state = "FIN_WAIT_1")
    BY <1>1, <1>2, <1>3, <1>5, AckKeeps
<1> QED
    BY <1>4, <1>5

(* HandleRTO goes back to snd_una and puts the stream on the send list,    *)
(* unless all data is acknowledged and only the FIN is to be repeated.     *)
LEMMA TimeoutKeeps ==
    ASSUME SendInv, CheckRtmTimeout
    PROVE  SendInv'
<1>1. UNCHANGED <<sbuf, state, apc, peer>> /\ Written' = Written /\ spc' = "sendq"
    BY DEF CheckRtmTimeout, Written
<1>2. /\ snd' \in Snds /\ snd'.nxt = snd.una /\ snd'.una = snd.una
      /\ snd'.fss = snd.fss /\ snd'.fin_sent = snd.fin_sent
    BY DEF SendInv, SendTypeOK, Snds, CheckRtmTimeout, HandleRTO
<1>3. /\ lists' \in Lists /\ lists'.closeq = lists.closeq
      /\ lists'.closeq_int = lists.closeq_int
  <2>1. lists \in Lists
    BY DEF SendInv, SendTypeOK
  <2> QED
    BY <2>1, ZenonT(60) DEF Lists, CheckRtmTimeout, HandleRTO, AddtoSendList
<1>4. \/ /\ lists'.on_send_list
         /\ lists'.waiting => lists.waiting \/ state # "ESTABLISHED"
      \/ /\ lists'.on_send_list = lists.on_send_list /\ lists'.waiting = lists.waiting
         /\ state # "ESTABLISHED" /\ ~(snd.una < snd.fss)
  <2>1. lists \in Lists
    BY DEF SendInv, SendTypeOK
  <2> QED
    BY <2>1, Zenon DEF Lists, CheckRtmTimeout, HandleRTO, AddtoSendList
<1>5. missed' \in BOOLEAN
    BY DEF CheckRtmTimeout, HandleRTO
<1>6. SendTypeOK' /\ SendExact' /\ PeerExact'
    BY <1>1, <1>2, <1>3, <1>5, SMTT(30) DEF SendInv, SendTypeOK, SendExact, PeerExact
<1>7. CloseExact'
    BY <1>1, <1>2, <1>3, <1>4 DEF SendInv, CloseExact
<1>8. ScheduledInd'
  <2>1. CASE lists'.on_send_list
    BY <1>1, <2>1 DEF ScheduledInd
  <2>2. CASE state # "ESTABLISHED" /\ ~(snd.una < snd.fss)
    <3>1. ~(Written > snd.una)
      BY <2>2, Fields, CloseFacts
    <3> QED
      BY <1>1, <1>2, <3>1 DEF ScheduledInd
  <2> QED
    BY <1>4, <2>1, <2>2
<1> QED
    BY <1>6, <1>7, <1>8 DEF SendInv

(* HandleApplicationCalls takes the stream from sendq to the send list.    *)
(* Between the two the program counter stands for it.                      *)
LEMMA SendqKeeps ==
    ASSUME SendInv, dequeue_sendq \/ clear_on_sendq \/ add_to_send_list
    PROVE  SendInv'
<1>1. UNCHANGED <<sbuf, snd, state, apc, peer>> /\ Written' = Written
    BY DEF dequeue_sendq, clear_on_sendq, add_to_send_list, Written
<1>2. lists \in Lists
    BY DEF SendInv, SendTypeOK
<1>3. /\ lists' \in Lists /\ lists'.closeq = lists.closeq
      /\ lists'.closeq_int = lists.closeq_int /\ lists'.waiting = lists.waiting
      /\ lists'.on_control_list = lists.on_control_list /\ lists'.rto = lists.rto
      /\ lists.on_send_list => lists'.on_send_list
    BY <1>2, Zenon DEF Lists, dequeue_sendq, clear_on_sendq, add_to_send_list, AddtoSendList
<1>4. missed' \in BOOLEAN /\ spc' \in {"flag", "closeq", "list", "sendq"} /\ spc # "clear"
    BY Zenon DEF dequeue_sendq, clear_on_sendq, add_to_send_list, SendInv, SendTypeOK
<1>5. SendTypeOK' /\ SendExact' /\ PeerExact'
    BY <1>1, <1>3, <1>4 DEF SendInv, SendTypeOK, SendExact, PeerExact
<1>6. CloseExact'
    BY <1>1, <1>3 DEF SendInv, CloseExact
<1>7. ScheduledInd'
  <2>1. CASE dequeue_sendq
    <3>1. lists'.on_sendq = lists.on_sendq /\ missed' = missed /\ spc = "sendq"
      BY <1>2, <2>1 DEF dequeue_sendq, Lists
    <3> QED
      BY <1>1, <1>3, <1>4, <3>1 DEF SendInv, ScheduledInd, LeftToTimer
  <2>2. CASE clear_on_sendq
    BY <2>2 DEF clear_on_sendq, ScheduledInd
  <2>3. CASE add_to_send_list
    <3>1. lists'.on_send_list /\ spc' = "sendq"
      BY <1>2, <2>3 DEF add_to_send_list, AddtoSendList, Lists
    <3> QED
      BY <3>1 DEF ScheduledInd
  <2> QED
    BY <2>1, <2>2, <2>3
<1> QED
    BY <1>5, <1>6, <1>7 DEF SendInv

(* A close is taken from its queue: the end of the data becomes known.     *)
LEMMA CloseqKeeps ==
    ASSUME SendInv, dequeue_closeq
    PROVE  SendInv'
<1>1. /\ UNCHANGED <<sbuf, apc, peer, missed>> /\ Written' = Written
      /\ spc = "closeq" /\ spc' = "closeq_int"
    BY SMTT(30) DEF dequeue_closeq, Written
<1>2. CASE ~lists.closeq
  <2>1. UNCHANGED <<snd, lists, state>>
    BY <1>2 DEF dequeue_closeq
  <2> QED
    BY <1>1, <2>1 DEF SendInv, SendTypeOK, SendExact, CloseExact, PeerExact,
                      ScheduledInd, LeftToTimer
<1>3. CASE lists.closeq
  <2>1. /\ snd.fss = -1 /\ state = "ESTABLISHED" /\ apc = "closed" /\ ~lists.closeq_int
        /\ ~lists.waiting /\ ~snd.fin_sent
    BY <1>3 DEF SendInv, CloseExact
  <2>2. /\ snd' \in Snds /\ snd'.nxt = snd.nxt /\ snd'.una = snd.una
        /\ snd'.fss = Written /\ snd'.fin_sent = snd.fin_sent
    <3>1. snd \in Snds /\ Written \in Int
      BY Fields DEF SendInv, SendTypeOK
    <3>2. snd' = [snd EXCEPT !.fss = Written]
      BY <1>3 DEF dequeue_closeq
    <3> QED
      BY <3>1, <3>2 DEF Snds
  <2>3. /\ lists' \in Lists /\ ~lists'.closeq /\ lists'.on_sendq = lists.on_sendq
        /\ lists'.on_send_list = lists.on_send_list
        /\ \/ state' = "ESTABLISHED" /\ lists'.closeq_int /\ ~lists'.waiting
           \/ /\ state' = "FIN_WAIT_1" /\ ~lists'.closeq_int
              /\ lists'.waiting => lists'.on_send_list
    <3>1. lists \in Lists
      BY DEF SendInv, SendTypeOK
    <3> QED
      BY <1>3, <2>1, <3>1, ZenonT(60) DEF dequeue_closeq, Closed, Lists
  <2>4. SendTypeOK' /\ SendExact' /\ PeerExact'
    BY <1>1, <2>1, <2>2, <2>3 DEF SendInv, SendTypeOK, SendExact, PeerExact
  <2>5. CloseExact'
    BY <1>1, <2>1, <2>2, <2>3, Fields DEF CloseExact
  <2>6. ScheduledInd'
    BY <1>1, <2>1, <2>2, <2>3 DEF SendInv, ScheduledInd, LeftToTimer
  <2> QED
    BY <2>4, <2>5, <2>6 DEF SendInv
<1> QED
    BY <1>2, <1>3

(* A close that had to wait for a control packet.                          *)
LEMMA DelayedCloseKeeps ==
    ASSUME SendInv, dequeue_closeq_int
    PROVE  SendInv'
<1>1. /\ UNCHANGED <<sbuf, snd, apc, peer, missed>> /\ Written' = Written
      /\ spc = "closeq_int" /\ spc' = "control"
    BY DEF dequeue_closeq_int, Written
<1>2. CASE ~(lists.closeq_int /\ ~lists.on_control_list)
  <2>1. UNCHANGED <<lists, state>>
    BY <1>2 DEF dequeue_closeq_int
  <2> QED
    BY <1>1, <2>1 DEF SendInv, SendTypeOK, SendExact, CloseExact, PeerExact,
                      ScheduledInd, LeftToTimer
<1>3. CASE lists.closeq_int /\ ~lists.on_control_list
  <2>1. /\ snd.fss # -1 /\ state = "ESTABLISHED" /\ apc = "closed" /\ ~lists.closeq
        /\ ~lists.waiting /\ ~snd.fin_sent
    BY <1>3 DEF SendInv, CloseExact
  <2>2. /\ lists' \in Lists /\ ~lists'.closeq /\ ~lists'.closeq_int /\ ~lists'.waiting
        /\ lists'.on_sendq = lists.on_sendq /\ lists'.on_send_list = lists.on_send_list
        /\ state' = "FIN_WAIT_1"
    <3>1. lists \in Lists
      BY DEF SendInv, SendTypeOK
    <3> QED
      BY <1>3, <2>1, <3>1, Zenon DEF dequeue_closeq_int, Lists
  <2>3. SendTypeOK' /\ SendExact' /\ PeerExact'
    BY <1>1, <2>1, <2>2 DEF SendInv, SendTypeOK, SendExact, PeerExact
  <2>4. CloseExact' /\ ScheduledInd'
    BY <1>1, <2>1, <2>2 DEF SendInv, CloseExact, ScheduledInd, LeftToTimer
  <2> QED
    BY <2>3, <2>4 DEF SendInv
<1> QED
    BY <1>2, <1>3

(* The control list, when no FIN is sent: an ACK leaves it, or nothing.    *)
LEMMA ControlKeeps ==
    ASSUME SendInv, send_nothing \/ send_ack \/ send_later
    PROVE  SendInv'
<1>1. /\ UNCHANGED <<sbuf, snd, state, apc, peer, missed>> /\ Written' = Written
      /\ spc = "control" /\ spc' = "data"
    BY DEF send_nothing, send_ack, send_later, Written
<1>2. lists \in Lists
    BY DEF SendInv, SendTypeOK
<1>3. /\ lists' \in Lists /\ lists'.closeq = lists.closeq
      /\ lists'.closeq_int = lists.closeq_int /\ lists'.waiting = lists.waiting
      /\ lists'.on_sendq = lists.on_sendq /\ lists'.on_send_list = lists.on_send_list
      /\ lists'.rto = lists.rto
      /\ ~lists.on_control_list => ~lists'.on_control_list
    BY <1>2, Zenon DEF Lists, send_nothing, send_ack, send_later
<1>4. SendTypeOK' /\ SendExact' /\ PeerExact'
    BY <1>1, <1>3 DEF SendInv, SendTypeOK, SendExact, PeerExact
<1>5. CloseExact'
    BY <1>1, <1>3 DEF SendInv, CloseExact
<1>6. ScheduledInd'
    BY <1>1, <1>3 DEF SendInv, ScheduledInd, LeftToTimer
<1> QED
    BY <1>4, <1>5, <1>6 DEF SendInv

(* The FIN takes the sequence number snd_nxt, whatever that is.  If it is  *)
(* the one before the first byte that is not acknowledged, what is left    *)
(* after it is left to the timer.                                          *)
LEMMA FinKeeps ==
    ASSUME SendInv, send_fin
    PROVE  SendInv'
<1>1. /\ UNCHANGED <<sbuf, state, apc, missed>> /\ Written' = Written
      /\ spc = "control" /\ spc' = "data" /\ state = "FIN_WAIT_1"
      /\ lists.on_control_list /\ ~lists.on_send_list
    BY DEF send_fin, Written
<1>2. /\ lists' \in Lists /\ lists'.closeq = lists.closeq
      /\ lists'.closeq_int = lists.closeq_int /\ lists'.waiting = lists.waiting
      /\ lists'.on_sendq = lists.on_sendq /\ lists'.on_send_list = lists.on_send_list
      /\ lists'.rto /\ ~lists'.on_control_list
    BY Zenon DEF SendInv, SendTypeOK, Lists, send_fin
<1>3. /\ snd' \in Snds /\ snd'.nxt = snd.nxt + 1 /\ snd'.una = snd.una
      /\ snd'.fss = snd.fss /\ snd'.fin_sent
  <2> DEFINE n == snd.nxt + 1
  <2>1. snd \in Snds /\ n \in Nat
    BY Fields DEF SendInv, SendTypeOK
  <2>2. snd' = [snd EXCEPT !.nxt = n, !.fin_sent = TRUE]
    BY DEF send_fin
  <2> HIDE DEF n
  <2>3. /\ snd' \in Snds /\ snd'.nxt = n /\ snd'.una = snd.una
        /\ snd'.fss = snd.fss /\ snd'.fin_sent
    BY <2>1, <2>2, Zenon DEF Snds
  <2> QED
    BY <2>3 DEF n
<1>4. /\ peer' \in [got : SUBSET Nat, fin : BOOLEAN, wrong : BOOLEAN]
      /\ peer'.got = peer.got /\ peer'.wrong = peer.wrong
    BY Zenon DEF SendInv, SendTypeOK, send_fin
<1>5. SendTypeOK' /\ SendExact' /\ PeerExact'
    BY <1>1, <1>2, <1>3, <1>4 DEF SendInv, SendTypeOK, SendExact, PeerExact
<1>6. CloseExact'
    BY <1>1, <1>2, <1>3 DEF SendInv, CloseExact
<1>7. ScheduledInd'
  <2> SUFFICES ASSUME Written > snd.nxt + 1, ~missed, ~lists.on_sendq
               PROVE  snd.nxt + 1 < snd.una \/ LeftToTimer'
    BY <1>1, <1>2, <1>3 DEF ScheduledInd
  <2>1. snd.nxt < snd.una
    <3>1. Written > snd.nxt /\ apc = "closed"
      BY <1>1, Fields, CloseFacts
    <3> QED
      BY <1>1, <3>1 DEF SendInv, ScheduledInd, LeftToTimer
  <2>2. ASSUME snd.nxt + 1 = snd.una PROVE ~lists.waiting
    <3>1. sbuf.len # 0
      BY <1>1, <2>2, Fields
    <3> QED
      BY <1>1, <3>1 DEF SendInv, CloseExact
  <2> QED
    BY <1>2, <1>3, <2>1, <2>2, Fields DEF LeftToTimer
<1> QED
    BY <1>5, <1>6, <1>7 DEF SendInv

(* Steps of the stack thread that only move on.                            *)
LEMMA IdleKeeps ==
    ASSUME SendInv, rx_none \/ no_timeout \/ send_no_data \/ UNCHANGED sendVars
    PROVE  SendInv'
<1>1. /\ UNCHANGED <<sbuf, snd, lists, state, apc, peer, missed>> /\ Written' = Written
      /\ spc' = spc \/ (spc' \in {"timer", "sendq", "rx"} /\ spc \in {"rx", "timer", "data"})
    BY SMTT(30) DEF rx_none, no_timeout, send_no_data, sendVars, Written
<1>2. SendTypeOK' /\ SendExact' /\ PeerExact' /\ CloseExact'
    BY <1>1 DEF SendInv, SendTypeOK, SendExact, PeerExact, CloseExact
<1>3. ScheduledInd'
    BY <1>1 DEF SendInv, ScheduledInd, LeftToTimer
<1> QED
    BY <1>2, <1>3 DEF SendInv

(* The stream is about to leave the send list although nothing was sent:   *)
(* then there is nothing to send, or snd_nxt is below snd_una.             *)
LEMMA EmptyKeeps ==
    ASSUME SendInv, send_empty
    PROVE  SendInv'
<1>1. /\ UNCHANGED <<sbuf, snd, lists, state, apc, peer, missed>> /\ Written' = Written
      /\ spc' = "clear"
    BY SMTT(30) DEF send_empty, Written
<1>2. SendTypeOK' /\ SendExact' /\ PeerExact' /\ CloseExact'
    BY <1>1 DEF SendInv, SendTypeOK, SendExact, PeerExact, CloseExact
<1>3. ASSUME Written > snd.nxt PROVE snd.nxt < snd.una
  <2>1. CASE state = "FIN_WAIT_2"
    BY <1>3, <2>1, Fields, CloseFacts
  <2>2. CASE state # "FIN_WAIT_2"
    <3>1. sbuf.head_seq = snd.una
      BY <2>2, Fields
    <3>2. sbuf.len = 0 \/ ~FlushSane
      BY <2>2 DEF send_empty
    <3> QED
      BY <1>3, <3>1, <3>2, Fields DEF FlushSane
  <2> QED
    BY <2>1, <2>2
<1>4. ScheduledInd'
    BY <1>1, <1>3 DEF ScheduledInd
<1> QED
    BY <1>2, <1>4 DEF SendInv

(* FlushTCPSendingBuffer sends bytes of the buffer only, each from its     *)
(* place, and keeps the stream on the list unless it has sent them all.    *)
LEMMA DataKeeps ==
    ASSUME SendInv, send_data
    PROVE  SendInv'
<1>1. /\ UNCHANGED <<sbuf, state, apc, missed>> /\ Written' = Written
      /\ lists.on_send_list /\ state # "FIN_WAIT_2" /\ FlushSane
    BY DEF send_data, Written
<1>2. PICK w \in Windows : \E to \in snd.nxt .. FlushEnd(w) :
          \E lost \in SUBSET (snd.nxt .. to - 1) :
              /\ FlushTCPSendingBuffer(to, lost, to < FlushEnd(w))
              /\ spc' = IF to = Written THEN "clear" ELSE "rx"
    BY DEF send_data
<1>3. PICK to \in snd.nxt .. FlushEnd(w) : \E lost \in SUBSET (snd.nxt .. to - 1) :
          /\ FlushTCPSendingBuffer(to, lost, to < FlushEnd(w))
          /\ spc' = IF to = Written THEN "clear" ELSE "rx"
    BY <1>2
<1>4. PICK lost \in SUBSET (snd.nxt .. to - 1) :
          /\ FlushTCPSendingBuffer(to, lost, to < FlushEnd(w))
          /\ spc' = IF to = Written THEN "clear" ELSE "rx"
    BY <1>3
<1>5. to \in Nat /\ to <= Written /\ sbuf.head_seq <= snd.nxt /\ snd.nxt <= to
  <2>1. w \in Nat /\ sbuf.head_seq <= snd.nxt /\ snd.nxt <= Written
    BY <1>1, Fields, MtcpSendAssumption DEF FlushSane
  <2>2. FlushEnd(w) \in Nat /\ FlushEnd(w) <= Written
    BY <2>1, Fields DEF FlushEnd
  <2> QED
    BY <1>3, <2>1, <2>2, Fields
<1>6. /\ snd' \in Snds /\ snd'.nxt = to /\ snd'.una = snd.una
      /\ snd'.fss = snd.fss /\ snd'.fin_sent = snd.fin_sent
    BY <1>4, <1>5 DEF SendInv, SendTypeOK, Snds, FlushTCPSendingBuffer
<1>7. /\ lists' \in Lists /\ lists'.closeq = lists.closeq
      /\ lists'.closeq_int = lists.closeq_int /\ lists'.waiting = lists.waiting
      /\ lists'.on_send_list
  <2> DEFINE t == lists.rto \/ to > snd.nxt
  <2>1. lists \in Lists /\ t \in BOOLEAN /\ lists' = [lists EXCEPT !.rto = t]
    BY <1>4 DEF SendInv, SendTypeOK, FlushTCPSendingBuffer
  <2> HIDE DEF t
  <2> QED
    BY <1>1, <2>1 DEF Lists
<1>8. \A s \in snd.nxt .. to - 1 : sbuf.data[sbuf.head_off + s - sbuf.head_seq] = s
  <2> TAKE s \in snd.nxt .. to - 1
  <2>1. PICK hs \in Nat, ln \in Nat, ho \in Nat, dat \in [0 .. SB_SIZE - 1 -> Int] :
            /\ sbuf.head_seq = hs /\ sbuf.len = ln /\ sbuf.head_off = ho /\ sbuf.data = dat
            /\ sbuf.tail_off = ho + ln /\ ho + ln <= SB_SIZE
            /\ \A i \in 0 .. ln - 1 : dat[ho + i] = hs + i
    BY BufferParts, Zenon DEF SendInv, SendTypeOK, SendExact
  <2>2. s \in Nat /\ s >= hs /\ s < hs + ln
    BY <1>5, <2>1, Fields
  <2>3. /\ s - hs \in 0 .. ln - 1 /\ ho + s - hs = ho + (s - hs)
        /\ hs + (s - hs) = s
    BY <2>1, <2>2
  <2> QED
    BY <2>1, <2>3, Zenon
<1>9. /\ peer' \in [got : SUBSET Nat, fin : BOOLEAN, wrong : BOOLEAN]
      /\ peer.got \subseteq peer'.got /\ peer'.got \subseteq 0 .. Written - 1
      /\ peer'.fin = peer.fin /\ ~peer'.wrong
  <2> DEFINE g == peer.got \cup (snd.nxt .. to - 1 \ lost)
             v == \/ peer.wrong
                  \/ \E s \in snd.nxt .. to - 1 :
                         sbuf.data[sbuf.head_off + s - sbuf.head_seq] # s
  <2>1. peer \in [got : SUBSET Nat, fin : BOOLEAN, wrong : BOOLEAN]
    BY DEF SendInv, SendTypeOK
  <2>2. g \in SUBSET Nat /\ peer.got \subseteq g /\ g \subseteq 0 .. Written - 1
    BY <1>5, <2>1, Fields DEF SendInv, PeerExact
  <2>3. ~v /\ v \in BOOLEAN
    BY <1>8 DEF SendInv, SendExact
  <2>4. peer' = [peer EXCEPT !.got = g, !.wrong = v]
    BY <1>4, Zenon DEF FlushTCPSendingBuffer
  <2> HIDE DEF g, v
  <2> QED
    BY <2>1, <2>2, <2>3, <2>4, Zenon
<1>10. SendTypeOK'
    BY <1>1, <1>4, <1>6, <1>7, <1>9 DEF SendInv, SendTypeOK
<1>11. SendExact'
    BY <1>1, <1>6, <1>9 DEF SendInv, SendExact
<1>12. PeerExact'
    BY <1>1, <1>6, <1>9, SMTT(30) DEF SendInv, PeerExact
<1>13. CloseExact'
    BY <1>1, <1>6, <1>7, SMTT(30) DEF SendInv, CloseExact
<1>14. ScheduledInd'
    BY <1>1, <1>4, <1>5, <1>6, <1>7, Fields DEF ScheduledInd
<1> QED
    BY <1>10, <1>11, <1>12, <1>13, <1>14 DEF SendInv

(* The stream leaves the send list, and a FIN that waited for this goes    *)
(* onto the control list.                                                  *)
LEMMA ClearKeeps ==
    ASSUME SendInv, clear_on_send_list
    PROVE  SendInv'
<1>1. /\ UNCHANGED <<sbuf, snd, state, apc, peer, missed>> /\ Written' = Written
      /\ spc = "clear" /\ spc' = "rx"
    BY DEF clear_on_send_list, Written
<1>2. /\ lists' \in Lists /\ lists'.closeq = lists.closeq
      /\ lists'.closeq_int = lists.closeq_int /\ ~lists'.waiting
      /\ lists'.on_sendq = lists.on_sendq /\ lists'.rto = lists.rto
      /\ ~lists.on_control_list /\ ~lists.waiting => ~lists'.on_control_list
  <2> DEFINE c == lists.on_control_list \/ lists.waiting
  <2>1. /\ lists \in Lists /\ c \in BOOLEAN
        /\ lists' = [lists EXCEPT !.on_send_list = FALSE, !.waiting = FALSE,
                                  !.on_control_list = c]
    BY DEF SendInv, SendTypeOK, clear_on_send_list
  <2>2. ~lists.on_control_list /\ ~lists.waiting => ~c
    OBVIOUS
  <2> HIDE DEF c
  <2> QED
    BY <2>1, <2>2, Zenon DEF Lists
<1>3. SendTypeOK' /\ SendExact' /\ PeerExact'
    BY <1>1, <1>2 DEF SendInv, SendTypeOK, SendExact, PeerExact
<1>4. CloseExact'
    BY <1>1, <1>2 DEF SendInv, CloseExact
<1>5. ScheduledInd'
    BY <1>1, <1>2 DEF SendInv, ScheduledInd, LeftToTimer
<1> QED
    BY <1>3, <1>4, <1>5 DEF SendInv

(* The inductive invariant of mTCP's send side (mtcp_write, the main loop  *)
(* of RunMainLoop and all that it calls for one stream), for buffers,      *)
(* writes and windows of every size and any number of losses, repeated     *)
(* acknowledgements and failed transmissions.                              *)
THEOREM SendInvariant == SendSpec => []SendInv
<1>1. SendInit => SendInv
  <2> SUFFICES ASSUME SendInit PROVE SendInv
    BY SMTT(30)
  <2>1. /\ sbuf \in Buffers /\ snd \in Snds /\ lists \in Lists /\ Written = 0
        /\ ~lists.closeq /\ ~lists.closeq_int /\ ~lists.waiting
    BY MtcpSendAssumption, SMTT(30) DEF SendInit, Buffers, Snds, Lists, Written
  <2>2. SendTypeOK
    BY <2>1, Zenon DEF SendInit, SendTypeOK
  <2>3. SendExact
    <3>1. /\ sbuf.head_seq = 0 /\ sbuf.len = 0 /\ sbuf.head_off = 0 /\ sbuf.tail_off = 0
          /\ snd.una = 0 /\ state # "FIN_WAIT_2" /\ ~peer.wrong
      BY DEF SendInit
    <3>2. 0 .. 0 - 1 = {} /\ 0 <= SB_SIZE
      BY MtcpSendAssumption
    <3> QED
      BY <3>1, <3>2 DEF SendExact, BufferExact
  <2>4. CloseExact
    BY <2>1 DEF SendInit, CloseExact
  <2>5. PeerExact /\ ScheduledInd
    BY <2>1, MtcpSendAssumption DEF SendInit, PeerExact, ScheduledInd
  <2> QED
    BY <2>2, <2>3, <2>4, <2>5 DEF SendInv
<1>2. SendInv /\ [SendNext]_sendVars => SendInv'
    BY WriteKeeps, TestsKeep, EnqueueKeeps, ReceiveKeeps, TimeoutKeeps, SendqKeeps,
       CloseqKeeps, DelayedCloseKeeps, ControlKeeps, FinKeeps, IdleKeeps, EmptyKeeps,
       DataKeeps, ClearKeeps
       DEF SendNext, Application, Stack
<1> QED
    BY <1>1, <1>2, PTL DEF SendSpec

(* SBPut, SBRemove and FlushTCPSendingBuffer: the buffer holds what was    *)
(* written and is not acknowledged, in place, and no segment has ever      *)
(* carried a wrong byte.                                                   *)
THEOREM SendIsExact == SendSpec => []SendExact
<1>1. SendInv => SendExact
    BY DEF SendInv
<1> QED
    BY <1>1, SendInvariant, PTL

(* mtcp_write, HandleApplicationCalls, WriteTCPDataList, ProcessACK and    *)
(* HandleRTO: data that was written and not sent is always queued, listed, *)
(* about to be queued or left to a timer that runs, but for the three ways *)
(* of forgetting it that Forgotten names.                                  *)
THEOREM SendIsScheduled == SendSpec => []Scheduled
<1>1. SendInv => Scheduled
    BY DEF SendInv, ScheduledInd, LeftToTimer, Scheduled, Forgotten
<1> QED
    BY <1>1, SendInvariant, PTL
=============================================================================
