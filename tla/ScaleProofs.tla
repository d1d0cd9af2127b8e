----------------------------- MODULE ScaleProofs -----------------------------
(***************************************************************************)
(* Proofs about Scale for every size of the redirection table and every    *)
(* number of cores.  ScaleInv is inductive; SearchEnds follows from it     *)
(* because the entries that are left to the old cores have not run out,    *)
(* and Served because the core that gives up an entry has more than its    *)
(* share as long as there are new cores to be filled.                      *)
(***************************************************************************)
EXTENDS Scale, FiniteSetTheorems, WellFoundedInduction, TLAPS

-----------------------------------------------------------------------------
(* Numbers.                                                                *)

(* A nonempty set of natural numbers has a least element.                  *)
LEMMA NatMin ==
    ASSUME NEW T \in SUBSET Nat, T # {}
    PROVE  \E x \in T : \A y \in T : x <= y
<1> DEFINE R == OpToRel(<, Nat)
<1>1. IsWellFoundedOn(R, Nat)
  BY NatLessThanWellFounded, Zenon
<1>2. ASSUME NEW x \in Nat, NEW y \in Nat, y < x PROVE <<y, x>> \in R
  BY <1>2 DEF OpToRel
<1> HIDE DEF R
<1>3. PICK x \in T : \A y \in T : ~(<<y, x>> \in R)
  BY <1>1, WFMin, Zenon
<1>4. ASSUME NEW y \in T PROVE x <= y
  <2>1. x \in Nat /\ y \in Nat
    OBVIOUS
  <2>2. ~(y < x)
    BY <1>2, <1>3, <2>1, Zenon
  <2> QED BY <2>1, <2>2
<1> QED BY <1>4

(* Division rounds down.                                                   *)
LEMMA DivBounds ==
    ASSUME NEW s \in Nat, NEW d \in Nat \ {0}
    PROVE  /\ s \div d \in Nat
           /\ d * (s \div d) <= s
           /\ s < d * (s \div d) + d
<1> QED BY SMT

(* A product grows with its factor.                                        *)
LEMMA TimesMono ==
    ASSUME NEW a \in Nat, NEW b \in Nat, NEW q \in Nat, a <= b
    PROVE  a * q <= b * q
<1> QED BY SMT

(* The share of a core among fewer cores is not smaller.                   *)
LEMMA DivMono ==
    ASSUME NEW s \in Nat, NEW a \in Nat \ {0}, NEW b \in Nat \ {0}, a <= b
    PROVE  s \div b <= s \div a
<1> DEFINE p == s \div a
           q == s \div b
<1>1. p \in Nat /\ q \in Nat /\ b * q <= s /\ s < a * p + a
  BY DivBounds
<1> HIDE DEF p, q
<1>2. a * q <= b * q
  BY <1>1, TimesMono
<1>3. CASE p < q
  <2>1. (p + 1) * a <= q * a
    BY <1>1, <1>3, TimesMono
  <2> QED BY <1>1, <1>2, <2>1
<1>4. CASE ~(p < q)
  BY <1>1, <1>4 DEF p, q
<1> QED BY <1>3, <1>4

(* n is in the part number n \div q of parts that are q long.              *)
LEMMA DivPart ==
    ASSUME NEW n \in Nat, NEW q \in Nat \ {0}, NEW d \in Nat, n < d * q
    PROVE  /\ n \div q \in 0 .. d - 1
           /\ (n \div q) * q <= n
           /\ n < (n \div q) * q + q
<1> DEFINE p == n \div q
<1>1. p \in Nat /\ q * p <= n /\ n < q * p + q
  BY DivBounds
<1> HIDE DEF p
<1>2. CASE d <= p
  <2>1. d * q <= p * q
    BY <1>1, <1>2, TimesMono
  <2> QED BY <1>1, <2>1
<1>3. CASE p < d
  BY <1>1, <1>3 DEF p
<1> QED BY <1>1, <1>2, <1>3

(* Of the first num counts that do not exceed B there is a last greatest.  *)
LEMMA LastMax ==
    ASSUME NEW num \in Nat \ {0}, NEW b, NEW B \in Nat,
           \A c \in 0 .. num - 1 : b[c] \in 0 .. B
    PROVE  \E c \in 0 .. num - 1 :
              \A d \in 0 .. num - 1 : b[c] > b[d] \/ (b[c] = b[d] /\ c >= d)
<1> DEFINE T == {B - b[c] : c \in 0 .. num - 1}
<1>1. T \in SUBSET Nat /\ T # {}
  OBVIOUS
<1>2. PICK m \in T : \A y \in T : m <= y
  <2> HIDE DEF T
  <2> QED BY <1>1, NatMin
<1>3. PICK c0 \in 0 .. num - 1 : m = B - b[c0]
  OBVIOUS
<1>4. ASSUME NEW d \in 0 .. num - 1 PROVE b[c0] >= b[d]
  <2>1. B - b[d] \in T
    OBVIOUS
  <2>2. B - b[c0] <= B - b[d]
    BY <2>1, <1>2, <1>3
  <2> QED BY <2>2
<1> DEFINE D == {d \in 0 .. num - 1 : b[d] = b[c0]}
           U == {num - c : c \in D}
<1>5. U \in SUBSET Nat /\ U # {}
  OBVIOUS
<1>6. PICK u \in U : \A y \in U : u <= y
  <2> HIDE DEF U
  <2> QED BY <1>5, NatMin, Zenon
<1>7. PICK c \in D : u = num - c
  OBVIOUS
<1>8. ASSUME NEW d \in D PROVE c >= d
  <2>1. num - d \in U
    OBVIOUS
  <2>2. num - c <= num - d
    BY <2>1, <1>6, <1>7, Zenon
  <2> QED BY <2>2
<1>9. ASSUME NEW d \in 0 .. num - 1
      PROVE  b[c] > b[d] \/ (b[c] = b[d] /\ c >= d)
  <2>1. c \in 0 .. num - 1 /\ b[c] = b[c0]
    BY <1>7
  <2>2. b[d] <= b[c]
    BY <2>1, <1>4
  <2>3. b[d] = b[c] => c >= d
    BY <2>1, <1>8
  <2> QED BY <2>1, <2>2, <2>3
<1> QED BY <1>9

(* core_max returns one of the cores it is asked about, and none of them   *)
(* has more entries.                                                       *)
LEMMA CoreMax ==
    ASSUME NEW num \in 1 .. fp_cores_max,
           rss_core_buckets \in [Cores -> 0 .. RETA_SIZE]
    PROVE  /\ core_max(num) \in 0 .. num - 1
           /\ \A d \in 0 .. num - 1 :
                rss_core_buckets[d] <= rss_core_buckets[core_max(num)]
<1> DEFINE b == rss_core_buckets
           Last(c) == \A d \in 0 .. num - 1 :
                          b[c] > b[d] \/ (b[c] = b[d] /\ c >= d)
<1>1. \A c \in 0 .. num - 1 : c \in Cores
  BY ScaleAssumption DEF Cores
<1>2. \A c \in 0 .. num - 1 : b[c] \in 0 .. RETA_SIZE
  BY <1>1
<1>3. \E c \in 0 .. num - 1 : Last(c)
  <2>1. num \in Nat \ {0} /\ RETA_SIZE \in Nat
    BY ScaleAssumption
  <2> HIDE DEF b
  <2> QED BY <1>2, <2>1, LastMax, Zenon
<1>4. core_max(num) = CHOOSE c \in 0 .. num - 1 : Last(c)
  BY DEF core_max
<1>5. core_max(num) \in 0 .. num - 1 /\ Last(core_max(num))
  <2> HIDE DEF Last
  <2> QED BY <1>3, <1>4
<1>6. ASSUME NEW d \in 0 .. num - 1 PROVE b[d] <= b[core_max(num)]
  <2>1. b[d] \in Nat /\ b[core_max(num)] \in Nat
    BY <1>2, <1>5
  <2>2. b[core_max(num)] > b[d] \/ b[core_max(num)] = b[d]
    BY <1>5
  <2> HIDE DEF b
  <2> QED BY <2>1, <2>2
<1> QED BY <1>5, <1>6

(* core_min returns one of the cores it is asked about.                    *)
LEMMA CoreMin ==
    ASSUME NEW num \in 1 .. fp_cores_max
    PROVE  core_min(num) \in 0 .. num - 1
<1>1. 0 \in 0 .. num - 1
  BY ScaleAssumption
<1> QED BY <1>1 DEF core_min

-----------------------------------------------------------------------------
(* Counting entries.                                                       *)

(* Sets of entries are finite.                                             *)
LEMMA EntriesFinite ==
    /\ IsFiniteSet(Entries) /\ Cardinality(Entries) = RETA_SIZE
    /\ \A E \in SUBSET Entries :
         IsFiniteSet(E) /\ Cardinality(E) \in 0 .. RETA_SIZE
<1>1. IsFiniteSet(Entries) /\ Cardinality(Entries) = RETA_SIZE
  <2>1. 0 \in Int /\ RETA_SIZE - 1 \in Int
    BY ScaleAssumption
  <2>2. /\ IsFiniteSet(0 .. RETA_SIZE - 1)
        /\ Cardinality(0 .. RETA_SIZE - 1) =
             IF 0 > RETA_SIZE - 1 THEN 0 ELSE RETA_SIZE - 1 - 0 + 1
    BY <2>1, FS_Interval
  <2> QED BY <2>2, ScaleAssumption DEF Entries
<1>2. ASSUME NEW E \in SUBSET Entries
      PROVE  IsFiniteSet(E) /\ Cardinality(E) \in 0 .. RETA_SIZE
  <2>1. IsFiniteSet(E) /\ Cardinality(E) <= Cardinality(Entries)
    BY <1>1, FS_Subset
  <2>2. Cardinality(E) \in Nat
    BY <2>1, FS_CardinalityType
  <2> QED BY <1>1, <2>1, <2>2, ScaleAssumption
<1> QED BY <1>1, <1>2

\* The entries of the first m cores under a table.
Below(tab, m) == {e \in Entries : tab[e] < m}
At(tab, c) == {e \in Entries : tab[e] = c}

(* If each of the first m cores has at most q entries, they have at most   *)
(* m * q together.                                                         *)
LEMMA AtMost ==
    ASSUME NEW tab \in [Entries -> Nat], NEW q \in Nat, NEW m \in Nat,
           \A c \in 0 .. m - 1 : Cardinality(At(tab, c)) <= q
    PROVE  Cardinality(Below(tab, m)) <= m * q
<1> DEFINE Bad == {k \in 0 .. m : ~(Cardinality(Below(tab, k)) <= k * q)}
<1>1. SUFFICES ASSUME Bad # {} PROVE FALSE
  <2>1. m \in 0 .. m
    OBVIOUS
  <2> QED BY <1>1, <2>1
<1>2. Bad \in SUBSET Nat
  OBVIOUS
<1>3. PICK k \in Bad : \A y \in Bad : k <= y
  <2> HIDE DEF Bad
  <2> QED BY <1>1, <1>2, NatMin
<1>4. k \in 0 .. m /\ ~(Cardinality(Below(tab, k)) <= k * q)
  OBVIOUS
<1>5. k # 0
  <2>1. Below(tab, 0) = {}
    BY DEF Below
  <2>2. Cardinality(Below(tab, 0)) = 0
    BY <2>1, FS_EmptySet
  <2>3. 0 * q = 0
    OBVIOUS
  <2> QED BY <1>4, <2>2, <2>3
<1>6. k - 1 \in 0 .. m - 1 /\ k - 1 \in Nat
  BY <1>4, <1>5
<1>7. Cardinality(Below(tab, k - 1)) <= (k - 1) * q
  <2>1. k - 1 \in 0 .. m /\ ~(k <= k - 1)
    BY <1>4, <1>6
  <2>2. k - 1 \notin Bad
    BY <1>3, <2>1
  <2> QED BY <2>1, <2>2
<1>8. /\ Below(tab, k) = Below(tab, k - 1) \cup At(tab, k - 1)
      /\ Below(tab, k - 1) \cap At(tab, k - 1) = {}
  BY <1>4, <1>6 DEF Below, At
<1>9. /\ IsFiniteSet(Below(tab, k - 1)) /\ IsFiniteSet(At(tab, k - 1))
      /\ Cardinality(Below(tab, k - 1)) \in Nat
      /\ Cardinality(At(tab, k - 1)) \in Nat
  <2>1. Below(tab, k - 1) \in SUBSET Entries /\ At(tab, k - 1) \in SUBSET Entries
    BY DEF Below, At
  <2>2. IsFiniteSet(Below(tab, k - 1)) /\ IsFiniteSet(At(tab, k - 1))
    BY <2>1, EntriesFinite
  <2> QED BY <2>2, FS_CardinalityType
<1>10. Cardinality(Below(tab, k)) =
         Cardinality(Below(tab, k - 1)) + Cardinality(At(tab, k - 1))
  <2>1. Cardinality(Below(tab, k - 1) \cup At(tab, k - 1)) =
          Cardinality(Below(tab, k - 1)) + Cardinality(At(tab, k - 1))
            - Cardinality(Below(tab, k - 1) \cap At(tab, k - 1))
    BY <1>9, FS_Union
  <2>2. Cardinality(Below(tab, k - 1) \cap At(tab, k - 1)) = 0
    BY <1>8, FS_EmptySet, Zenon
  <2>3. Cardinality(Below(tab, k)) =
          Cardinality(Below(tab, k - 1) \cup At(tab, k - 1))
    BY <1>8
  <2> QED BY <2>1, <2>2, <2>3, <1>9
<1>11. Cardinality(At(tab, k - 1)) <= q
  BY <1>6
<1>12. (k - 1) * q + q = k * q
  BY <1>4
<1> QED BY <1>4, <1>7, <1>9, <1>10, <1>11, <1>12

(* Moving an entry to another core keeps the counts exact.                 *)
LEMMA MovedCounts ==
    ASSUME ScaleTypeOK, Counted, NEW e \in Entries, NEW c \in Cores,
           c # reta[e], Moved(e, c)
    PROVE  /\ reta' \in [Entries -> Cores]
           /\ mask' \subseteq Entries
           /\ flow_group_steering' \in [Entries -> Cores]
           /\ rss_core_buckets' \in [Cores -> 0 .. RETA_SIZE]
           /\ Counted'
           /\ rss_core_buckets'[c] = rss_core_buckets[c] + 1
           /\ rss_core_buckets'[reta[e]] = rss_core_buckets[reta[e]] - 1
           /\ \A d \in Cores \ {c, reta[e]} :
                rss_core_buckets'[d] = rss_core_buckets[d]
<1>1. /\ reta \in [Entries -> Cores]
      /\ rss_core_buckets \in [Cores -> 0 .. RETA_SIZE]
  BY DEF ScaleTypeOK
<1>a. PICK a \in Cores : a = reta[e]
  BY <1>1
<1>2. /\ reta' \in [Entries -> Cores] /\ mask' \subseteq Entries
      /\ flow_group_steering' \in [Entries -> Cores]
  BY DEF Moved, ScaleTypeOK
<1>3. /\ Of(a)' = Of(a) \ {e} /\ e \in Of(a)
      /\ Of(c)' = Of(c) \cup {e} /\ e \notin Of(c)
      /\ \A d \in Cores \ {a, c} : Of(d)' = Of(d)
  BY <1>1, <1>a DEF Moved, Of
<1>4. \A d \in Cores : /\ IsFiniteSet(Of(d)) /\ Cardinality(Of(d)) \in Nat
                        /\ Cardinality(Of(d)') \in 0 .. RETA_SIZE
  <2>1. \A d \in Cores : Of(d) \in SUBSET Entries /\ Of(d)' \in SUBSET Entries
    BY DEF Of
  <2>2. \A d \in Cores : IsFiniteSet(Of(d)) /\ Cardinality(Of(d)') \in 0 .. RETA_SIZE
    BY <2>1, EntriesFinite
  <2> QED BY <2>2, FS_CardinalityType
<1>5. Cardinality(Of(a)') = Cardinality(Of(a)) - 1
  BY <1>3, <1>4, FS_RemoveElement, ZenonT(60)
<1>6. Cardinality(Of(c)') = Cardinality(Of(c)) + 1
  BY <1>3, <1>4, FS_AddElement, Zenon
<1>7. /\ DOMAIN rss_core_buckets' = Cores
      /\ rss_core_buckets' =
           [d \in Cores |-> rss_core_buckets'[d]]
      /\ rss_core_buckets'[c] = rss_core_buckets[c] + 1
      /\ rss_core_buckets'[a] = rss_core_buckets[a] - 1
      /\ \A d \in Cores \ {c, a} : rss_core_buckets'[d] = rss_core_buckets[d]
  BY <1>1, <1>a, Zenon DEF Moved
<1>8. \A d \in Cores : rss_core_buckets'[d] = Cardinality(Of(d)')
  <2>1. \A d \in Cores : rss_core_buckets[d] = Cardinality(Of(d))
    BY DEF Counted
  <2>2. ASSUME NEW d \in Cores \ {c, a}
        PROVE  rss_core_buckets'[d] = Cardinality(Of(d)')
    BY <2>1, <1>3, <1>7
  <2>3. rss_core_buckets'[c] = Cardinality(Of(c)')
    BY <2>1, <1>6, <1>7
  <2>4. rss_core_buckets'[a] = Cardinality(Of(a)')
    BY <2>1, <1>5, <1>7
  <2> QED BY <2>2, <2>3, <2>4
<1>9. Counted'
  BY <1>8 DEF Counted
<1>10. rss_core_buckets' \in [Cores -> 0 .. RETA_SIZE]
  BY <1>4, <1>7, <1>8
<1> QED BY <1>a, <1>2, <1>7, <1>9, <1>10

-----------------------------------------------------------------------------
(* Scaling up.                                                             *)

(* The new cores' shares leave the old cores theirs, and no share is       *)
(* smaller than that among all cores.                                      *)
LEMMA Shares ==
    ASSUME NEW old \in 1 .. fp_cores_max, NEW new \in 1 .. fp_cores_max, old < new
    PROVE  /\ Share(new) \in Nat \ {0}
           /\ RETA_SIZE \div fp_cores_max \in Nat
           /\ RETA_SIZE \div fp_cores_max <= Share(new)
           /\ old * Share(new) \in Nat
           /\ (new - old) * Share(new) \in Nat
           /\ (new - old) * Share(new) + old * Share(new) <= RETA_SIZE
<1> DEFINE q == Share(new)
<1>1. /\ RETA_SIZE \in Nat /\ new \in Nat \ {0} /\ old \in Nat
      /\ fp_cores_max \in Nat \ {0} /\ new <= RETA_SIZE /\ new <= fp_cores_max
  BY ScaleAssumption
<1>2. q \in Nat /\ new * q <= RETA_SIZE /\ RETA_SIZE < new * q + new
  BY <1>1, DivBounds DEF Share
<1>3. RETA_SIZE \div fp_cores_max \in Nat /\ RETA_SIZE \div fp_cores_max <= q
  BY <1>1, DivBounds, DivMono, Zenon DEF Share
<1> HIDE DEF q
<1>4. q # 0
  <2>1. new * 0 = 0
    BY <1>1
  <2> QED BY <1>1, <1>2, <2>1
<1>5. (new - old) * q + old * q = new * q
  BY <1>1, <1>2
<1>6. old * q \in Nat /\ (new - old) * q \in Nat
  BY <1>1, <1>2
<1> QED BY <1>2, <1>3, <1>4, <1>5, <1>6 DEF q

(* While there are entries to be moved, the old core with the most entries *)
(* has more than the share of a new core.                                  *)
LEMMA UpRoom ==
    ASSUME ScaleInv, sc.pc = "up", UpLeft
    PROVE  /\ core_max(sc.old) \in 0 .. sc.old - 1
           /\ rss_core_buckets[core_max(sc.old)] > Share(sc.new)
           /\ UpCore \in sc.old .. sc.new - 1
           /\ (UpCore - sc.old) * Share(sc.new) <= sc.n
           /\ sc.n < (UpCore - sc.old) * Share(sc.new) + Share(sc.new)
<1> DEFINE q == Share(sc.new)
           top == core_max(sc.old)
<1>1. /\ sc.old \in 1 .. fp_cores_max /\ sc.new \in 1 .. fp_cores_max
      /\ sc.old < sc.new /\ sc.n \in 0 .. RETA_SIZE
      /\ reta \in [Entries -> Cores]
      /\ rss_core_buckets \in [Cores -> 0 .. RETA_SIZE]
      /\ Counted /\ sc.n = Cardinality(Given)
  BY DEF ScaleInv, ScaleTypeOK
<1>2. /\ q \in Nat \ {0} /\ sc.old * q \in Nat
      /\ (sc.new - sc.old) * q \in Nat
      /\ (sc.new - sc.old) * q + sc.old * q <= RETA_SIZE
  BY <1>1, Shares
<1>3. sc.n < (sc.new - sc.old) * q
  BY DEF UpLeft
<1>4. /\ top \in 0 .. sc.old - 1
      /\ \A d \in 0 .. sc.old - 1 : rss_core_buckets[d] <= rss_core_buckets[top]
  BY <1>1, CoreMax
<1>5. /\ sc.n \div q \in 0 .. (sc.new - sc.old) - 1
      /\ (sc.n \div q) * q <= sc.n
      /\ sc.n < (sc.n \div q) * q + q
  <2>1. sc.n \in Nat /\ sc.new - sc.old \in Nat
    BY <1>1, ScaleAssumption
  <2> HIDE DEF q
  <2> QED BY <1>2, <1>3, <2>1, DivPart
<1>6. /\ UpCore \in sc.old .. sc.new - 1
      /\ UpCore - sc.old = sc.n \div q
  <2>1. UpCore = sc.old + sc.n \div q
    BY DEF UpCore
  <2> HIDE DEF q
  <2> QED BY <2>1, <1>1, <1>5
<1>7. rss_core_buckets[top] > q
  <2> SUFFICES ASSUME ~(rss_core_buckets[top] > q) PROVE FALSE
    OBVIOUS
  <2>1. \A d \in 0 .. sc.old - 1 : d \in Cores
    BY <1>1, ScaleAssumption DEF Cores
  <2>2. \A d \in 0 .. sc.old - 1 : Cardinality(At(reta, d)) <= q
    <3>1. \A d \in 0 .. sc.old - 1 : rss_core_buckets[d] = Cardinality(At(reta, d))
      BY <1>1, <2>1 DEF Counted, Of, At
    <3>2. \A d \in 0 .. sc.old - 1 : rss_core_buckets[d] \in Nat
      BY <1>1, <2>1
    <3> HIDE DEF q, top
    <3> QED BY <1>2, <1>4, <3>1, <3>2
  <2>3. Cardinality(Below(reta, sc.old)) <= sc.old * q
    <3>1. reta \in [Entries -> Nat] /\ sc.old \in Nat
      BY <1>1 DEF Cores
    <3> HIDE DEF q
    <3> QED BY <3>1, <2>2, <1>2, AtMost
  <2>4. /\ Below(reta, sc.old) \cup Given = Entries
        /\ Below(reta, sc.old) \cap Given = {}
        /\ Below(reta, sc.old) \in SUBSET Entries /\ Given \in SUBSET Entries
    BY <1>1 DEF Below, Given, Cores
  <2>5. /\ IsFiniteSet(Below(reta, sc.old)) /\ IsFiniteSet(Given)
        /\ Cardinality(Below(reta, sc.old)) \in 0 .. RETA_SIZE
        /\ Cardinality(Entries) = RETA_SIZE
    BY <2>4, EntriesFinite
  <2>6. Cardinality(Below(reta, sc.old) \cup Given) =
          Cardinality(Below(reta, sc.old)) + Cardinality(Given)
            - Cardinality(Below(reta, sc.old) \cap Given)
    BY <2>5, FS_Union
  <2>7. Cardinality(Below(reta, sc.old) \cap Given) = 0
    BY <2>4, FS_EmptySet
  <2>8. RETA_SIZE = Cardinality(Below(reta, sc.old)) + sc.n
    <3>1. Cardinality(Below(reta, sc.old) \cup Given) = RETA_SIZE
      BY <2>4, <2>5
    <3> QED BY <1>1, <2>5, <2>6, <2>7, <3>1
  <2> HIDE DEF q
  <2> QED BY <1>1, <1>2, <1>3, <2>3, <2>5, <2>8, ScaleAssumption
<1> QED BY <1>4, <1>5, <1>6, <1>7

-----------------------------------------------------------------------------
(* The inductive invariant.                                                *)

(* reta_setup establishes it.                                              *)
LEMMA ScaleInit_Inv == ScaleInit => ScaleInv
<1> SUFFICES ASSUME ScaleInit PROVE ScaleInv
  OBVIOUS
<1>1. /\ RETA_SIZE \in Nat \ {0} /\ fp_cores_max \in Nat \ {0}
      /\ 0 \in Cores /\ 0 \in Entries
  BY ScaleAssumption DEF Cores, Entries
<1>2. ScaleTypeOK
  <2>1. reta \in [Entries -> Cores] /\ mask \subseteq Entries
        /\ flow_group_steering \in [Entries -> Cores] /\ nic \in [Entries -> Cores]
    BY <1>1 DEF ScaleInit
  <2>2. rss_core_buckets \in [Cores -> 0 .. RETA_SIZE]
    BY <1>1 DEF ScaleInit
  <2>3. sc \in [pc : {"idle", "up", "down", "set", "clear"},
               old : 1 .. fp_cores_max, new : 1 .. fp_cores_max,
               k : Entries, n : 0 .. RETA_SIZE]
    BY <1>1 DEF ScaleInit, Idle
  <2> QED BY <1>1, <2>1, <2>2, <2>3, ScaleAssumption DEF ScaleInit, ScaleTypeOK
<1>3. Counted
  <2>1. Of(0) = Entries /\ \A c \in Cores : c # 0 => Of(c) = {}
    BY DEF ScaleInit, Of
  <2>2. Cardinality(Of(0)) = RETA_SIZE /\ Cardinality({}) = 0
    BY <2>1, EntriesFinite, FS_EmptySet
  <2>3. \A c \in Cores : c # 0 => Cardinality(Of(c)) = 0
    BY <2>1, <2>2
  <2> QED BY <2>2, <2>3 DEF Counted, ScaleInit
<1>4. Served
  <2>1. Staying = 1
    BY DEF ScaleInit, Idle, Staying
  <2> DEFINE q == RETA_SIZE \div fp_cores_max
  <2>2. q \in Nat /\ fp_cores_max * q <= RETA_SIZE
    BY <1>1, DivBounds
  <2>3. 1 * q <= fp_cores_max * q
    <3> HIDE DEF q
    <3> QED BY <1>1, <2>2, TimesMono
  <2>4. rss_core_buckets[0] = RETA_SIZE
    BY <1>1 DEF ScaleInit
  <2>5. RETA_SIZE >= q
    <3> HIDE DEF q
    <3> QED BY <1>1, <2>2, <2>3
  <2> QED BY <2>1, <2>4, <2>5 DEF Served
<1>5. sc.pc = "idle" /\ nic = reta /\ flow_group_steering = reta
  BY DEF ScaleInit, Idle
<1>6. \A e \in Entries : reta[e] < fp_cores_cur
  BY DEF ScaleInit
<1> QED BY <1>2, <1>3, <1>4, <1>5, <1>6 DEF ScaleInv

(* Steps of the slow path leave the table alone and do not take back a     *)
(* request.                                                                *)
LEMMA Request_Inv ==
    ASSUME ScaleInv, loadmon_read \/ loadmon_decide \/ kin_req_scale
    PROVE  ScaleInv'
<1>1. /\ UNCHANGED <<reta, mask, rss_core_buckets, flow_group_steering>>
      /\ UNCHANGED <<nic, fp_cores_cur, sc>>
  BY DEF loadmon_read, loadmon_decide, kin_req_scale, tablev, monv
<1>2. /\ fp_scale_to' \in 0 .. fp_cores_max
      /\ fp_scale_to # 0 => fp_scale_to' = fp_scale_to
      /\ lm' \in {NoCores} \cup 1 .. fp_cores_max
      /\ waiting_n' \in 0 .. WAIT
  <2>1. /\ fp_scale_to \in 0 .. fp_cores_max /\ lm \in {NoCores} \cup 1 .. fp_cores_max
        /\ waiting_n \in 0 .. WAIT /\ fp_cores_cur \in 1 .. fp_cores_max
    BY DEF ScaleInv, ScaleTypeOK
  <2>2. CASE loadmon_read
    BY <2>1, <2>2 DEF loadmon_read
  <2>3. CASE loadmon_decide
    BY <2>1, <2>3, ScaleAssumption DEF loadmon_decide, flexnic_scale_to, NoCores
  <2>4. CASE kin_req_scale
    BY <2>1, <2>4, ScaleAssumption DEF kin_req_scale, flexnic_scale_to, monv
  <2> QED BY <2>2, <2>3, <2>4
<1>3. ScaleTypeOK'
  BY <1>1, <1>2 DEF ScaleInv, ScaleTypeOK
<1>4. Counted' /\ Served'
  BY <1>1 DEF ScaleInv, Counted, Of, Served, Staying
<1>5. sc.pc # "idle" => fp_scale_to' = sc.new
  <2>1. sc.pc # "idle" => fp_scale_to = sc.new /\ sc.new # 0
    BY DEF ScaleInv, ScaleTypeOK
  <2> QED BY <1>2, <2>1
<1> QED BY <1>1, <1>3, <1>4, <1>5 DEF ScaleInv, Given

(* The beginning of poll_scale.                                            *)
LEMMA Begin_Inv ==
    ASSUME ScaleInv, poll_scale
    PROVE  ScaleInv'
<1>1. /\ UNCHANGED <<reta, rss_core_buckets, flow_group_steering>>
      /\ UNCHANGED <<nic, fp_cores_cur, fp_scale_to, lm, waiting_n>>
      /\ mask' = {} \/ mask' = mask
      /\ sc.pc = "idle" /\ fp_scale_to # 0
  BY DEF poll_scale, monv
<1>2. /\ sc'.old = fp_cores_cur /\ sc'.new = fp_scale_to /\ sc'.n = 0
      /\ sc'.pc = IF fp_scale_to < fp_cores_cur THEN "down"
                   ELSE IF fp_scale_to > fp_cores_cur THEN "up" ELSE "set"
  BY DEF poll_scale
<1>3. /\ ScaleTypeOK /\ nic = reta /\ flow_group_steering = reta
      /\ Counted /\ Served
      /\ \A e \in Entries : reta[e] < fp_cores_cur
  BY <1>1 DEF ScaleInv
<1>4. /\ reta \in [Entries -> Cores]
      /\ fp_scale_to \in 1 .. fp_cores_max /\ fp_cores_cur \in 1 .. fp_cores_max
      /\ rss_core_buckets \in [Cores -> 0 .. RETA_SIZE]
  BY <1>1, <1>3 DEF ScaleTypeOK
<1>5. ScaleTypeOK'
  <2>1. 0 \in Entries /\ 0 \in 0 .. RETA_SIZE
    BY ScaleAssumption DEF Entries
  <2>2. sc' \in [pc : {"idle", "up", "down", "set", "clear"},
               old : 1 .. fp_cores_max, new : 1 .. fp_cores_max,
               k : Entries, n : 0 .. RETA_SIZE]
    BY <1>4, <2>1 DEF poll_scale
  <2> QED BY <1>1, <1>3, <2>2 DEF ScaleTypeOK
<1>6. Counted'
  BY <1>1, <1>3 DEF Counted, Of
<1>7. \A c \in 0 .. fp_cores_cur - 1 :
          rss_core_buckets[c] >= RETA_SIZE \div fp_cores_max
  BY <1>1, <1>3 DEF Served, Staying
<1>8. Staying' \in 1 .. fp_cores_cur
  BY <1>1, <1>2, <1>4 DEF Staying
<1>9. Served'
  <2>1. \A m \in 1 .. fp_cores_cur : \A c \in 0 .. m - 1 : c \in 0 .. fp_cores_cur - 1
    BY <1>4
  <2> QED BY <1>1, <1>7, <1>8, <2>1, Zenon DEF Served
<1>10. CASE sc'.pc = "set"
  <2>1. fp_scale_to = fp_cores_cur
    BY <1>2, <1>4, <1>10
  <2> QED BY <1>1, <1>2, <1>3, <1>5, <1>6, <1>7, <1>9, <1>10, <2>1 DEF ScaleInv
<1>11. CASE sc'.pc = "down"
  <2>1. fp_scale_to < fp_cores_cur
    BY <1>2, <1>11
  <2>2. \A e \in Entries : ~(e < 0)
    BY DEF Entries
  <2> QED BY <1>1, <1>2, <1>3, <1>5, <1>6, <1>9, <1>11, <2>1, <2>2 DEF ScaleInv
<1>12. CASE sc'.pc = "up"
  <2>1. fp_scale_to > fp_cores_cur
    BY <1>2, <1>12
  <2>2. Given' = {}
    BY <1>1, <1>2, <1>3, <1>4 DEF Given, Cores
  <2>3. sc'.n = Cardinality(Given')
    BY <1>2, <2>2, FS_EmptySet
  <2>4. /\ Share(fp_scale_to) \in Nat
        /\ (fp_scale_to - fp_cores_cur) * Share(fp_scale_to) \in Nat
    BY <1>4, <2>1, Shares
  <2>5. 0 <= (fp_scale_to - fp_cores_cur) * Share(fp_scale_to)
    BY <2>4
  <2>6. ASSUME NEW c \in fp_cores_cur .. fp_scale_to - 1
        PROVE  rss_core_buckets[c] >= 0 - (c - fp_cores_cur) * Share(fp_scale_to)
    <3>1. c \in Cores /\ c - fp_cores_cur \in Nat
      BY <1>4, ScaleAssumption DEF Cores
    <3>2. (c - fp_cores_cur) * Share(fp_scale_to) \in Nat
      BY <3>1, <2>4
    <3>3. rss_core_buckets[c] \in Nat
      BY <1>4, <3>1
    <3> QED BY <3>2, <3>3
  <2>7. \A e \in Entries : reta[e] < fp_scale_to
    BY <1>3, <1>4, <2>1 DEF Cores
  <2>8. Share(sc'.new) = Share(fp_scale_to) /\ Share(sc.new)' = Share(fp_scale_to)
    BY <1>2, SMTT(30) DEF Share
  <2> QED
    BY <1>1, <1>2, <1>3, <1>5, <1>6, <1>9, <1>12, <2>1, <2>3, <2>5, <2>6, <2>7, <2>8, SMTT(30)
    DEF ScaleInv
<1> QED BY <1>2, <1>10, <1>11, <1>12

(* A round of network_scale_up.                                            *)
LEMMA Up_Inv ==
    ASSUME ScaleInv, network_scale_up
    PROVE  ScaleInv'
<1>1. PICK e \in Entries :
        /\ reta[e] = core_max(sc.old)
        /\ Moved(e, UpCore)
        /\ sc' = [sc EXCEPT !.k = e, !.n = @ + 1]
  BY Zenon DEF network_scale_up
<1>2. /\ sc.pc = "up" /\ UpLeft
      /\ UNCHANGED <<nic, fp_cores_cur, fp_scale_to, lm, waiting_n>>
  BY DEF network_scale_up, monv
<1>3. /\ sc.old \in 1 .. fp_cores_max /\ sc.new \in 1 .. fp_cores_max
      /\ sc.old < sc.new /\ sc.n \in 0 .. RETA_SIZE
      /\ reta \in [Entries -> Cores]
      /\ rss_core_buckets \in [Cores -> 0 .. RETA_SIZE]
      /\ ScaleTypeOK /\ Counted /\ Served /\ sc.n = Cardinality(Given)
      /\ \A x \in Entries : reta[x] < sc.new
      /\ \A x \in Entries : x \notin mask => nic[x] = reta[x]
      /\ flow_group_steering = reta /\ fp_scale_to = sc.new /\ fp_cores_cur = sc.old
      /\ \A c \in sc.old .. sc.new - 1 :
           \/ rss_core_buckets[c] >= Share(sc.new)
           \/ rss_core_buckets[c] >= sc.n - (c - sc.old) * Share(sc.new)
  BY <1>2 DEF ScaleInv, ScaleTypeOK
<1>4. PICK q \in Nat : q = Share(sc.new)
  BY <1>3, Shares
<1>5. /\ q \in Nat \ {0} /\ RETA_SIZE \div fp_cores_max \in Nat
      /\ RETA_SIZE \div fp_cores_max <= q
      /\ (sc.new - sc.old) * q + sc.old * q <= RETA_SIZE
      /\ sc.old * q \in Nat /\ (sc.new - sc.old) * q \in Nat
  BY <1>3, <1>4, Shares
<1>6. \A c \in 0 .. sc.new - 1 : c \in Cores
  BY <1>3, ScaleAssumption, SMTT(30) DEF Cores
<1>7. PICK t \in Cores : /\ t = core_max(sc.old) /\ t \in 0 .. sc.old - 1
                         /\ rss_core_buckets[t] > q
  BY <1>2, <1>3, <1>4, <1>6, UpRoom
<1>8. PICK j \in Cores : /\ j = UpCore /\ j \in sc.old .. sc.new - 1
                         /\ (j - sc.old) * q <= sc.n
                         /\ sc.n < (j - sc.old) * q + q
  BY <1>2, <1>3, <1>4, <1>6, UpRoom
<1>9. reta[e] = t /\ j # t /\ Moved(e, j)
  BY <1>1, <1>3, <1>7, <1>8
<1>10. /\ reta' \in [Entries -> Cores] /\ mask' \subseteq Entries
       /\ flow_group_steering' \in [Entries -> Cores]
       /\ rss_core_buckets' \in [Cores -> 0 .. RETA_SIZE]
       /\ Counted'
       /\ rss_core_buckets'[j] = rss_core_buckets[j] + 1
       /\ rss_core_buckets'[t] = rss_core_buckets[t] - 1
       /\ \A d \in Cores \ {j, t} : rss_core_buckets'[d] = rss_core_buckets[d]
  BY <1>3, <1>9, MovedCounts
<1>11. /\ sc'.pc = "up" /\ sc'.old = sc.old /\ sc'.new = sc.new /\ sc'.n = sc.n + 1
       /\ sc' \in [pc : {"idle", "up", "down", "set", "clear"},
                   old : 1 .. fp_cores_max, new : 1 .. fp_cores_max,
                   k : Entries, n : Nat]
  <2>1. /\ sc \in [pc : {"idle", "up", "down", "set", "clear"},
                  old : 1 .. fp_cores_max, new : 1 .. fp_cores_max,
                  k : Entries, n : 0 .. RETA_SIZE]
        /\ sc.n + 1 \in Nat
    BY <1>3 DEF ScaleTypeOK
  <2> QED BY <1>1, <1>2, <2>1, Zenon
<1>12. sc.n + 1 <= (sc.new - sc.old) * q /\ sc.n + 1 \in 0 .. RETA_SIZE
  <2>1. sc.n < (sc.new - sc.old) * q
    BY <1>2, <1>4 DEF UpLeft
  <2> QED BY <1>3, <1>5, <2>1, ScaleAssumption
<1>13. ScaleTypeOK'
  <2>1. sc' \in [pc : {"idle", "up", "down", "set", "clear"},
                old : 1 .. fp_cores_max, new : 1 .. fp_cores_max,
                k : Entries, n : 0 .. RETA_SIZE]
    BY <1>11, <1>12
  <2> QED BY <1>2, <1>3, <1>10, <2>1 DEF ScaleTypeOK
<1>14. Served'
  <2>1. Staying = sc.old /\ Staying' = sc.old
    BY <1>2, <1>3, <1>11 DEF Staying
  <2>2. ASSUME NEW c \in 0 .. sc.old - 1
        PROVE  rss_core_buckets'[c] >= RETA_SIZE \div fp_cores_max
    <3>1. c \in Cores /\ c # j /\ rss_core_buckets[c] \in Nat
      BY <1>3, <1>6, <1>8
    <3>2. rss_core_buckets[c] >= RETA_SIZE \div fp_cores_max
      BY <1>3, <2>1 DEF Served
    <3>3. CASE c = t
      BY <1>5, <1>7, <1>10, <3>1, <3>3
    <3>4. CASE c # t
      BY <1>10, <3>1, <3>2, <3>4, SMTT(30)
    <3> QED BY <3>3, <3>4
  <2> QED BY <2>1, <2>2 DEF Served
<1>15. /\ flow_group_steering' = reta'
       /\ \A x \in Entries : x \notin mask' => nic'[x] = reta'[x]
       /\ \A x \in Entries : reta'[x] < sc.new
  BY <1>2, <1>3, <1>8, <1>9, SMTT(30) DEF Moved, ScaleTypeOK
<1>16. sc'.n = Cardinality(Given')
  <2>1. Given' = Given \cup {e} /\ e \notin Given /\ Given \in SUBSET Entries
    <3>1. Given' = {x \in Entries : reta'[x] >= sc.old}
      BY <1>11 DEF Given
    <3>2. reta'[e] = j /\ \A x \in Entries \ {e} : reta'[x] = reta[x]
      BY <1>3, <1>9 DEF Moved
    <3>3. j >= sc.old /\ ~ (t >= sc.old)
      BY <1>3, <1>7, <1>8
    <3> QED BY <1>9, <3>1, <3>2, <3>3 DEF Given
  <2>2. IsFiniteSet(Given)
    BY <2>1, EntriesFinite
  <2>3. Cardinality(Given \cup {e}) = Cardinality(Given) + 1
    BY <2>1, <2>2, FS_AddElement, SMTT(30)
  <2> QED BY <1>3, <1>11, <2>1, <2>3, SMTT(30)
<1>17. ASSUME NEW c \in sc.old .. sc.new - 1
       PROVE  \/ rss_core_buckets'[c] >= q
              \/ rss_core_buckets'[c] >= sc.n + 1 - (c - sc.old) * q
  <2>1. c \in Cores /\ c # t /\ rss_core_buckets[c] \in Nat /\ c - sc.old \in Nat
    BY <1>3, <1>6, <1>7
  <2>2. (c - sc.old) * q \in Nat /\ (j - sc.old) * q \in Nat
    BY <1>3, <1>5, <1>8, <2>1
  <2>3. \/ rss_core_buckets[c] >= q
        \/ rss_core_buckets[c] >= sc.n - (c - sc.old) * q
    BY <1>3, <1>4
  <2>4. CASE c = j
    BY <1>3, <1>10, <2>1, <2>2, <2>3, <2>4
  <2>5. CASE c < j
    <3>1. (c - sc.old + 1) * q <= (j - sc.old) * q
      BY <1>3, <1>5, <1>8, <2>1, <2>5, TimesMono
    <3>2. (c - sc.old + 1) * q = (c - sc.old) * q + q
      BY <1>5, <2>1
    <3>3. sc.n - (c - sc.old) * q >= q
      BY <1>3, <1>5, <1>8, <2>2, <3>1, <3>2, SMTT(30)
    <3>4. rss_core_buckets[c] >= q
      BY <1>3, <1>5, <2>1, <2>2, <2>3, <3>3, SMTT(30)
    <3> QED BY <1>10, <2>1, <2>5, <3>4, SMTT(30)
  <2>6. CASE c > j
    <3>1. (j - sc.old + 1) * q <= (c - sc.old) * q
      BY <1>3, <1>5, <1>8, <2>1, <2>6, TimesMono, SMTT(30)
    <3>2. (j - sc.old + 1) * q = (j - sc.old) * q + q
      BY <1>3, <1>5, <1>8, SMTT(30)
    <3>3. sc.n + 1 - (c - sc.old) * q <= 0
      BY <1>3, <1>5, <1>8, <2>2, <3>1, <3>2
    <3> QED BY <1>3, <1>10, <2>1, <2>2, <2>6, <3>3, SMTT(30)
  <2> QED BY <1>3, <1>8, <2>1, <2>4, <2>5, <2>6 DEF Cores
<1>18. Share(sc.new)' = q
  BY <1>4, <1>11 DEF Share
<1> QED
  BY <1>2, <1>3, <1>10, <1>11, <1>12, <1>13, <1>14, <1>15, <1>16, <1>17, <1>18, SMTT(30)
  DEF ScaleInv

(* A round of network_scale_down.                                          *)
LEMMA Down_Inv ==
    ASSUME ScaleInv, network_scale_down
    PROVE  ScaleInv'
<1>1. /\ sc.pc = "down" /\ sc.n < RETA_SIZE
      /\ sc' = [sc EXCEPT !.n = @ + 1]
      /\ UNCHANGED <<nic, fp_cores_cur, fp_scale_to, lm, waiting_n>>
  BY DEF network_scale_down, monv
<1>2. /\ sc.old \in 1 .. fp_cores_max /\ sc.new \in 1 .. fp_cores_max
      /\ sc.new < sc.old /\ sc.n \in 0 .. RETA_SIZE
      /\ reta \in [Entries -> Cores]
      /\ rss_core_buckets \in [Cores -> 0 .. RETA_SIZE]
      /\ ScaleTypeOK /\ Counted /\ Served
      /\ \A x \in Entries : x < sc.n => reta[x] < sc.new
      /\ \A x \in Entries : x \notin mask => nic[x] = reta[x]
      /\ flow_group_steering = reta /\ fp_scale_to = sc.new /\ fp_cores_cur = sc.old
  BY <1>1 DEF ScaleInv, ScaleTypeOK
<1>3. /\ sc'.pc = "down" /\ sc'.old = sc.old /\ sc'.new = sc.new /\ sc'.n = sc.n + 1
      /\ sc' \in [pc : {"idle", "up", "down", "set", "clear"},
                  old : 1 .. fp_cores_max, new : 1 .. fp_cores_max,
                  k : Entries, n : 0 .. RETA_SIZE]
  <2>1. /\ sc \in [pc : {"idle", "up", "down", "set", "clear"},
                  old : 1 .. fp_cores_max, new : 1 .. fp_cores_max,
                  k : Entries, n : 0 .. RETA_SIZE]
    BY <1>2 DEF ScaleTypeOK
  <2>2. sc.n + 1 \in 0 .. RETA_SIZE
    BY <1>1, <1>2, ScaleAssumption
  <2> QED BY <1>1, <2>1, <2>2
<1>4. PICK n \in Entries : n = sc.n
  BY <1>1, <1>2, ScaleAssumption DEF Entries
<1>5. Staying = sc.new /\ Staying' = sc.new
  BY <1>1, <1>2, <1>3 DEF Staying
<1>6. \A c \in 0 .. sc.new - 1 : c \in Cores
  BY <1>2, ScaleAssumption, SMTT(30) DEF Cores
<1>7. CASE reta[n] >= sc.new
  <2>1. PICK c \in Cores : c = core_min(sc.new) /\ c \in 0 .. sc.new - 1
    BY <1>2, <1>6, CoreMin
  <2>2. Moved(n, c) /\ c # reta[n] /\ reta[n] \in Cores
    BY <1>2, <1>4, <1>7, <2>1 DEF network_scale_down
  <2>3. /\ reta' \in [Entries -> Cores] /\ mask' \subseteq Entries
        /\ flow_group_steering' \in [Entries -> Cores]
        /\ rss_core_buckets' \in [Cores -> 0 .. RETA_SIZE]
        /\ Counted'
        /\ rss_core_buckets'[c] = rss_core_buckets[c] + 1
        /\ \A d \in Cores \ {c, reta[n]} : rss_core_buckets'[d] = rss_core_buckets[d]
    BY <1>2, <2>2, MovedCounts
  <2>4. ScaleTypeOK'
    BY <1>1, <1>2, <1>3, <2>3 DEF ScaleTypeOK
  <2>5. Served'
    <3>1. ASSUME NEW d \in 0 .. sc.new - 1
          PROVE  rss_core_buckets'[d] >= RETA_SIZE \div fp_cores_max
      <4>1. d \in Cores /\ d # reta[n] /\ rss_core_buckets[d] \in Nat
        BY <1>2, <1>6, <1>7, <2>2, SMTT(30) DEF Cores
      <4>2. rss_core_buckets[d] >= RETA_SIZE \div fp_cores_max
        BY <1>2, <1>5 DEF Served
      <4>3. RETA_SIZE \div fp_cores_max \in Nat
        BY <1>2, Shares
      <4>4. CASE d = c
        BY <2>3, <4>1, <4>2, <4>3, <4>4
      <4>5. CASE d # c
        BY <2>3, <4>1, <4>2, <4>5
      <4> QED BY <4>4, <4>5
    <3> QED BY <1>5, <3>1 DEF Served
  <2>6. /\ flow_group_steering' = reta'
        /\ \A x \in Entries : x \notin mask' => nic'[x] = reta'[x]
    BY <1>1, <1>2, <2>2 DEF Moved, ScaleTypeOK
  <2>7. \A x \in Entries : x < sc.n + 1 => reta'[x] < sc.new
    <3>1. reta'[n] = c /\ \A x \in Entries \ {n} : reta'[x] = reta[x]
      BY <1>2, <2>2 DEF Moved
    <3>2. \A x \in Entries \ {n} : x < sc.n + 1 => x < sc.n
      BY <1>2, <1>4 DEF Entries
    <3>3. c < sc.new
      BY <1>2, <2>1
    <3> QED BY <1>2, <3>1, <3>2, <3>3
  <2> QED BY <1>1, <1>2, <1>3, <2>3, <2>4, <2>5, <2>6, <2>7, SMTT(30) DEF ScaleInv
<1>8. CASE ~ (reta[n] >= sc.new)
  <2>1. UNCHANGED <<reta, mask, rss_core_buckets, flow_group_steering>>
    BY <1>4, <1>8 DEF network_scale_down, tablev
  <2>2. ScaleTypeOK'
    BY <1>1, <1>2, <1>3, <2>1 DEF ScaleTypeOK
  <2>3. Counted'
    BY <1>2, <2>1 DEF Counted, Of
  <2>4. Served'
    BY <1>2, <1>5, <2>1 DEF Served
  <2>5. \A x \in Entries : x < sc.n + 1 => reta'[x] < sc.new
    <3>1. \A x \in Entries \ {n} : x < sc.n + 1 => x < sc.n
      BY <1>2, <1>4 DEF Entries
    <3>2. reta[n] < sc.new
      BY <1>2, <1>8 DEF Cores
    <3> QED BY <1>2, <2>1, <3>1, <3>2
  <2> QED BY <1>1, <1>2, <1>3, <2>1, <2>2, <2>3, <2>4, <2>5, SMTT(30) DEF ScaleInv
<1> QED BY <1>7, <1>8

(* The update of the device: the table the cores are steered by from then  *)
(* on is the one core 0 has written, whichever way it scaled.              *)
LEMMA Update_Inv ==
    ASSUME ScaleInv, reta_update
    PROVE  ScaleInv'
<1>1. /\ (sc.pc = "up" /\ ~UpLeft) \/ (sc.pc = "down" /\ sc.n = RETA_SIZE)
      /\ nic' = [e \in Entries |-> IF e \in mask THEN reta[e] ELSE nic[e]]
      /\ sc' = [sc EXCEPT !.pc = "set"]
      /\ UNCHANGED <<reta, mask, rss_core_buckets, flow_group_steering>>
      /\ UNCHANGED <<fp_cores_cur, fp_scale_to, lm, waiting_n>>
  BY DEF reta_update, tablev, monv
<1>2. /\ sc.old \in 1 .. fp_cores_max /\ sc.new \in 1 .. fp_cores_max
      /\ sc.n \in 0 .. RETA_SIZE
      /\ reta \in [Entries -> Cores]
      /\ rss_core_buckets \in [Cores -> 0 .. RETA_SIZE]
      /\ ScaleTypeOK /\ Counted /\ Served
      /\ \A x \in Entries : x \notin mask => nic[x] = reta[x]
      /\ flow_group_steering = reta /\ fp_scale_to = sc.new /\ fp_cores_cur = sc.old
  BY <1>1 DEF ScaleInv, ScaleTypeOK
<1>3. nic' = reta /\ nic' \in [Entries -> Cores]
  BY <1>1, <1>2
<1>4. /\ sc'.pc = "set" /\ sc'.old = sc.old /\ sc'.new = sc.new
      /\ sc' \in [pc : {"idle", "up", "down", "set", "clear"},
                  old : 1 .. fp_cores_max, new : 1 .. fp_cores_max,
                  k : Entries, n : 0 .. RETA_SIZE]
  BY <1>1, <1>2 DEF ScaleTypeOK
<1>5. Staying' = Staying
  BY <1>1, <1>4 DEF Staying
<1>6. ScaleTypeOK' /\ Counted' /\ Served'
  <2>1. ScaleTypeOK'
    BY <1>1, <1>2, <1>3, <1>4 DEF ScaleTypeOK
  <2>2. Counted'
    BY <1>1, <1>2 DEF Counted, Of
  <2>3. Served'
    BY <1>1, <1>2, <1>5 DEF Served
  <2> QED BY <2>1, <2>2, <2>3
<1>7. CASE sc.pc = "down"
  <2>1. /\ sc.n = RETA_SIZE /\ sc.new < sc.old
        /\ \A x \in Entries : x < sc.n => reta[x] < sc.new
    BY <1>1, <1>7 DEF ScaleInv
  <2>2. \A x \in Entries : reta[x] < sc.new
    BY <2>1, ScaleAssumption DEF Entries
  <2>3. \A c \in 0 .. sc.new - 1 : rss_core_buckets[c] >= RETA_SIZE \div fp_cores_max
    BY <1>2, <1>7, <2>1 DEF Served, Staying
  <2> QED BY <1>1, <1>2, <1>3, <1>4, <1>6, <2>2, <2>3, SMTT(30) DEF ScaleInv
<1>8. CASE sc.pc = "up"
  <2>1. /\ ~UpLeft /\ sc.old < sc.new
        /\ sc.n <= (sc.new - sc.old) * Share(sc.new)
        /\ \A x \in Entries : reta[x] < sc.new
        /\ \A c \in sc.old .. sc.new - 1 :
             \/ rss_core_buckets[c] >= Share(sc.new)
             \/ rss_core_buckets[c] >= sc.n - (c - sc.old) * Share(sc.new)
    BY <1>1, <1>8 DEF ScaleInv
  <2>2. PICK q \in Nat : q = Share(sc.new)
    BY <1>2, <2>1, Shares
  <2>3. /\ RETA_SIZE \div fp_cores_max \in Nat
        /\ RETA_SIZE \div fp_cores_max <= q /\ (sc.new - sc.old) * q \in Nat
    BY <1>2, <2>1, <2>2, Shares
  <2>4. sc.n = (sc.new - sc.old) * q
    BY <1>2, <2>1, <2>2, <2>3 DEF UpLeft
  <2>5. ASSUME NEW c \in 0 .. sc.new - 1
        PROVE  rss_core_buckets[c] >= RETA_SIZE \div fp_cores_max
    <3>1. CASE c < sc.old
      BY <1>2, <1>8, <2>1, <3>1 DEF Served, Staying
    <3>2. CASE ~ (c < sc.old)
      <4>1. c \in sc.old .. sc.new - 1 /\ c \in Cores
        BY <1>2, <3>2, ScaleAssumption, SMTT(30) DEF Cores
      <4>2. PICK d \in Nat : d = c - sc.old
        BY <1>2, <4>1
      <4>3. d + 1 <= sc.new - sc.old /\ d + 1 \in Nat /\ sc.new - sc.old \in Nat
        BY <1>2, <4>1, <4>2
      <4>4. (d + 1) * q <= (sc.new - sc.old) * q
        BY <2>2, <4>3, TimesMono
      <4>5. (d + 1) * q = d * q + q /\ d * q \in Nat
        BY <2>2, <4>2
      <4>6. sc.n - d * q >= q
        BY <2>2, <2>3, <2>4, <4>4, <4>5
      <4>7. rss_core_buckets[c] \in Nat
        BY <1>2, <4>1
      <4>8. rss_core_buckets[c] >= q \/ rss_core_buckets[c] >= sc.n - d * q
        BY <2>1, <2>2, <4>1, <4>2
      <4>9. rss_core_buckets[c] >= q
        BY <1>2, <2>2, <4>5, <4>6, <4>7, <4>8
      <4> QED BY <2>2, <2>3, <4>7, <4>9
    <3> QED BY <3>1, <3>2
  <2> QED BY <1>1, <1>2, <1>3, <1>4, <1>6, <2>1, <2>5, SMTT(30) DEF ScaleInv
<1> QED BY <1>1, <1>7, <1>8

(* The end of poll_scale, one variable after the other.                    *)
LEMMA End_Inv ==
    ASSUME ScaleInv, set_cores \/ clear_request
    PROVE  ScaleInv'
<1>1. /\ UNCHANGED <<reta, mask, rss_core_buckets, flow_group_steering>>
      /\ UNCHANGED <<nic, lm, waiting_n>>
  BY SMTT(30) DEF set_cores, clear_request, tablev, monv
<1>2. /\ sc.old \in 1 .. fp_cores_max /\ sc.new \in 1 .. fp_cores_max
      /\ ScaleTypeOK /\ Counted /\ Served /\ flow_group_steering = reta
  BY SMTT(30) DEF ScaleInv, ScaleTypeOK
<1>3. Counted'
  BY <1>1, <1>2 DEF Counted, Of
<1>4. CASE set_cores
  <2>1. /\ sc.pc = "set" /\ fp_cores_cur' = sc.new /\ UNCHANGED fp_scale_to
        /\ sc' = [sc EXCEPT !.pc = "clear"]
    BY <1>4 DEF set_cores
  <2>2. /\ sc'.pc = "clear" /\ sc'.old = sc.old /\ sc'.new = sc.new
        /\ ScaleTypeOK'
    BY <1>1, <1>2, <2>1 DEF ScaleTypeOK
  <2>3. Staying' = Staying
    BY <2>1, <2>2 DEF Staying
  <2>4. Served'
    BY <1>1, <1>2, <2>3, SMTT(30) DEF Served
  <2> QED BY <1>1, <1>2, <1>3, <2>1, <2>2, <2>4, SMTT(30) DEF ScaleInv
<1>5. CASE clear_request
  <2>1. sc.pc = "clear" /\ fp_scale_to' = 0 /\ sc' = Idle /\ UNCHANGED fp_cores_cur
    BY <1>5 DEF clear_request
  <2>2. /\ nic = reta /\ fp_cores_cur = sc.new
        /\ \A e \in Entries : reta[e] < sc.new
        /\ \A c \in 0 .. sc.new - 1 :
             rss_core_buckets[c] >= RETA_SIZE \div fp_cores_max
    BY <2>1 DEF ScaleInv
  <2>3. sc'.pc = "idle"
    BY <2>1 DEF Idle
  <2>4. ScaleTypeOK'
    <3>1. 0 \in Entries /\ 1 \in 1 .. fp_cores_max /\ 0 \in 0 .. RETA_SIZE
          /\ 0 \in 0 .. fp_cores_max
      BY ScaleAssumption DEF Entries
    <3>2. sc' \in [pc : {"idle", "up", "down", "set", "clear"},
                  old : 1 .. fp_cores_max, new : 1 .. fp_cores_max,
                  k : Entries, n : 0 .. RETA_SIZE]
      BY <2>1, <3>1 DEF Idle
    <3> QED BY <1>1, <1>2, <2>1, <3>1, <3>2 DEF ScaleTypeOK
  <2>5. Staying' = sc.new
    BY <2>1, <2>2, <2>3 DEF Staying
  <2>6. Served'
    BY <1>1, <2>2, <2>5, SMTT(30) DEF Served
  <2> QED BY <1>1, <1>2, <1>3, <2>1, <2>2, <2>3, <2>4, <2>6, SMTT(30) DEF ScaleInv
<1> QED BY <1>4, <1>5

(* A step that changes nothing of this component.                          *)
LEMMA ScaleStutter_Inv ==
    ASSUME ScaleInv, UNCHANGED scalevars
    PROVE  ScaleInv'
<1>1. /\ UNCHANGED <<reta, mask, rss_core_buckets, flow_group_steering>>
      /\ UNCHANGED <<nic, fp_cores_cur, fp_scale_to, sc, lm, waiting_n>>
  BY DEF scalevars, tablev, monv
<1>2. Staying' = Staying /\ Given' = Given /\ Share(sc.new)' = Share(sc.new)
  BY <1>1, SMTT(30) DEF Staying, Given, Share
<1>3. ScaleTypeOK' /\ Counted' /\ Served'
  BY <1>1, <1>2, SMTT(30) DEF ScaleInv, ScaleTypeOK, Counted, Of, Served
<1> QED BY <1>1, <1>2, <1>3 DEF ScaleInv

-----------------------------------------------------------------------------
(* What the invariant implies.                                             *)

(* The search of network_scale_up finds an entry.                          *)
LEMMA Inv_SearchEnds == ScaleInv => SearchEnds
<1> SUFFICES ASSUME ScaleInv, sc.pc = "up", UpLeft
             PROVE  \E e \in Entries : reta[e] = core_max(sc.old)
  BY SMTT(30) DEF SearchEnds
<1>1. /\ sc.old \in 1 .. fp_cores_max /\ sc.new \in 1 .. fp_cores_max
      /\ sc.old < sc.new /\ Counted
      /\ rss_core_buckets \in [Cores -> 0 .. RETA_SIZE]
  BY DEF ScaleInv, ScaleTypeOK
<1>2. Share(sc.new) \in Nat
  BY <1>1, Shares
<1>3. PICK t \in Cores : /\ t = core_max(sc.old)
                         /\ rss_core_buckets[t] > Share(sc.new)
  BY <1>1, UpRoom, ScaleAssumption, SMTT(30) DEF Cores
<1>4. rss_core_buckets[t] # 0
  BY <1>1, <1>2, <1>3
<1>5. Cardinality(Of(t)) # 0
  BY <1>1, <1>4 DEF Counted
<1>6. Of(t) # {}
  BY <1>5, FS_EmptySet
<1> QED BY <1>3, <1>6 DEF Of

(* Between two scalings, everyone has one table and it names cores in use. *)
LEMMA Inv_Steered == ScaleInv => Steered
BY DEF ScaleInv, Steered

(* The invariant holds in every reachable state, for every size of the     *)
(* redirection table and every number of cores that is no larger.          *)
THEOREM ScaleSafe == ScaleSpec => []ScaleInv
<1>1. ScaleInv /\ [ScaleNext]_scalevars => ScaleInv'
  <2> SUFFICES ASSUME ScaleInv, [ScaleNext]_scalevars PROVE ScaleInv'
    OBVIOUS
  <2>1. CASE loadmon_read \/ loadmon_decide \/ kin_req_scale
    BY <2>1, Request_Inv
  <2>2. CASE poll_scale
    BY <2>2, Begin_Inv
  <2>3. CASE network_scale_up
    BY <2>3, Up_Inv
  <2>4. CASE network_scale_down
    BY <2>4, Down_Inv
  <2>5. CASE reta_update
    BY <2>5, Update_Inv
  <2>6. CASE set_cores \/ clear_request
    BY <2>6, End_Inv
  <2>7. CASE UNCHANGED scalevars
    BY <2>7, ScaleStutter_Inv
  <2> QED
    BY <2>1, <2>2, <2>3, <2>4, <2>5, <2>6, <2>7 DEF ScaleNext, core0
<1> QED BY ScaleInit_Inv, <1>1, PTL DEF ScaleSpec

(* rss_core_buckets counts the entries of each core, whatever the order of *)
(* requests, and so does every step of rewriting the table.                *)
THEOREM ScaleCounted == ScaleSpec => []Counted
<1>1. ScaleInv => Counted
  BY DEF ScaleInv
<1> QED BY <1>1, ScaleSafe, PTL

(* network_scale_up never searches the table for an entry it does not have. *)
THEOREM ScaleSearchEnds == ScaleSpec => []SearchEnds
BY ScaleSafe, Inv_SearchEnds, PTL

(* Between two scalings the device, the fast path and the slow path agree  *)
(* on a table that only names cores in use.                                *)
THEOREM ScaleSteered == ScaleSpec => []Steered
BY ScaleSafe, Inv_Steered, PTL

(* Every core in use keeps the share it would have with all cores in use,  *)
(* so that with at least one entry per core none of them runs dry.         *)
THEOREM ScaleServed == ScaleSpec => []Served
<1>1. ScaleInv => Served
  BY DEF ScaleInv
<1> QED BY <1>1, ScaleSafe, PTL
=============================================================================
