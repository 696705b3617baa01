-------------------------- MODULE AlarmWorkerProofs --------------------------
(***************************************************************************)
(* The histories, the counters and the judgement of false triggers of      *)
(* AlarmWorker, proved for all devices, clocks, windows and headings.      *)
(***************************************************************************)
EXTENDS AlarmWorker, FiniteSetTheorems, SequenceTheorems, InductionLemmas

-----------------------------------------------------------------------------
(* Lemmas about the operators *)

(* A nonempty set of naturals has a least element, which Min returns.      *)
LEMMA MinIsLeast ==
    ASSUME NEW S, S \subseteq Nat, S # {}
    PROVE  Min(S) \in S /\ \A n \in S : Min(S) <= n
<1>1. \E least \in S : \A n \in S : least <= n
  BY LeastExists
<1> QED BY <1>1 DEF Min

(* Dropping old entries makes a history no longer and keeps its type.      *)
LEMMA DropOldType ==
    ASSUME NEW S, NEW entries \in Seq(S), NEW start
    PROVE  DropOld(entries, start) \in Seq(S) /\ Len(DropOld(entries, start)) <= Len(entries)
<1> DEFINE recent == {i \in DOMAIN entries : entries[i].timestamp >= start}
<1>1. CASE recent = {}
  <2>1. DropOld(entries, start) = <<>>
    BY <1>1 DEF DropOld
  <2> QED BY <2>1
<1>2. CASE recent # {}
  <2>1. Min(recent) \in 1..Len(entries)
    <3>1. recent \subseteq 1..Len(entries) /\ recent \subseteq Nat
      OBVIOUS
    <3> HIDE DEF recent
    <3> QED BY <1>2, <3>1, MinIsLeast
  <2>2. DropOld(entries, start) = SubSeq(entries, Min(recent), Len(entries))
    BY <1>2 DEF DropOld
  <2>3. \A i \in Min(recent)..Len(entries) : entries[i] \in S
    BY <2>1
  <2> HIDE DEF recent
  <2>4. SubSeq(entries, Min(recent), Len(entries)) \in Seq(S)
    BY <2>1
  <2>5. Len(SubSeq(entries, Min(recent), Len(entries))) <= Len(entries)
    BY <2>1
  <2> QED BY <2>2, <2>4, <2>5
<1> QED BY <1>1, <1>2

(* A count over a history is at most its length; a stronger test counts no *)
(* more entries; so a quotient of the two has the type of a score.         *)
LEMMA RatioType ==
    ASSUME NEW entries \in Seq(Readings), Len(entries) <= MaxReadings,
           NEW A, NEW B, A \subseteq B, B \subseteq DOMAIN entries,
           NEW default \in Counts
    PROVE  Ratio(Cardinality(A), Cardinality(B), default) \in Counts
<1>1. IsFiniteSet(DOMAIN entries) /\ Cardinality(DOMAIN entries) = Len(entries)
  <2>1. DOMAIN entries = 1..Len(entries) /\ Len(entries) \in Nat
    OBVIOUS
  <2> DEFINE n == Len(entries)
  <2> HIDE DEF n
  <2>2. n \in Nat
    BY <2>1 DEF n
  <2>3. IsFiniteSet(1..n) /\ Cardinality(1..n) = IF 1 > n THEN 0 ELSE n - 1 + 1
    BY <2>2, FS_Interval
  <2>4. Cardinality(1..n) = n
    BY <2>2, <2>3
  <2> QED BY <2>1, <2>3, <2>4 DEF n
<1>2. IsFiniteSet(B) /\ Cardinality(B) <= Len(entries)
  BY <1>1, FS_Subset
<1>3. IsFiniteSet(A) /\ Cardinality(A) <= Cardinality(B)
  BY <1>2, FS_Subset
<1>4. Cardinality(A) \in Nat /\ Cardinality(B) \in Nat
  BY <1>2, <1>3, FS_CardinalityType
<1>5. Len(entries) \in Nat
  OBVIOUS
<1> QED BY <1>2, <1>3, <1>4, <1>5, BoundsAssumption DEF Ratio, Counts

(* The client never publishes more than the alerts it is given, and while  *)
(* it stays connected it publishes them all.                               *)
LEMMA SentType ==
    ASSUME NEW n \in Nat, NEW sent \in Sent(n), connected \in BOOLEAN
    PROVE  /\ sent[1] \in Nat /\ sent[1] <= n
           /\ sent[2] \in BOOLEAN
           /\ sent[2] => connected /\ sent[1] = n
<1>1. CASE sent = <<n, TRUE>> /\ connected
  <2>1. sent[1] = n /\ sent[2] = TRUE
    BY <1>1
  <2> QED BY <1>1, <2>1
<1>2. ASSUME NEW k \in Nat, k <= n, sent = <<k, FALSE>>
      PROVE  /\ sent[1] \in Nat /\ sent[1] <= n
             /\ sent[2] = FALSE
  BY <1>2
<1>3. \/ sent = <<n, TRUE>> /\ connected
      \/ \E k \in Nat : k <= n /\ sent = <<k, FALSE>>
  <2>1. CASE connected
    <3>1. sent \in {<<n, TRUE>>} \cup {<<k, FALSE>> : k \in 0..n - 1}
      BY <2>1, Zenon DEF Sent
    <3>2. sent = <<n, TRUE>> \/ \E k \in 0..n - 1 : sent = <<k, FALSE>>
      BY <3>1, Zenon
    <3>3. \A k \in 0..n - 1 : k \in Nat /\ k <= n
      OBVIOUS
    <3> QED BY <2>1, <3>2, <3>3, Zenon
  <2>2. CASE ~connected
    <3>1. sent = <<0, FALSE>>
      BY <2>2, Zenon DEF Sent
    <3> QED BY <3>1
  <2> QED BY <2>1, <2>2
<1> QED BY <1>1, <1>2, <1>3

(* The angular distance of two octants exceeds a quarter turn exactly when *)
(* they are not near; no direction, -1, counts as the last octant.         *)
LEMMA OffCourseIsNotNear ==
    ASSUME NEW a \in -1..7, NEW e \in 0..7
    PROVE  OffCourse(a, e) <=> ~Near(a % 8, e)
<1>1. a % 8 = IF a = -1 THEN 7 ELSE a
  OBVIOUS
<1>2. \A b \in 0..7, k \in 0..2 : (b + k) % 8 = IF b + k < 8 THEN b + k ELSE b + k - 8
  OBVIOUS
<1> DEFINE b == IF a = -1 THEN 7 ELSE a
<1>3. b \in 0..7
  OBVIOUS
<1>4. Near(b, e) <=> \E k \in 0..2 : \/ (IF b + k < 8 THEN b + k ELSE b + k - 8) = e
                                     \/ (IF e + k < 8 THEN e + k ELSE e + k - 8) = b
  BY <1>2, <1>3 DEF Near
<1>5. 0 \in 0..2 /\ 1 \in 0..2 /\ 2 \in 0..2 /\ \A k \in 0..2 : k = 0 \/ k = 1 \/ k = 2
  OBVIOUS
<1>6. OffCourse(a, e) <=> ~Near(b, e)
  BY <1>4, <1>5 DEF OffCourse, Abs, Lesser
<1> QED BY <1>1, <1>6

(* Both figures of a history are counts in order, never a division by 0.   *)
LEMMA FiguresType ==
    ASSUME NEW entries \in Seq(Readings), Len(entries) <= MaxReadings
    PROVE  /\ calculate_sensitivity_score(entries) \in Counts
           /\ calculate_false_trigger_rate(entries) \in Counts
<1> DEFINE Which(Test(_)) == {i \in DOMAIN entries : Test(entries[i])}
<1>1. <<1, 1>> \in Counts /\ <<0, 1>> \in Counts
  BY BoundsAssumption DEF Counts
<1>2. Which(Detected) \subseteq Which(Strong) /\ Which(Strong) \subseteq DOMAIN entries
  BY DEF Detected, Strong
<1>3. Which(FalselyTriggered) \subseteq Which(Triggered) /\ Which(Triggered) \subseteq DOMAIN entries
  BY DEF FalselyTriggered, Triggered
<1>4. calculate_sensitivity_score(entries)
        = Ratio(Cardinality(Which(Detected)), Cardinality(Which(Strong)), <<1, 1>>)
  BY DEF calculate_sensitivity_score, CountIf
<1>5. calculate_false_trigger_rate(entries)
        = Ratio(Cardinality(Which(FalselyTriggered)), Cardinality(Which(Triggered)), <<0, 1>>)
  BY DEF calculate_false_trigger_rate, CountIf
<1> HIDE DEF Which
<1> QED BY <1>1, <1>2, <1>3, <1>4, <1>5, RatioType

-----------------------------------------------------------------------------
(* The readings of a device and the end of them that is its history *)

(* What has been kept after each element. *)
KeptAfter(s, S, kept) ==
    /\ kept[0] = <<>>
    /\ \A i \in 1..Len(s) :
          kept[i] = IF s[i] \in S THEN Append(kept[i - 1], s[i]) ELSE kept[i - 1]
    /\ Kept(s, S) = kept[Len(s)]

(* Kept passes over its sequence once. *)
LEMMA KeptPasses ==
    ASSUME NEW T, NEW s \in Seq(T), NEW S
    PROVE  \E kept \in [0..Len(s) -> Seq(T)] : KeptAfter(s, S, kept)
<1> DEFINE m == Len(s)
           step == [i \in 1..m |-> [k \in Seq(T) |-> IF s[i] \in S THEN Append(k, s[i]) ELSE k]]
           IsKept(f) == f = [i \in 0..m |->
               IF i = 0 THEN <<>> ELSE IF s[i] \in S THEN Append(f[i - 1], s[i]) ELSE f[i - 1]]
           kept == CHOOSE f : IsKept(f)
<1>1. m \in Nat /\ <<>> \in Seq(T) /\ \A i \in 1..m : s[i] \in T
  OBVIOUS
<1>2. step \in [1..m -> [Seq(T) -> Seq(T)]]
  OBVIOUS
<1>3. \E g \in [0..m -> Seq(T)] : g[0] = <<>> /\ \A i \in 1..m : g[i] = step[i][g[i - 1]]
  <2> DEFINE X == Seq(T)
             x0 == <<>>
  <2>1. m \in Nat /\ x0 \in X /\ step \in [1..m -> [X -> X]]
    BY <1>1, <1>2
  <2> HIDE DEF m, step, X, x0
  <2>2. \E g \in [0..m -> X] : g[0] = x0 /\ \A i \in 1..m : g[i] = step[i][g[i - 1]]
    BY <2>1, Recursion
  <2> QED BY <2>2 DEF X, x0
<1>4. PICK g \in [0..m -> Seq(T)] : g[0] = <<>> /\ \A i \in 1..m : g[i] = step[i][g[i - 1]]
  BY <1>3
<1>5. IsKept(g)
  <2>1. ASSUME NEW i \in 0..m
        PROVE  g[i] = IF i = 0 THEN <<>> ELSE IF s[i] \in S THEN Append(g[i - 1], s[i]) ELSE g[i - 1]
    <3>1. CASE i = 0
      BY <1>4, <3>1
    <3>2. CASE i # 0
      <4>1. i \in 1..m /\ i - 1 \in 0..m
        BY <1>1, <3>2
      <4>2. g[i - 1] \in Seq(T)
        BY <1>4, <4>1
      <4>3. step[i][g[i - 1]] = IF s[i] \in S THEN Append(g[i - 1], s[i]) ELSE g[i - 1]
        BY <4>1, <4>2
      <4> QED BY <1>4, <3>2, <4>1, <4>3
    <3> QED BY <3>1, <3>2
  <2> HIDE DEF step
  <2> QED BY <1>4, <2>1
<1>6. IsKept(kept)
  <2> HIDE DEF IsKept
  <2> QED BY <1>5
<1>7. Kept(s, S) = kept[m]
  BY DEF Kept
<1> HIDE DEF kept, step
<1>8. kept[0] = <<>> /\ DOMAIN kept = 0..m
  BY <1>1, <1>6
<1>9. ASSUME NEW i \in 1..m
      PROVE  kept[i] = IF s[i] \in S THEN Append(kept[i - 1], s[i]) ELSE kept[i - 1]
  <2>1. i \in 0..m /\ i # 0
    BY <1>1
  <2> QED BY <1>6, <2>1
<1>10. \A i \in 0..m : kept[i] \in Seq(T)
  <2> DEFINE Good == {i \in 0..m : kept[i] \in Seq(T)}
  <2>1. 0 \in Good
    <3>1. 0 \in 0..m /\ kept[0] \in Seq(T)
      BY <1>1, <1>8
    <3> QED BY <3>1
  <2>2. ASSUME NEW i \in 1..m, i - 1 \in Good PROVE i \in Good
    <3>1. i \in 0..m /\ kept[i - 1] \in Seq(T) /\ s[i] \in T
      BY <1>1, <2>2
    <3>2. Append(kept[i - 1], s[i]) \in Seq(T)
      BY <3>1
    <3>3. kept[i] \in Seq(T)
      BY <1>9, <3>1, <3>2
    <3> QED BY <3>1, <3>3
  <2> HIDE DEF Good
  <2>3. \A i \in 0..m : i \in Good
    BY <1>1, <2>1, <2>2, UpTo
  <2> QED BY <2>3 DEF Good
<1>11. kept \in [0..m -> Seq(T)]
  <2>1. kept = [i \in 0..m |-> kept[i]]
    BY <1>6
  <2> QED BY <2>1, <1>10
<1> QED BY <1>7, <1>8, <1>9, <1>11 DEF KeptAfter

(* It keeps elements, and nothing of an empty sequence.                    *)
LEMMA KeptType ==
    ASSUME NEW T, NEW s \in Seq(T), NEW S
    PROVE  Kept(s, S) \in Seq(T) /\ (s = <<>> => Kept(s, S) = <<>>)
<1>1. PICK f \in [0..Len(s) -> Seq(T)] : KeptAfter(s, S, f)
  BY KeptPasses
<1>2. Len(s) \in Nat
  OBVIOUS
<1> QED BY <1>1, <1>2 DEF KeptAfter

(* It decides on a new element without touching what it kept before.       *)
LEMMA KeptAppend ==
    ASSUME NEW T, NEW s \in Seq(T), NEW e \in T, NEW S
    PROVE  Kept(Append(s, e), S) = IF e \in S THEN Append(Kept(s, S), e) ELSE Kept(s, S)
<1> DEFINE longer == Append(s, e)
<1>1. /\ longer \in Seq(T) /\ Len(longer) = Len(s) + 1 /\ Len(s) \in Nat
      /\ \A i \in 1..Len(s) : longer[i] = s[i]
      /\ longer[Len(s) + 1] = e
  OBVIOUS
<1> HIDE DEF longer
<1>2. PICK f \in [0..Len(s) -> Seq(T)] : KeptAfter(s, S, f)
  BY KeptPasses
<1>3. PICK g \in [0..Len(longer) -> Seq(T)] : KeptAfter(longer, S, g)
  BY <1>1, KeptPasses
<1> USE DEF KeptAfter
<1>4. \A i \in 0..Len(s) : f[i] = g[i]
  <2> DEFINE Same == {i \in 0..Len(s) : f[i] = g[i]}
  <2>1. 0 \in Same
    BY <1>1, <1>2, <1>3
  <2>2. ASSUME NEW i \in 1..Len(s), i - 1 \in Same PROVE i \in Same
    <3>1. i \in 1..Len(longer) /\ longer[i] = s[i] /\ f[i - 1] = g[i - 1] /\ i \in 0..Len(s)
      BY <1>1, <2>2
    <3>2. f[i] = g[i]
      BY <1>2, <1>3, <3>1
    <3> QED BY <3>1, <3>2
  <2> HIDE DEF Same
  <2>3. \A i \in 0..Len(s) : i \in Same
    BY <1>1, <2>1, <2>2, UpTo
  <2> QED BY <2>3 DEF Same
<1>6. Len(longer) \in 1..Len(longer) /\ Len(longer) - 1 = Len(s) /\ longer[Len(longer)] = e
  BY <1>1
<1>7. g[Len(longer) - 1] = Kept(s, S)
  BY <1>1, <1>2, <1>4, <1>6
<1>8. Kept(longer, S) = IF e \in S THEN Append(Kept(s, S), e) ELSE Kept(s, S)
  BY <1>3, <1>6, <1>7
<1> QED BY <1>8 DEF longer

(* A segment of a sequence with one more element is the segment and that.  *)
LEMMA SubSeqGrows ==
    ASSUME NEW T, NEW s \in Seq(T), NEW m \in 1..Len(s), NEW n \in m..Len(s)
    PROVE  SubSeq(s, m, n) = Append(SubSeq(s, m, n - 1), s[n])
<1> DEFINE whole == SubSeq(s, m, n)
           start == SubSeq(s, m, n - 1)
<1>1. /\ \A i \in m..n : s[i] \in T
      /\ \A i \in m..n - 1 : s[i] \in T
      /\ m \in Int /\ n \in Int /\ n - 1 \in Int /\ s[n] \in T /\ m <= n
  OBVIOUS
<1>2. /\ whole \in Seq(T) /\ Len(whole) = n - m + 1
      /\ \A i \in 1..n - m + 1 : whole[i] = s[m + i - 1]
  BY <1>1, SubSeqProperties
<1>3. /\ start \in Seq(T) /\ Len(start) = n - m
      /\ \A i \in 1..n - m : start[i] = s[m + i - 1]
  BY <1>1, SubSeqProperties
<1> DEFINE longer == Append(start, s[n])
<1> HIDE DEF whole, start
<1>4. /\ longer \in Seq(T) /\ Len(longer) = n - m + 1
      /\ \A i \in 1..n - m + 1 : longer[i] = s[m + i - 1]
  BY <1>1, <1>3
<1> HIDE DEF longer
<1>5. whole = longer
  BY <1>2, <1>4, SeqEqual
<1> QED BY <1>5 DEF whole, longer, start

(* When it keeps nothing up to the k-th element and everything after, what *)
(* it keeps is a suffix.                                                   *)
LEMMA KeptSuffix ==
    ASSUME NEW T, NEW s \in Seq(T), NEW S, NEW k \in 0..Len(s),
           \A i \in 1..k : s[i] \notin S,
           \A i \in k + 1..Len(s) : s[i] \in S
    PROVE  Kept(s, S) = SubSeq(s, k + 1, Len(s))
<1>1. PICK f \in [0..Len(s) -> Seq(T)] : KeptAfter(s, S, f)
  BY KeptPasses
<1> USE DEF KeptAfter
<1> DEFINE Right == {i \in 0..Len(s) : f[i] = SubSeq(s, k + 1, i)}
<1>2. Len(s) \in Nat
  OBVIOUS
<1>3. 0 \in Right
  <2>1. SubSeq(s, k + 1, 0) = <<>>
    BY SubSeqEmpty
  <2> QED BY <1>1, <1>2, <2>1
<1>4. ASSUME NEW i \in 1..Len(s), i - 1 \in Right PROVE i \in Right
  <2>1. f[i - 1] = SubSeq(s, k + 1, i - 1)
    BY <1>4
  <2>2. CASE i <= k
    <3>1. s[i] \notin S
      BY <1>2, <2>2
    <3>2. f[i] = f[i - 1]
      BY <1>1, <3>1
    <3>3. SubSeq(s, k + 1, i - 1) = <<>> /\ SubSeq(s, k + 1, i) = <<>>
      BY <2>2, SubSeqEmpty
    <3>4. f[i] = SubSeq(s, k + 1, i) /\ i \in 0..Len(s)
      <4>1. i \in 0..Len(s)
        BY <1>2
      <4>2. f[i] = SubSeq(s, k + 1, i)
        BY <2>1, <3>2, <3>3, Zenon
      <4> QED BY <4>1, <4>2
    <3> QED BY <3>4
  <2>3. CASE i > k
    <3>1. s[i] \in S
      BY <1>2, <2>3
    <3>2. f[i] = Append(f[i - 1], s[i])
      BY <1>1, <3>1
    <3>3. SubSeq(s, k + 1, i) = Append(SubSeq(s, k + 1, i - 1), s[i])
      <4>1. k + 1 \in 1..Len(s) /\ i \in k + 1..Len(s)
        BY <1>2, <2>3
      <4> QED BY <4>1, SubSeqGrows
    <3>4. f[i] = SubSeq(s, k + 1, i) /\ i \in 0..Len(s)
      BY <1>2, <2>1, <3>2, <3>3
    <3> QED BY <3>4
  <2> QED BY <2>2, <2>3
<1> HIDE DEF Right
<1>5. \A i \in 0..Len(s) : i \in Right
  BY <1>2, <1>3, <1>4, UpTo
<1>6. Len(s) \in Right
  BY <1>2, <1>5
<1>7. f[Len(s)] = SubSeq(s, k + 1, Len(s))
  BY <1>6, Zenon DEF Right
<1> QED BY <1>1, <1>7

(* The end of the history of a device, from which DropOld takes off only   *)
(* old entries, is still the end of its readings.                          *)
LEMMA DropOldSuffix ==
    ASSUME NEW T, NEW r \in Seq(T), NEW e \in T, NEW start, NEW n \in 0..Len(r)
    PROVE  \E m \in n..Len(r) + 1 :
              /\ DropOld(Append(SubSeq(r, n + 1, Len(r)), e), start)
                   = SubSeq(Append(r, e), m + 1, Len(r) + 1)
              /\ \A i \in n + 1..m : ~(Append(r, e)[i].timestamp >= start)
              /\ m <= Len(r) => Append(r, e)[m + 1].timestamp >= start
<1> DEFINE longer == Append(r, e)
           size == Len(r) + 1
           end == Append(SubSeq(r, n + 1, Len(r)), e)
           recent == {i \in DOMAIN end : end[i].timestamp >= start}
<1>1. /\ longer \in Seq(T) /\ Len(longer) = size /\ size \in Nat
      /\ n \in 0..size - 1 /\ Len(r) = size - 1
  OBVIOUS
<1>2. /\ end \in Seq(T) /\ Len(end) = size - n
      /\ \A i \in 1..size - n : end[i] = longer[n + i]
  <2> DEFINE tail == SubSeq(r, n + 1, Len(r))
  <2>1. \A i \in n + 1..Len(r) : r[i] \in T
    OBVIOUS
  <2>2. n + 1 \in Int /\ Len(r) \in Int
    OBVIOUS
  <2>3. /\ tail \in Seq(T) /\ Len(tail) = Len(r) - n
        /\ \A i \in 1..Len(r) - n : tail[i] = r[n + i]
    <3>1. /\ tail \in Seq(T)
          /\ Len(tail) = IF n + 1 <= Len(r) THEN Len(r) - (n + 1) + 1 ELSE 0
          /\ \A i \in 1..Len(r) - (n + 1) + 1 : tail[i] = r[n + 1 + i - 1]
      BY <2>1, <2>2, SubSeqProperties
    <3> HIDE DEF tail
    <3> QED BY <3>1
  <2> HIDE DEF tail
  <2>4. end = Append(tail, e)
    BY DEF tail
  <2>5. /\ end \in Seq(T) /\ Len(end) = Len(r) - n + 1
        /\ \A i \in 1..Len(r) - n : end[i] = tail[i]
        /\ end[Len(r) - n + 1] = e
    BY <2>3, <2>4
  <2>6. Len(r) \in Nat /\ n \in Nat /\ size = Len(r) + 1 /\ n <= Len(r)
    OBVIOUS
  <2>7. longer[size] = e /\ \A i \in 1..Len(r) : longer[i] = r[i]
    OBVIOUS
  <2> HIDE DEF end, longer, size
  <2>8. ASSUME NEW i \in 1..size - n PROVE end[i] = longer[n + i]
    <3>1. CASE i = size - n
      BY <2>5, <2>6, <2>7, <3>1
    <3>2. CASE i # size - n
      <4>1. i \in 1..Len(r) - n /\ n + i \in 1..Len(r)
        BY <2>6, <3>2
      <4> QED BY <2>3, <2>5, <2>7, <4>1
    <3> QED BY <3>1, <3>2
  <2>9. Len(end) = size - n
    BY <2>5, <2>6
  <2> QED BY <2>5, <2>8, <2>9
<1>3. DropOld(end, start) = IF recent = {} THEN <<>> ELSE SubSeq(end, Min(recent), Len(end))
  BY DEF DropOld
<1>4. recent \subseteq 1..size - n /\ \A i \in 1..size - n : i \in recent <=> longer[n + i].timestamp >= start
  <2> HIDE DEF end, longer
  <2> QED BY <1>2
<1> SUFFICES \E m \in n..size :
              /\ DropOld(end, start) = SubSeq(longer, m + 1, size)
              /\ \A i \in n + 1..m : ~(longer[i].timestamp >= start)
              /\ m <= Len(r) => longer[m + 1].timestamp >= start
  BY Zenon
<1> HIDE DEF end, longer, size, recent
<1>5. CASE recent = {}
  <2>1. SubSeq(longer, size + 1, size) = <<>>
    BY <1>1, SubSeqEmpty
  <2>2. ASSUME NEW i \in n + 1..size PROVE ~(longer[i].timestamp >= start)
    <3>1. i - n \in 1..size - n /\ n + (i - n) = i
      BY <1>1
    <3> QED BY <1>4, <1>5, <3>1
  <2>3. size \in n..size
    BY <1>1
  <2>4. ~(size <= Len(r))
    BY <1>1
  <2>5. DropOld(end, start) = SubSeq(longer, size + 1, size)
    BY <1>3, <1>5, <2>1
  <2> QED BY <2>2, <2>3, <2>4, <2>5
<1>6. CASE recent # {}
  <2> DEFINE p == Min(recent)
             m == n + p - 1
  <2>1. p \in recent /\ \A i \in recent : p <= i
    <3>1. recent \subseteq Nat
      BY <1>1, <1>4
    <3> QED BY <1>6, <3>1, MinIsLeast
  <2> HIDE DEF p
  <2>2. p \in 1..size - n
    BY <1>4, <2>1
  <2>3. m \in n..size - 1 /\ m + 1 = n + p /\ m + 1 \in 1..size
    BY <1>1, <2>2
  <2>4. longer[m + 1].timestamp >= start
    BY <1>4, <2>1, <2>2, <2>3
  <2>5. ASSUME NEW i \in n + 1..m PROVE ~(longer[i].timestamp >= start)
    <3>1. i - n \in 1..size - n /\ n + (i - n) = i /\ ~(p <= i - n)
      BY <1>1, <2>2
    <3>2. i - n \notin recent
      BY <2>1, <3>1
    <3> QED BY <1>4, <3>1, <3>2
  <2>6. SubSeq(end, p, size - n) = SubSeq(longer, m + 1, size)
    <3> DEFINE a == SubSeq(end, p, size - n)
               b == SubSeq(longer, m + 1, size)
    <3>1. \A i \in p..size - n : end[i] \in T
      BY <1>1, <1>2, <2>2
    <3>2. \A i \in m + 1..size : longer[i] \in T
      BY <1>1, <2>3
    <3>3. p \in Int /\ size - n \in Int /\ m + 1 \in Int /\ size \in Int /\ p <= size - n /\ m + 1 <= size
      BY <1>1, <2>2, <2>3
    <3>4. /\ a \in Seq(T) /\ Len(a) = IF p <= size - n THEN size - n - p + 1 ELSE 0
          /\ \A i \in 1..size - n - p + 1 : a[i] = end[p + i - 1]
      BY <3>1, <3>3, SubSeqProperties
    <3>5. /\ b \in Seq(T) /\ Len(b) = IF m + 1 <= size THEN size - (m + 1) + 1 ELSE 0
          /\ \A i \in 1..size - (m + 1) + 1 : b[i] = longer[m + 1 + i - 1]
      <4> HIDE DEF m
      <4> QED BY <3>2, <3>3, SubSeqProperties
    <3> HIDE DEF a, b
    <3>6. size - (m + 1) + 1 = size - n - p + 1 /\ size - n - p + 1 \in Nat
      BY <1>1, <2>2
    <3>7. Len(a) = Len(b)
      BY <3>3, <3>4, <3>5, <3>6
    <3>8. ASSUME NEW i \in 1..Len(a) PROVE a[i] = b[i]
      <4>1. p + i - 1 \in 1..size - n /\ m + 1 + i - 1 = n + (p + i - 1) /\ i \in 1..size - n - p + 1
        BY <1>1, <2>2, <3>3, <3>4
      <4>2. a[i] = end[p + i - 1] /\ b[i] = longer[n + (p + i - 1)]
        BY <3>4, <3>5, <3>6, <4>1
      <4> QED BY <1>2, <4>1, <4>2
    <3>9. a = b
      BY <3>4, <3>5, <3>7, <3>8, SeqEqual
    <3> QED BY <3>9 DEF a, b
  <2>7. DropOld(end, start) = SubSeq(longer, m + 1, size)
    BY <1>2, <1>3, <1>6, <2>6 DEF p
  <2>8. m \in n..size
    BY <1>1, <2>3
  <2> QED BY <2>4, <2>5, <2>7, <2>8
<1> QED BY <1>5, <1>6

(* A history is the end of the readings. *)
EndOf(h, r) ==
    LET n == Len(r) - Len(h)
    IN  n >= 0 /\ h = SubSeq(r, n + 1, Len(r))

(* The readings come in order. *)
Ordered(r) ==
    /\ \A i \in DOMAIN r : r[i].timestamp >= Window
    /\ \A i, j \in DOMAIN r : i < j => r[i].timestamp <= r[j].timestamp

(* As long as they do, the history has those of the newest one's window    *)
(* and no others.                                                          *)
TrimmedTo(h, r) ==
    LET n == Len(r) - Len(h)
        newest == r[Len(r)].timestamp
    IN  Ordered(r) => /\ \A i \in 1..n : ~(r[i].timestamp + Window >= newest)
                      /\ \A i \in n + 1..Len(r) : r[i].timestamp + Window >= newest

(* Recording a reading keeps a history the end of the readings, and        *)
(* trimmed.                                                                *)
LEMMA RecordKeeps ==
    ASSUME NEW r \in Seq(Readings), NEW h \in Seq(Readings), NEW e \in Readings,
           EndOf(h, r), TrimmedTo(h, r)
    PROVE  LET h2 == DropOld(Append(h, e), WindowStart(e.timestamp))
           IN  EndOf(h2, Append(r, e)) /\ TrimmedTo(h2, Append(r, e))
<1> DEFINE start == WindowStart(e.timestamp)
           longer == Append(r, e)
           size == Len(r) + 1
           n == Len(r) - Len(h)
           h2 == DropOld(Append(h, e), start)
<1>1. /\ longer \in Seq(Readings) /\ Len(longer) = size /\ size \in Nat
      /\ DOMAIN longer = 1..size /\ DOMAIN r = 1..size - 1
      /\ \A i \in 1..size - 1 : longer[i] = r[i]
      /\ longer[size] = e /\ Len(r) = size - 1
  OBVIOUS
<1>2. n \in 0..Len(r) /\ h = SubSeq(r, n + 1, Len(r))
  <2>1. Len(h) \in Nat /\ Len(r) \in Nat
    OBVIOUS
  <2>2. n >= 0 /\ h = SubSeq(r, n + 1, Len(r))
    BY Zenon DEF EndOf
  <2> QED BY <2>1, <2>2
<1> HIDE DEF n, start
<1>3. PICK m \in n..Len(r) + 1 :
              /\ h2 = SubSeq(longer, m + 1, Len(r) + 1)
              /\ \A i \in n + 1..m : ~(longer[i].timestamp >= start)
              /\ m <= Len(r) => longer[m + 1].timestamp >= start
  <2>1. \E m \in n..Len(r) + 1 :
              /\ DropOld(Append(SubSeq(r, n + 1, Len(r)), e), start)
                   = SubSeq(Append(r, e), m + 1, Len(r) + 1)
              /\ \A i \in n + 1..m : ~(Append(r, e)[i].timestamp >= start)
              /\ m <= Len(r) => Append(r, e)[m + 1].timestamp >= start
    BY <1>2, DropOldSuffix
  <2>2. Append(h, e) = Append(SubSeq(r, n + 1, Len(r)), e)
    BY <1>2, Zenon
  <2> QED BY <2>1, <2>2
<1> HIDE DEF longer, h2, size
<1>4. m \in Nat /\ m <= size /\ n <= m /\ n \in Nat
  BY <1>1, <1>2, <1>3
<1>5. Len(h2) = size - m
  <2>1. \A i \in m + 1..size : longer[i] \in Readings
    BY <1>1, <1>4
  <2>2. m + 1 \in Int /\ size \in Int
    BY <1>1, <1>4
  <2>3. h2 = SubSeq(longer, m + 1, size)
    BY <1>3 DEF size
  <2>4. Len(SubSeq(longer, m + 1, size)) = IF m + 1 <= size THEN size - (m + 1) + 1 ELSE 0
    BY <2>1, <2>2, SubSeqProperties
  <2> QED BY <1>1, <1>4, <2>3, <2>4
<1>6. Len(longer) - Len(h2) = m
  BY <1>1, <1>4, <1>5
<1>7. EndOf(h2, longer)
  <2>1. h2 = SubSeq(longer, m + 1, Len(longer))
    BY <1>1, <1>3 DEF size
  <2>2. m >= 0
    BY <1>4
  <2> QED BY <1>6, <2>1, <2>2 DEF EndOf
<1>8. TrimmedTo(h2, longer)
  <2> DEFINE stamp(i) == longer[i].timestamp
             newest == e.timestamp
  <2>1. SUFFICES ASSUME Ordered(longer)
                 PROVE  /\ \A i \in 1..m : ~(stamp(i) + Window >= newest)
                        /\ \A i \in m + 1..size : stamp(i) + Window >= newest
    BY <1>1, <1>6 DEF TrimmedTo
  <2>2. /\ \A i \in 1..size : stamp(i) >= Window
        /\ \A i, j \in 1..size : i < j => stamp(i) <= stamp(j)
    BY <1>1, <2>1, Zenon DEF Ordered
  <2>3. \A i \in 1..size : longer[i] \in Readings
    BY <1>1
  <2>4. \A i \in 1..size : stamp(i) \in Timestamps
    BY <2>3 DEF Readings
  <2>5. newest \in Timestamps /\ size \in 1..size /\ stamp(size) = newest
    BY <1>1 DEF Readings, size
  <2>6. start = newest - Window /\ Window \in Nat /\ newest \in Nat
    <3>1. newest >= Window
      BY <2>2, <2>5
    <3>2. \A a, b, c \in Nat : b <= a /\ a < c /\ b < c /\ 0 < b => (a + c - b) % c = a - b
      OBVIOUS
    <3>3. newest \in Nat /\ newest < TimeModulus /\ TimeModulus \in Nat /\ Window \in Nat
          /\ 0 < Window /\ Window < TimeModulus
      BY <2>5, WindowAssumption DEF Timestamps
    <3>4. (newest + TimeModulus - Window) % TimeModulus = newest - Window
      BY <3>1, <3>2, <3>3
    <3> QED BY <3>3, <3>4 DEF start, WindowStart
  <2>7. \A i \in 1..size : stamp(i) \in Nat
    BY <2>4, WindowAssumption DEF Timestamps
  <2>8. \A i \in 1..n : ~(stamp(i) + Window >= newest)
    <3>1. Ordered(r)
      <4>1. \A i \in 1..size - 1 : i \in 1..size /\ r[i].timestamp = stamp(i)
        BY <1>1
      <4> HIDE DEF stamp
      <4> QED BY <1>1, <2>2, <4>1, Zenon DEF Ordered
    <3>2. \A i \in 1..n : ~(r[i].timestamp + Window >= r[Len(r)].timestamp)
      BY <3>1 DEF TrimmedTo, n
    <3> TAKE i \in 1..n
    <3>3. i \in 1..size - 1 /\ Len(r) \in 1..size - 1 /\ i \in 1..size /\ Len(r) \in 1..size
          /\ Len(r) < size
      BY <1>1, <1>2
    <3>4. ~(stamp(i) + Window >= stamp(Len(r)))
      BY <1>1, <3>2, <3>3
    <3>5. stamp(Len(r)) <= newest
      BY <2>2, <2>5, <3>3
    <3>6. stamp(i) \in Nat /\ stamp(Len(r)) \in Nat
      BY <2>7, <3>3
    <3> HIDE DEF stamp
    <3> QED BY <2>6, <3>4, <3>5, <3>6
  <2>9. \A i \in n + 1..m : ~(stamp(i) + Window >= newest)
    <3> TAKE i \in n + 1..m
    <3>1. i \in 1..size
      BY <1>1, <1>4
    <3>2. ~(stamp(i) >= newest - Window)
      BY <1>3, <2>6
    <3>3. stamp(i) \in Nat
      BY <2>7, <3>1
    <3> HIDE DEF stamp
    <3> QED BY <2>6, <3>2, <3>3
  <2>10. \A i \in m + 1..size : stamp(i) + Window >= newest
    <3> TAKE i \in m + 1..size
    <3>1. i \in 1..size /\ m + 1 \in 1..size /\ m <= size - 1
      BY <1>1, <1>4
    <3>2. stamp(m + 1) >= newest - Window
      BY <1>1, <1>3, <2>6, <3>1
    <3>3. stamp(m + 1) \in Nat /\ stamp(i) \in Nat
      BY <2>7, <3>1
    <3>4. stamp(m + 1) <= stamp(i)
      <4>1. CASE i = m + 1
        BY <3>3, <4>1
      <4>2. CASE i # m + 1
        <5>1. m + 1 < i
          BY <1>4, <4>2
        <5> QED BY <2>2, <3>1, <5>1
      <4> QED BY <4>1, <4>2
    <3> HIDE DEF stamp
    <3> QED BY <2>6, <3>2, <3>3, <3>4
  <2>11. ASSUME NEW i \in 1..m PROVE ~(stamp(i) + Window >= newest)
    <3>1. i \in 1..n \/ i \in n + 1..m
      BY <1>4
    <3> QED BY <2>8, <2>9, <3>1
  <2> QED BY <2>10, <2>11
<1> QED BY <1>7, <1>8 DEF h2, longer, start

-----------------------------------------------------------------------------
(* The inductive invariant *)

(* A history has no more entries than readings were handled, and those are *)
(* bounded: so a score's counts are.                                       *)
Short ==
    /\ Len(log) <= MaxReadings
    /\ \A d \in Devices : Len(history[d]) <= Len(log)

(* Each history is trimmed to the window of its device's newest reading.   *)
Trimmed == \A d \in Devices : TrimmedTo(history[d], ReadingsOf(d))

IInv ==
    TypeOK /\ Short /\ HistoryIsSuffix /\ Trimmed /\ AlertsAccounted /\ FalseTriggerIsOffCourse

(* The property, with the relation of one history to one list of readings. *)
LEMMA HistoriesAreEnds == HistoryIsSuffix <=> \A d \in Devices : EndOf(history[d], ReadingsOf(d))
BY DEF HistoryIsSuffix, EndOf

(* It holds before the first turn. *)
LEMMA InitIInv == Init => IInv
<1> SUFFICES ASSUME Init PROVE IInv
  OBVIOUS
<1> USE DEF Init
<1>1. <<1, 1>> \in Counts /\ <<0, 1>> \in Counts
  BY BoundsAssumption DEF Counts
<1>2. TypeOK
  <2>1. history \in [Devices -> Seq(Readings)] /\ log \in Seq(Readings)
    OBVIOUS
  <2>2. stats \in [total_alerts : Nat, false_trigger_alerts : Nat, sensitivity_alerts : Nat,
                   mqtt_messages_sent : Nat, score : Counts, rate : Counts]
    BY <1>1
  <2>3. judged \in [triggered : BOOLEAN, strong : BOOLEAN, heading : Headings \cup {<<-1, 0>>},
                    simTriggered : BOOLEAN, falseTrigger : BOOLEAN]
    BY DEF Nothing
  <2>4. published \in Nat /\ results \in 0..MaxResults
    BY BoundsAssumption
  <2> QED BY <2>1, <2>2, <2>3, <2>4 DEF TypeOK
<1>3. Short
  BY BoundsAssumption DEF Short
<1>4. AlertsAccounted
  BY DEF AlertsAccounted
<1>5. FalseTriggerIsOffCourse
  BY DEF FalseTriggerIsOffCourse, Nothing
<1>6. HistoryIsSuffix /\ Trimmed
  <2>1. ASSUME NEW d \in Devices PROVE EndOf(history[d], ReadingsOf(d)) /\ TrimmedTo(history[d], ReadingsOf(d))
    <3>1. ReadingsOf(d) = <<>>
      <4>1. log \in Seq(Readings) /\ log = <<>>
        OBVIOUS
      <4> QED BY <4>1, KeptType, Zenon DEF ReadingsOf
    <3>2. history[d] = <<>>
      OBVIOUS
    <3>3. EndOf(<<>>, <<>>)
      <4>1. SubSeq(<<>>, 1, 0) = <<>>
        BY SubSeqEmpty
      <4> QED BY <4>1 DEF EndOf
    <3>4. TrimmedTo(<<>>, <<>>)
      BY DEF TrimmedTo
    <3> QED BY <3>1, <3>2, <3>3, <3>4, Zenon
  <2> QED BY <2>1, HistoriesAreEnds, Zenon DEF Trimmed
<1> QED BY <1>2, <1>3, <1>4, <1>5, <1>6 DEF IInv

(* Recording a reading keeps every history the end of its device's         *)
(* readings, and trimmed.                                                  *)
LEMMA WindowStep ==
    ASSUME TypeOK, HistoryIsSuffix, Trimmed, NEW entry \in Readings,
           log' = Append(log, entry),
           history' = [history EXCEPT ![entry.device] = Recorded(entry)]
    PROVE  HistoryIsSuffix' /\ Trimmed'
<1>1. /\ log \in Seq(Readings) /\ history \in [Devices -> Seq(Readings)]
      /\ entry.device \in Devices
  BY DEF TypeOK, Readings
<1> DEFINE Its(d) == {other \in Readings : other.device = d}
<1>2. ASSUME NEW d \in Devices
      PROVE  EndOf(history'[d], ReadingsOf(d)') /\ TrimmedTo(history'[d], ReadingsOf(d)')
  <2> DEFINE r == ReadingsOf(d)
             h == history[d]
  <2>1. EndOf(h, r) /\ TrimmedTo(h, r)
    BY HistoriesAreEnds, Zenon DEF Trimmed
  <2>2. r = Kept(log, Its(d)) /\ ReadingsOf(d)' = Kept(log', Its(d))
    BY DEF ReadingsOf
  <2> HIDE DEF Its
  <2>3. /\ r \in Seq(Readings)
        /\ ReadingsOf(d)' = IF entry \in Its(d) THEN Append(r, entry) ELSE r
    <3>1. r \in Seq(Readings)
      BY <1>1, <2>2, KeptType, Zenon
    <3>2. Kept(Append(log, entry), Its(d)) =
             IF entry \in Its(d) THEN Append(Kept(log, Its(d)), entry) ELSE Kept(log, Its(d))
      BY <1>1, KeptAppend, Zenon
    <3> HIDE DEF r
    <3>3. ReadingsOf(d)' = IF entry \in Its(d) THEN Append(r, entry) ELSE r
      BY <2>2, <3>2, Zenon
    <3> QED BY <3>1, <3>3
  <2>4. CASE d = entry.device
    <3>1. entry \in Its(d)
      BY <2>4 DEF Its
    <3>2. ReadingsOf(d)' = Append(r, entry)
      BY <2>3, <3>1, Zenon
    <3>3. history'[d] = DropOld(Append(h, entry), WindowStart(entry.timestamp))
      BY <1>1, <2>4 DEF Recorded
    <3>4. h \in Seq(Readings)
      BY <1>1
    <3> HIDE DEF r, h
    <3>5. /\ EndOf(DropOld(Append(h, entry), WindowStart(entry.timestamp)), Append(r, entry))
          /\ TrimmedTo(DropOld(Append(h, entry), WindowStart(entry.timestamp)), Append(r, entry))
      BY <2>1, <2>3, <3>4, RecordKeeps
    <3> QED BY <3>2, <3>3, <3>5, Zenon
  <2>5. CASE d # entry.device
    <3>1. entry \notin Its(d)
      BY <2>5 DEF Its
    <3>2. ReadingsOf(d)' = r
      BY <2>3, <3>1, Zenon
    <3>3. history'[d] = h
      BY <1>1, <2>5
    <3> QED BY <2>1, <3>2, <3>3, Zenon
  <2> QED BY <2>4, <2>5
<1>3. HistoryIsSuffix' <=> \A d \in Devices : EndOf(history'[d], ReadingsOf(d)')
  BY DEF HistoryIsSuffix, EndOf
<1>4. Trimmed' <=> \A d \in Devices : TrimmedTo(history'[d], ReadingsOf(d)')
  BY DEF Trimmed
<1> QED BY <1>2, <1>3, <1>4, Zenon

(* What a turn with n alerts, f of them false triggers, does to the        *)
(* counters keeps them in agreement.                                       *)
LEMMA AlertsStep ==
    ASSUME TypeOK, AlertsAccounted,
           NEW f \in Nat, NEW s \in Nat, NEW sent \in Sent(f + s),
           connected' = sent[2],
           published' = published + sent[1],
           stats'.total_alerts = stats.total_alerts + f + s,
           stats'.false_trigger_alerts = stats.false_trigger_alerts + f,
           stats'.sensitivity_alerts = stats.sensitivity_alerts + s,
           stats'.mqtt_messages_sent = stats.mqtt_messages_sent + sent[1]
    PROVE  AlertsAccounted'
<1>1. /\ published \in Nat /\ connected \in BOOLEAN
      /\ stats.total_alerts \in Nat /\ stats.false_trigger_alerts \in Nat
      /\ stats.sensitivity_alerts \in Nat /\ stats.mqtt_messages_sent \in Nat
  BY DEF TypeOK
<1>2. f + s \in Nat
  OBVIOUS
<1>3. sent[1] \in Nat /\ sent[1] <= f + s /\ (sent[2] => connected /\ sent[1] = f + s)
  BY <1>1, <1>2, SentType, Zenon
<1>4. (stats.total_alerts = stats.false_trigger_alerts + stats.sensitivity_alerts)'
  BY <1>1 DEF AlertsAccounted
<1>5. (stats.mqtt_messages_sent = published)'
  BY <1>1 DEF AlertsAccounted
<1>6. (published <= stats.total_alerts)'
  BY <1>1, <1>3 DEF AlertsAccounted
<1>7. (connected => published = stats.total_alerts)'
  <2> SUFFICES ASSUME connected' PROVE published' = stats'.total_alerts
    OBVIOUS
  <2>1. sent[2]
    BY Zenon
  <2>2. connected /\ sent[1] = f + s
    BY <2>1, <1>3, Zenon
  <2>3. published = stats.total_alerts
    BY <2>2, Zenon DEF AlertsAccounted
  <2> QED BY <1>1, <2>2, <2>3
<1> QED BY <1>4, <1>5, <1>6, <1>7 DEF AlertsAccounted

(* A turn with a reading keeps it.                                         *)
LEMMA ReadingKeeps ==
    ASSUME IInv, NEW entry \in Readings, NEW heading \in Headings, NEW simTriggered \in BOOLEAN,
           HandleReading(entry, heading, simTriggered)
    PROVE  IInv'
<1> DEFINE entries == Recorded(entry)
           score == calculate_sensitivity_score(entries)
           rate == calculate_false_trigger_rate(entries)
           judgedFalse == check_false_trigger(entry.triggered, entry.strong, heading, simTriggered)
           falses == One(judgedFalse)
           decreases == One(Decreased(score))
<1>1. /\ Len(log) < MaxReadings
      /\ log' = Append(log, entry)
      /\ history' = [history EXCEPT ![entry.device] = entries]
      /\ judged' = IF ~entry.triggered THEN [Nothing EXCEPT !.falseTrigger = falses = 1] ELSE
                   [triggered |-> TRUE, strong |-> entry.strong, heading |-> heading,
                    simTriggered |-> simTriggered, falseTrigger |-> falses = 1]
      /\ results' = results
  BY Zenon DEF HandleReading
<1>2. PICK sent \in Sent(falses + decreases) :
              /\ connected' = sent[2]
              /\ published' = published + sent[1]
              /\ stats' = [total_alerts         |-> stats.total_alerts + falses + decreases,
                           false_trigger_alerts |-> stats.false_trigger_alerts + falses,
                           sensitivity_alerts   |-> stats.sensitivity_alerts + decreases,
                           mqtt_messages_sent   |-> stats.mqtt_messages_sent + sent[1],
                           score                |-> score,
                           rate                 |-> rate]
  BY Zenon DEF HandleReading
<1>3. entry.device \in Devices /\ entry.triggered \in BOOLEAN /\ entry.strong \in BOOLEAN
  BY DEF Readings
<1>4. entries \in Seq(Readings) /\ Len(entries) <= Len(log) + 1 /\ Len(entries) \in Nat
  <2> DEFINE longer == Append(history[entry.device], entry)
  <2>1. longer \in Seq(Readings) /\ Len(longer) <= Len(log) + 1
    BY <1>3 DEF IInv, TypeOK, Short
  <2> HIDE DEF longer
  <2>2. entries \in Seq(Readings) /\ Len(entries) <= Len(longer)
    BY <2>1, DropOldType DEF Recorded, longer
  <2> QED BY <2>1, <2>2 DEF IInv, TypeOK
<1>5. falses \in Nat /\ decreases \in Nat /\ (falses = 1 <=> judgedFalse)
  BY DEF One
<1>6. score \in Counts /\ rate \in Counts
  BY <1>1, <1>4, BoundsAssumption, FiguresType DEF IInv, TypeOK
<1> HIDE DEF entries, score, rate, falses, decreases
<1>7. sent[1] \in Nat /\ sent[2] \in BOOLEAN
  BY <1>2, <1>5, SentType DEF IInv, TypeOK
<1>8. TypeOK'
  <2>1. history' \in [Devices -> Seq(Readings)] /\ log' \in Seq(Readings)
    BY <1>1, <1>3, <1>4 DEF IInv, TypeOK
  <2>2. stats' \in [total_alerts : Nat, false_trigger_alerts : Nat, sensitivity_alerts : Nat,
                    mqtt_messages_sent : Nat, score : Counts, rate : Counts]
    <3> DEFINE total == stats.total_alerts + falses + decreases
               falseTotal == stats.false_trigger_alerts + falses
               decreaseTotal == stats.sensitivity_alerts + decreases
               sentTotal == stats.mqtt_messages_sent + sent[1]
    <3>1. total \in Nat /\ falseTotal \in Nat /\ decreaseTotal \in Nat /\ sentTotal \in Nat
      BY <1>5, <1>7, SMTT(30) DEF IInv, TypeOK
    <3>2. stats' = [total_alerts         |-> total,
                    false_trigger_alerts |-> falseTotal,
                    sensitivity_alerts   |-> decreaseTotal,
                    mqtt_messages_sent   |-> sentTotal,
                    score                |-> score,
                    rate                 |-> rate]
      BY <1>2, Zenon
    <3> HIDE DEF total, falseTotal, decreaseTotal, sentTotal
    <3> QED BY <1>6, <3>1, <3>2, Zenon
  <2>3. judged' \in [triggered : BOOLEAN, strong : BOOLEAN, heading : Headings \cup {<<-1, 0>>},
                     simTriggered : BOOLEAN, falseTrigger : BOOLEAN]
    <3>1. CASE entry.triggered
      BY <1>1, <1>3, <3>1, Zenon
    <3>2. CASE ~entry.triggered
      BY <1>1, <3>2 DEF Nothing
    <3> QED BY <3>1, <3>2
  <2>4. connected' \in BOOLEAN
    BY <1>2, <1>7, Zenon
  <2>5. published' \in Nat /\ results' \in 0..MaxResults
    BY <1>1, <1>2, <1>7 DEF IInv, TypeOK
  <2> QED BY <2>1, <2>2, <2>3, <2>4, <2>5 DEF TypeOK
<1>9. Short'
  BY <1>1, <1>3, <1>4, BoundsAssumption DEF IInv, TypeOK, Short
<1>10. AlertsAccounted'
  <2>1. /\ stats'.total_alerts = stats.total_alerts + falses + decreases
        /\ stats'.false_trigger_alerts = stats.false_trigger_alerts + falses
        /\ stats'.sensitivity_alerts = stats.sensitivity_alerts + decreases
        /\ stats'.mqtt_messages_sent = stats.mqtt_messages_sent + sent[1]
    BY <1>2
  <2> QED BY <1>2, <1>5, <2>1, AlertsStep, Zenon DEF IInv
<1>11. FalseTriggerIsOffCourse'
  <2>1. heading[1] \in -1..7 /\ heading[2] \in 0..7
    BY HeadingsAssumption
  <2>2. OffCourse(heading[1], heading[2]) <=> ~Near(heading[1] % 8, heading[2])
    BY <2>1, OffCourseIsNotNear
  <2>3. CASE entry.triggered
    <3>1. /\ judged'.triggered = TRUE /\ judged'.strong = entry.strong /\ judged'.heading = heading
          /\ judged'.simTriggered = simTriggered /\ judged'.falseTrigger = (falses = 1)
      BY <1>1, <2>3
    <3>2. judgedFalse <=> ~entry.strong \/ (simTriggered /\ ~Near(heading[1] % 8, heading[2]))
      BY <2>2, <2>3 DEF check_false_trigger
    <3> QED BY <1>5, <3>1, <3>2, Zenon DEF FalseTriggerIsOffCourse
  <2>4. CASE ~entry.triggered
    <3>1. judged'.triggered = FALSE /\ judged'.falseTrigger = (falses = 1)
      BY <1>1, <2>4 DEF Nothing
    <3>2. ~judgedFalse
      BY <2>4 DEF check_false_trigger
    <3> QED BY <1>5, <3>1, <3>2, Zenon DEF FalseTriggerIsOffCourse
  <2> QED BY <2>3, <2>4
<1>12. HistoryIsSuffix' /\ Trimmed'
  BY <1>1, WindowStep, Zenon DEF IInv, entries
<1> QED BY <1>8, <1>9, <1>10, <1>11, <1>12 DEF IInv

(* So does a turn with a sensitivity result. *)
LEMMA ResultKeeps ==
    ASSUME IInv, NEW low \in BOOLEAN, HandleResult(low)
    PROVE  IInv'
<1> DEFINE lows == One(low)
<1>1. /\ results < MaxResults /\ results' = results + 1
      /\ history' = history /\ log' = log /\ judged' = judged
  BY Zenon DEF HandleResult
<1>2. PICK sent \in Sent(lows) :
          /\ connected' = sent[2]
          /\ published' = published + sent[1]
          /\ stats' = [stats EXCEPT !.total_alerts = @ + lows,
                                    !.sensitivity_alerts = @ + lows,
                                    !.mqtt_messages_sent = @ + sent[1]]
  BY Zenon DEF HandleResult
<1>3. lows \in Nat
  BY DEF One
<1> HIDE DEF lows
<1>4. sent[1] \in Nat /\ sent[2] \in BOOLEAN
  BY <1>2, <1>3, SentType DEF IInv, TypeOK
<1>5. TypeOK'
  <2>1. connected' \in BOOLEAN
    BY <1>2, <1>4, Zenon
  <2>2. published' \in Nat /\ results' \in 0..MaxResults
    BY <1>1, <1>2, <1>4, BoundsAssumption DEF IInv, TypeOK
  <2>3. stats' \in [total_alerts : Nat, false_trigger_alerts : Nat, sensitivity_alerts : Nat,
                    mqtt_messages_sent : Nat, score : Counts, rate : Counts]
    <3> DEFINE total == stats.total_alerts + lows
               decreaseTotal == stats.sensitivity_alerts + lows
               sentTotal == stats.mqtt_messages_sent + sent[1]
    <3>1. total \in Nat /\ decreaseTotal \in Nat /\ sentTotal \in Nat
      BY <1>3, <1>4 DEF IInv, TypeOK
    <3>2. stats' = [stats EXCEPT !.total_alerts = total,
                                 !.sensitivity_alerts = decreaseTotal,
                                 !.mqtt_messages_sent = sentTotal]
      BY <1>2, Zenon
    <3> HIDE DEF total, decreaseTotal, sentTotal
    <3> QED BY <3>1, <3>2 DEF IInv, TypeOK
  <2>4. history' \in [Devices -> Seq(Readings)] /\ log' \in Seq(Readings)
    BY <1>1 DEF IInv, TypeOK
  <2>5. judged' \in [triggered : BOOLEAN, strong : BOOLEAN, heading : Headings \cup {<<-1, 0>>},
                     simTriggered : BOOLEAN, falseTrigger : BOOLEAN]
    BY <1>1, Zenon DEF IInv, TypeOK
  <2> QED BY <2>1, <2>2, <2>3, <2>4, <2>5 DEF TypeOK
<1>6. Short'
  BY <1>1 DEF IInv, Short
<1>7. AlertsAccounted'
  <2>1. /\ stats'.total_alerts = stats.total_alerts + 0 + lows
        /\ stats'.false_trigger_alerts = stats.false_trigger_alerts + 0
        /\ stats'.sensitivity_alerts = stats.sensitivity_alerts + lows
        /\ stats'.mqtt_messages_sent = stats.mqtt_messages_sent + sent[1]
    BY <1>2, <1>3 DEF IInv, TypeOK
  <2>2. 0 \in Nat /\ 0 + lows = lows
    BY <1>3
  <2>3. sent \in Sent(0 + lows)
    BY <1>2, <2>2, Zenon
  <2> QED BY <1>2, <1>3, <2>1, <2>2, <2>3, AlertsStep, Zenon DEF IInv
<1>8. FalseTriggerIsOffCourse'
  BY <1>1, Zenon DEF IInv, FalseTriggerIsOffCourse
<1>9. HistoryIsSuffix' /\ Trimmed'
  BY <1>1, Zenon DEF IInv, HistoryIsSuffix, Trimmed, ReadingsOf
<1> QED BY <1>5, <1>6, <1>7, <1>8, <1>9 DEF IInv

(* Every turn of the worker keeps it, and so does a step of anything else. *)
LEMMA NextKeeps == IInv /\ [Next]_vars => IInv'
<1> SUFFICES ASSUME IInv, [Next]_vars PROVE IInv'
  OBVIOUS
<1>1. ASSUME NEW entry \in Readings, NEW heading \in Headings, NEW simTriggered \in BOOLEAN,
             HandleReading(entry, heading, simTriggered)
      PROVE  IInv'
  BY <1>1, ReadingKeeps
<1>2. ASSUME NEW low \in BOOLEAN, HandleResult(low) PROVE IInv'
  BY <1>2, ResultKeeps
<1>3. CASE UNCHANGED vars
  BY <1>3, Zenon DEF IInv, TypeOK, Short, HistoryIsSuffix, Trimmed, ReadingsOf, AlertsAccounted,
                     FalseTriggerIsOffCourse, vars
<1> QED BY <1>1, <1>2, <1>3 DEF Next

(* The inductive invariant is one. *)
LEMMA Inductive == Spec => []IInv
BY InitIInv, NextKeeps, PTL DEF Spec

-----------------------------------------------------------------------------
(* The theorems *)

(* worker_loop keeps histories and figures of their types: no score or     *)
(* false trigger rate is ever a division by zero or more than one.         *)
THEOREM TypeCorrect == Spec => []TypeOK
<1>1. IInv => TypeOK
  BY DEF IInv
<1> QED BY <1>1, Inductive, PTL

(* AlarmMQTT's counters and the MQTT client's agree: each alert is of one  *)
(* kind, each one published is counted sent, and while the connection made *)
(* at the start lives none is missing.                                     *)
THEOREM AlertsAgree == Spec => []AlertsAccounted
<1>1. IInv => AlertsAccounted
  BY DEF IInv
<1> QED BY <1>1, Inductive, PTL

(* check_false_trigger finds the directions more than a quarter turn apart *)
(* around the circle, for every pair of octants a reading can have.        *)
THEOREM FalseTriggersAreOffCourse == Spec => []FalseTriggerIsOffCourse
<1>1. IInv => FalseTriggerIsOffCourse
  BY DEF IInv
<1> QED BY <1>1, Inductive, PTL

(* Trimming loses no reading from the middle: whatever the timestamps, a   *)
(* history is the end of its device's readings.                            *)
THEOREM HistoriesAreSuffixes == Spec => []HistoryIsSuffix
<1>1. IInv => HistoryIsSuffix
  BY DEF IInv
<1> QED BY <1>1, Inductive, PTL

(* Trimming reading by reading gives the window taken from the whole log,  *)
(* as long as a device's readings come in order and after the first window.*)
THEOREM HistoriesAreWindows == Spec => []WindowMatchesLog
<1>1. IInv => WindowMatchesLog
  <2> SUFFICES ASSUME IInv, NEW d \in Devices, ReadingsOf(d) # <<>>, InOrder(d)
               PROVE  history[d] = InWindow(d)
    BY DEF WindowMatchesLog
  <2> DEFINE r == ReadingsOf(d)
             h == history[d]
             n == Len(r) - Len(h)
             newest == r[Len(r)].timestamp
             S == {entry \in Readings : entry.timestamp + Window >= newest}
  <2>1. r \in Seq(Readings) /\ h \in Seq(Readings)
    <3>1. log \in Seq(Readings) /\ history \in [Devices -> Seq(Readings)]
      BY DEF IInv, TypeOK
    <3>2. r \in Seq(Readings)
      BY <3>1, KeptType, Zenon DEF ReadingsOf
    <3> QED BY <3>1, <3>2
  <2>2. EndOf(h, r) /\ TrimmedTo(h, r)
    BY HistoriesAreEnds, Zenon DEF IInv, Trimmed
  <2>3. Ordered(r)
    BY Zenon DEF InOrder, Ordered
  <2>4. InWindow(d) = Kept(r, S)
    BY DEF InWindow
  <2> HIDE DEF r, h
  <2>5. n \in 0..Len(r) /\ h = SubSeq(r, n + 1, Len(r))
    <3>1. Len(h) \in Nat /\ Len(r) \in Nat
      BY <2>1
    <3>2. n >= 0 /\ h = SubSeq(r, n + 1, Len(r))
      BY <2>2, Zenon DEF EndOf
    <3> QED BY <3>1, <3>2
  <2>6. /\ \A i \in 1..n : ~(r[i].timestamp + Window >= newest)
        /\ \A i \in n + 1..Len(r) : r[i].timestamp + Window >= newest
    BY <2>2, <2>3, Zenon DEF TrimmedTo
  <2> HIDE DEF n, newest
  <2>7. \A i \in 1..n : r[i] \notin S
    BY <2>6
  <2>8. \A i \in n + 1..Len(r) : r[i] \in S
    BY <2>1, <2>5, <2>6
  <2> HIDE DEF S
  <2>9. Kept(r, S) = SubSeq(r, n + 1, Len(r))
    BY <2>1, <2>5, <2>7, <2>8, KeptSuffix
  <2> QED BY <2>4, <2>5, <2>9 DEF r, h
<1> QED BY <1>1, Inductive, PTL

=============================================================================
