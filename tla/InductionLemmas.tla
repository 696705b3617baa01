--------------------------- MODULE InductionLemmas ---------------------------
(***************************************************************************)
(* Induction over the natural numbers in a form without an operator to     *)
(* instantiate: a set of numbers takes the place of the predicate.  What   *)
(* the recursive functions of the modules compute is proved from these.    *)
(***************************************************************************)
EXTENDS Integers, WellFoundedInduction, TLAPS

(* A nonempty set of naturals has a least element. *)
LEMMA LeastExists ==
    ASSUME NEW S, S \subseteq Nat, S # {}
    PROVE  \E least \in S : \A n \in S : least <= n
<1>1. PICK least \in S : \A n \in S : <<n, least>> \notin OpToRel(<, Nat)
  BY NatLessThanWellFounded, WFMin
<1>2. \A n \in S : ~(n < least)
  BY <1>1, Zenon DEF OpToRel
<1>3. \A n \in S : least <= n
  BY <1>2
<1> QED BY <1>3

(* A set with 0 and, with a number below m, its successor, has all numbers *)
(* up to m.                                                                *)
LEMMA UpTo ==
    ASSUME NEW m \in Nat, NEW S, 0 \in S, \A i \in 1..m : i - 1 \in S => i \in S
    PROVE  \A i \in 0..m : i \in S
<1> DEFINE Missing == {i \in 0..m : i \notin S}
<1>1. SUFFICES ASSUME Missing # {} PROVE FALSE
  OBVIOUS
<1>2. Missing \subseteq Nat
  OBVIOUS
<1> HIDE DEF Missing
<1>3. PICK least \in Missing : \A i \in Missing : least <= i
  BY <1>1, <1>2, LeastExists
<1>4. least \in 0..m /\ least \notin S
  BY <1>3 DEF Missing
<1>5. least \in 1..m /\ least - 1 \in 0..m /\ ~(least <= least - 1)
  BY <1>4
<1>6. least - 1 \in S
  BY <1>3, <1>5 DEF Missing
<1> QED BY <1>4, <1>5, <1>6

(* A function can be built step by step along 0..m. *)
LEMMA Recursion ==
    ASSUME NEW X, NEW x0 \in X, NEW m \in Nat, NEW step \in [1..m -> [X -> X]]
    PROVE  \E g \in [0..m -> X] : g[0] = x0 /\ \A i \in 1..m : g[i] = step[i][g[i - 1]]
<1> DEFINE Built(k) ==
      \E g \in [0..k -> X] : g[0] = x0 /\ \A i \in 1..k : g[i] = step[i][g[i - 1]]
<1> DEFINE Reached == {k \in 0..m : Built(k)}
<1>1. 0 \in Reached
  <2> DEFINE g == [i \in 0..0 |-> x0]
  <2>1. g \in [0..0 -> X] /\ g[0] = x0 /\ 1..0 = {}
    OBVIOUS
  <2> HIDE DEF g
  <2>2. Built(0)
    BY <2>1
  <2> QED BY <2>2
<1>2. ASSUME NEW k \in 1..m, k - 1 \in Reached PROVE k \in Reached
  <2>1. PICK g \in [0..k - 1 -> X] : g[0] = x0 /\ \A i \in 1..k - 1 : g[i] = step[i][g[i - 1]]
    BY <1>2
  <2> DEFINE h == [i \in 0..k |-> IF i = k THEN step[k][g[k - 1]] ELSE g[i]]
  <2>2. k - 1 \in 0..k - 1 /\ 0 \in 0..k - 1 /\ 0 # k
    OBVIOUS
  <2>3. step[k][g[k - 1]] \in X
    BY <2>1, <2>2
  <2>4. h \in [0..k -> X]
    BY <2>1, <2>3
  <2>5. h[0] = x0
    BY <2>1, <2>2
  <2>6. ASSUME NEW i \in 1..k PROVE h[i] = step[i][h[i - 1]]
    <3>1. i - 1 \in 0..k - 1 /\ i - 1 # k /\ i \in 0..k
      OBVIOUS
    <3>2. h[i - 1] = g[i - 1]
      BY <3>1
    <3>3. CASE i = k
      <4>1. h[i] = step[k][g[k - 1]]
        BY <3>1, <3>3
      <4> QED BY <3>2, <3>3, <4>1
    <3>4. CASE i # k
      <4>1. h[i] = g[i] /\ i \in 1..k - 1
        BY <3>1, <3>4
      <4> QED BY <2>1, <3>2, <4>1
    <3> QED BY <3>3, <3>4
  <2> HIDE DEF h
  <2> QED BY <2>4, <2>5, <2>6
<1> HIDE DEF Reached
<1>3. \A k \in 0..m : k \in Reached
  BY <1>1, <1>2, UpTo
<1>4. m \in Reached
  BY <1>3
<1> QED BY <1>4 DEF Reached

=============================================================================
