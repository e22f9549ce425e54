----------------------------- MODULE Recursion -----------------------------
(***************************************************************************)
(* Induction and recursion over the natural numbers, with sets in place of *)
(* predicates and functions in place of operators, so that the provers can *)
(* apply them: the proofs about recursive functions of the models rest on  *)
(* them.  They model no code.                                              *)
(***************************************************************************)
EXTENDS Integers, WellFoundedInduction, TLAPS

\* A set of natural numbers has a least one.
LEMMA LeastNat ==
  ASSUME NEW S \in SUBSET Nat, S # {}
  PROVE  \E x \in S : \A y \in S : x <= y
<1> DEFINE R == OpToRel(<, Nat)
<1>1. \E x \in S : \A y \in S : <<y, x>> \notin R
  <2>1. IsWellFoundedOn(R, Nat)
    BY NatLessThanWellFounded
  <2> QED
    BY <2>1, WFMin
<1>2. \A x, y \in Nat : <<y, x>> \notin R => x <= y
  BY DEF OpToRel
<1> QED
  BY <1>1, <1>2

\* A set that has 0 and with a number the next one has them all.
LEMMA Induction ==
  ASSUME NEW S, 0 \in S, \A n \in Nat : n \in S => n + 1 \in S
  PROVE  Nat \subseteq S
<1> SUFFICES ASSUME Nat \ S # {} PROVE FALSE
  OBVIOUS
<1>1. PICK x \in Nat \ S : \A y \in Nat \ S : x <= y
  BY LeastNat
<1>2. x # 0 /\ x - 1 \in Nat /\ x - 1 \in S
  BY <1>1
<1> QED
  BY <1>1, <1>2

\* A set that has every number up to N whose successors up to N it has.
LEMMA Descent ==
  ASSUME NEW N \in Nat, NEW S,
         \A n \in 0 .. N : (\A x \in (n + 1) .. N : x \in S) => n \in S
  PROVE  0 .. N \subseteq S
<1> DEFINE T == {k \in Nat : \A x \in 0 .. N : x + k >= N => x \in S}
<1>1. 0 \in T
  <2>1. \A x \in 0 .. N : x + 0 >= N => x = N
    OBVIOUS
  <2>2. N \in 0 .. N /\ \A x \in (N + 1) .. N : x \in S
    OBVIOUS
  <2> QED
    BY <2>1, <2>2
<1>2. ASSUME NEW k \in Nat, k \in T PROVE k + 1 \in T
  <2> SUFFICES ASSUME NEW x \in 0 .. N, x + (k + 1) >= N PROVE x \in S
    OBVIOUS
  <2>1. \A y \in (x + 1) .. N : y \in 0 .. N /\ y + k >= N
    OBVIOUS
  <2>2. \A y \in (x + 1) .. N : y \in S
    BY <1>2, <2>1
  <2> QED
    BY <2>2
<1>3. N \in T
  <2> HIDE DEF T
  <2>1. Nat \subseteq T
    BY <1>1, <1>2, Induction
  <2> QED
    BY <2>1
<1> QED
  BY <1>3

\* The ways to get from a value to the next one, N times.
Steps(N, V) == [1 .. N -> [V -> V]]

\* g is got by taking the steps one after the other.
Follows(g, N, V, first, step) ==
  /\ g \in [0 .. N -> V]
  /\ g[0] = first
  /\ \A n \in 1 .. N : g[n] = step[n][g[n - 1]]

\* There is such a function, whatever the steps: a recursive definition with
\* these steps has a value to choose, and so equals its right-hand side.
LEMMA Recursion ==
  ASSUME NEW N \in Nat, NEW V, NEW first \in V, NEW step \in Steps(N, V)
  PROVE  \E g : Follows(g, N, V, first, step)
<1> DEFINE Upto(m) == {g \in [0 .. m -> V] :
                         g[0] = first /\ \A n \in 1 .. m : g[n] = step[n][g[n - 1]]}
           S == {m \in Nat : m <= N => Upto(m) # {}}
<1>1. 0 \in S
  <2>1. [n \in 0 .. 0 |-> first] \in Upto(0)
    OBVIOUS
  <2> QED
    BY <2>1
<1>2. ASSUME NEW m \in Nat, m \in S PROVE m + 1 \in S
  <2> SUFFICES ASSUME m + 1 <= N PROVE Upto(m + 1) # {}
    OBVIOUS
  <2>1. PICK g \in Upto(m) : TRUE
    BY <1>2
  <2> DEFINE h == [n \in 0 .. (m + 1) |-> IF n <= m THEN g[n] ELSE step[m + 1][g[m]]]
  <2>2. g \in [0 .. m -> V] /\ g[0] = first /\ \A n \in 1 .. m : g[n] = step[n][g[n - 1]]
    BY <2>1
  <2>3. h \in [0 .. (m + 1) -> V]
    <3>1. m + 1 \in 1 .. N /\ g[m] \in V
      BY <2>2
    <3>2. step[m + 1][g[m]] \in V
      BY <3>1 DEF Steps
    <3> QED
      BY <2>2, <3>2
  <2>4. \A n \in 0 .. m : h[n] = g[n]
    OBVIOUS
  <2>5. h[m + 1] = step[m + 1][g[m]]
    OBVIOUS
  <2> HIDE DEF h
  <2>6. \A n \in 1 .. (m + 1) : h[n] = step[n][h[n - 1]]
    <3> TAKE n \in 1 .. (m + 1)
    <3>1. CASE n \in 1 .. m
      <4>1. n \in 0 .. m /\ n - 1 \in 0 .. m
        BY <3>1
      <4>2. h[n] = g[n] /\ h[n - 1] = g[n - 1]
        BY <2>4, <4>1
      <4> QED
        BY <2>2, <3>1, <4>2
    <3>2. CASE n = m + 1
      <4>1. h[m] = g[m]
        BY <2>4
      <4>2. n - 1 = m
        BY <3>2
      <4> QED
        BY <2>5, <3>2, <4>1, <4>2
    <3> QED
      BY <3>1, <3>2
  <2>7. h[0] = first
    BY <2>2, <2>4
  <2> QED
    BY <2>3, <2>6, <2>7
<1> HIDE DEF Upto
<1>3. Nat \subseteq S
  <2> HIDE DEF S
  <2> QED
    BY <1>1, <1>2, Induction
<1>4. Upto(N) # {}
  BY <1>3
<1>5. PICK g : g \in Upto(N)
  BY <1>4
<1>6. Follows(g, N, V, first, step)
  BY <1>5 DEF Follows, Upto
<1> QED
  BY <1>6
=============================================================================
