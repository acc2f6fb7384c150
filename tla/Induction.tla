----------------------------- MODULE Induction -----------------------------
(***************************************************************************)
(* Induction in the form the provers can use: about sets of numbers, from  *)
(* the least number that is not in the set.                                *)
(***************************************************************************)
EXTENDS Naturals, WellFoundedInduction, TLAPS

(* Every set of numbers has a least one.                                    *)
LEMMA Least ==
  ASSUME NEW T, T \subseteq Nat, T # {}
  PROVE  \E x \in T : \A y \in T : x <= y
  <1> DEFINE R == OpToRel(<, Nat)
  <1>1. IsWellFoundedOn(R, Nat)
    BY NatLessThanWellFounded
  <1> HIDE DEF R
  <1>2. PICK x \in T : \A y \in T : ~ (<<y, x>> \in R)
    BY <1>1, WFMin
  <1>3. \A y \in T : y < x => <<y, x>> \in R
    BY DEF R, OpToRel
  <1>4. ASSUME NEW y \in T PROVE x <= y
    <2>1. x \in Nat /\ y \in Nat
      OBVIOUS
    <2>2. ~(y < x)
      BY <1>2, <1>3
    <2> QED
      BY <2>1, <2>2
  <1> QED
    BY <1>4

(* Induction over the numbers up to N.                                      *)
LEMMA UpTo ==
  ASSUME NEW N \in Nat, NEW T, 0 \in T, \A i \in 0..N : i \in T /\ i < N => i + 1 \in T
  PROVE  0..N \subseteq T
  <1> DEFINE Bad == (0..N) \ T
  <1>1. SUFFICES ASSUME Bad # {} PROVE FALSE
    OBVIOUS
  <1>2. PICK b \in Bad : \A y \in Bad : b <= y
    <2>1. Bad \subseteq Nat
      OBVIOUS
    <2> HIDE DEF Bad
    <2> QED
      BY <1>1, <2>1, Least
  <1>3. b # 0 /\ b \in 0..N
    BY <1>2
  <1>4. b - 1 \in 0..N /\ b - 1 \in T
    BY <1>2, <1>3
  <1> QED
    BY <1>4, <1>2

(* There is a function that begins with s0 and goes on by nxt: what a       *)
(* recursive definition over 0..N stands for.                               *)
LEMMA Recursion ==
  ASSUME NEW S, NEW s0 \in S, NEW N \in Nat, NEW nxt \in [1..N -> [S -> S]]
  PROVE  \E g \in [0..N -> S] : g[0] = s0 /\ \A i \in 1..N : g[i] = nxt[i][g[i-1]]
  <1> DEFINE Runs(g, n) == g[0] = s0 /\ \A i \in 1..n : g[i] = nxt[i][g[i-1]]
             T == {n \in 0..N : \E g \in [0..n -> S] : Runs(g, n)}
  <1>1. 0 \in T
    <2> DEFINE g0 == [i \in 0..0 |-> s0]
    <2>1. g0 \in [0..0 -> S] /\ Runs(g0, 0)
      OBVIOUS
    <2> HIDE DEF g0
    <2> QED
      BY <2>1
  <1>2. ASSUME NEW n \in 0..N, n \in T, n < N PROVE n + 1 \in T
    <2>1. PICK g \in [0..n -> S] : Runs(g, n)
      BY <1>2
    <2> DEFINE v == nxt[n + 1][g[n]]
               h == [i \in 0..(n + 1) |-> IF i <= n THEN g[i] ELSE v]
    <2>2. n \in Nat /\ n + 1 \in 1..N
      BY <1>2
    <2>3. g[n] \in S /\ v \in S
      BY <2>1, <2>2
    <2>4. \A i \in 1..n : g[i] = nxt[i][g[i-1]]
      BY <2>1
    <2> HIDE DEF Runs
    <2>5. h \in [0..(n+1) -> S]
      <3> HIDE DEF v
      <3> QED
        BY <2>2, <2>3
    <2>6. h[0] = s0
      BY <2>1, <2>2 DEF Runs
    <2>7. \A i \in 0..n : h[i] = g[i]
      BY <2>2
    <2>8. h[n+1] = v
      BY <2>2
    <2> HIDE DEF h
    <2>9. ASSUME NEW i \in 1..(n+1) PROVE h[i] = nxt[i][h[i-1]]
      <3>1. i - 1 \in 0..n /\ h[i-1] = g[i-1]
        BY <2>2, <2>7
      <3>2. CASE i \in 1..n
        <4>1. h[i] = g[i]
          BY <2>7, <3>2
        <4> QED
          BY <3>1, <3>2, <2>4, <4>1
      <3>3. CASE i = n + 1
        BY <3>1, <3>3, <2>8, <2>2
      <3> QED
        BY <3>2, <3>3, <2>2
    <2> QED
      BY <2>2, <2>5, <2>6, <2>9 DEF Runs
  <1> HIDE DEF T
  <1>3. 0..N \subseteq T
    BY <1>1, <1>2, UpTo
  <1>4. N \in T
    BY <1>3
  <1> QED
    BY <1>4 DEF T
=============================================================================
