----------------------------- MODULE LoopLemmas ----------------------------
(***************************************************************************)
(* Facts about functions that are defined along a sequence, from the left, *)
(* as the loops of the agent and of the data plane are modelled.  The step *)
(* of the loop is a function F: F[n][s] is the state after its n-th round, *)
(* which it begins in the state s.                                         *)
(***************************************************************************)
EXTENDS WellFoundedInduction, TLAPS

\* The relation that NatLessThanWellFounded is about.
LEMMA LessRelation == OpToRel(<, Nat) = {ss \in Nat \X Nat : ss[1] < ss[2]}
BY DEF OpToRel

\* Every set of natural numbers that is not empty has a smallest element.
LEMMA Smallest ==
    ASSUME NEW T, T \subseteq Nat, T # {}
    PROVE  \E n \in T : \A m \in T : n <= m
<1> DEFINE R == {ss \in Nat \X Nat : ss[1] < ss[2]}
<1>1. IsWellFoundedOn(R, Nat)
  BY LessRelation, NatLessThanWellFounded
<1> HIDE DEF R
<1>2. PICK n \in T : \A m \in T : ~(<<m, n>> \in R)
  BY <1>1, WFMin
<1> USE DEF R
<1>3. \A m \in T : ~(m < n)
  BY <1>2
<1> QED BY <1>3

\* What holds at 0, and at n if at n - 1, holds up to N.
LEMMA UpTo ==
    ASSUME NEW N \in Nat, NEW T, 0 \in T, \A n \in 1..N : n - 1 \in T => n \in T
    PROVE  0..N \subseteq T
<1> DEFINE M == {n \in 0..N : n \notin T}
<1> SUFFICES ASSUME M # {} PROVE FALSE
  OBVIOUS
<1>1. M \subseteq Nat
  OBVIOUS
<1> HIDE DEF M
<1>2. PICK n \in M : \A m \in M : n <= m
  BY <1>1, Smallest
<1> USE DEF M
<1>3. n \in 0..N /\ n # 0
  BY <1>2
<1>4. n \in 1..N /\ n - 1 \in 0..N
  BY <1>3
<1>5. n - 1 \in T
  BY <1>2, <1>4
<1> QED BY <1>2, <1>4, <1>5

\* The states f of a loop of N rounds that begins in the state x.
IsLoop(f, N, x, F) == f = [n \in 0..N |-> IF n = 0 THEN x ELSE F[n][f[n - 1]]]

\* The function exists: each loop has a state after each of its rounds.
LEMMA LoopExists ==
    ASSUME NEW N \in Nat, NEW S, NEW x \in S, NEW F \in [1..N -> [S -> S]]
    PROVE  \E f \in [0..N -> S] : IsLoop(f, N, x, F)
<1> DEFINE Good(m) == \E f \in [0..m -> S] :
                         f = [n \in 0..m |-> IF n = 0 THEN x ELSE F[n][f[n - 1]]]
           T == {m \in 0..N : Good(m)}
<1>1. 0 \in T
  <2> DEFINE f == [n \in 0..0 |-> x]
  <2>1. f \in [0..0 -> S]
    OBVIOUS
  <2>2. f = [n \in 0..0 |-> IF n = 0 THEN x ELSE F[n][f[n - 1]]]
    OBVIOUS
  <2> HIDE DEF f
  <2>3. Good(0)
    BY <2>1, <2>2
  <2> HIDE DEF Good
  <2> QED BY <2>3
<1>2. ASSUME NEW m \in 1..N, m - 1 \in T PROVE m \in T
  <2>1. PICK f \in [0..m - 1 -> S] :
           f = [n \in 0..m - 1 |-> IF n = 0 THEN x ELSE F[n][f[n - 1]]]
    BY <1>2
  <2> DEFINE g == [n \in 0..m |-> IF n = m THEN F[m][f[m - 1]] ELSE f[n]]
  <2>2. f[m - 1] \in S
    BY <2>1
  <2>3. F[m][f[m - 1]] \in S
    BY <2>2
  <2>4. \A n \in 0..m : n # m => n \in 0..m - 1 /\ f[n] \in S
    BY <2>1
  <2>5. g \in [0..m -> S]
    BY <2>3, <2>4
  <2>6. ASSUME NEW n \in 0..m
        PROVE  g[n] = IF n = 0 THEN x ELSE F[n][g[n - 1]]
    <3>1. CASE n = 0
      BY <2>1, <3>1
    <3>2. CASE n # 0
      <4>1. n - 1 \in 0..m - 1 /\ n - 1 # m
        BY <3>2
      <4>2. g[n - 1] = f[n - 1]
        BY <4>1
      <4>3. CASE n = m
        BY <3>2, <4>2, <4>3
      <4>4. CASE n # m
        <5>1. n \in 0..m - 1
          BY <4>4
        <5>2. f[n] = F[n][f[n - 1]]
          BY <2>1, <3>2, <5>1
        <5> QED BY <3>2, <4>2, <4>4, <5>2
      <4> QED BY <4>3, <4>4
    <3> QED BY <3>1, <3>2
  <2>7. g = [n \in 0..m |-> IF n = 0 THEN x ELSE F[n][g[n - 1]]]
    BY <2>6
  <2> HIDE DEF g
  <2>8. Good(m)
    BY <2>5, <2>7
  <2> HIDE DEF Good
  <2> QED BY <2>8
<1> HIDE DEF T
<1>3. 0..N \subseteq T
  BY <1>1, <1>2, UpTo
<1>4. N \in T
  BY <1>3
<1> QED BY <1>4 DEF T, IsLoop

=============================================================================
