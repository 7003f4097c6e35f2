------------------------------- MODULE Induction -------------------------------
(* Induction over the natural numbers, and functions defined by recursion.     *)
(*                                                                             *)
(* The induction theorems of the library speak of any operator P(_), which the *)
(* provers cannot instantiate; those that speak of sets they can.  So that 0   *)
(* to N have a property is shown of the set of those that have it.             *)
EXTENDS Integers, WellFoundedInduction, TLAPS

\* A set of natural numbers has a least one.
LEMMA Least ==
  ASSUME NEW S \in SUBSET Nat, S # {}
  PROVE  \E n \in S : \A m \in S : n <= m
<1> DEFINE R == OpToRel(<, Nat)
<1>1. IsWellFoundedOn(R, Nat)
  BY NatLessThanWellFounded
<1>2. \A n, m \in Nat : n < m => <<n, m>> \in R
  BY DEF OpToRel
<1> HIDE DEF R
<1>3. PICK n \in S : \A m \in S : ~(<<m, n>> \in R)
  BY <1>1, WFMin
<1>4. ASSUME NEW m \in S
      PROVE  n <= m
  <2>1. m \in Nat /\ n \in Nat
    OBVIOUS
  <2>2. ~(m < n)
    BY <1>2, <1>3, <2>1
  <2>3. QED BY <2>1, <2>2
<1>5. QED BY <1>4

\* A set that holds 0, and each number with the one before it, holds them all.
LEMMA Inductive ==
  ASSUME NEW N \in Nat, NEW S, 0 \in S, \A i \in 1..N : i - 1 \in S => i \in S
  PROVE  \A i \in 0..N : i \in S
<1> DEFINE T == {i \in 0..N : i \notin S}
<1> SUFFICES ASSUME T # {}
             PROVE  FALSE
  OBVIOUS
<1>0. T \in SUBSET Nat
  OBVIOUS
<1>1. PICK n \in T : \A m \in T : n <= m
  <2> HIDE DEF T
  <2>1. QED BY <1>0, Least
<1>2. n \in 1..N
  <2>1. n # 0
    OBVIOUS
  <2>2. QED BY <2>1
<1>3. n - 1 \in S
  BY <1>1, <1>2
<1>4. QED BY <1>2, <1>3

\* N steps from a value of S to the next.
Steps(N, S) == [1..N -> [S -> S]]

\* The values they lead to, from c.
Follows(f, N, S, c, G) ==
    f \in [0..N -> S] /\ f[0] = c /\ \A i \in 1..N : f[i] = G[i][f[i - 1]]

\* A function that is defined by recursion from c, step by step, exists.
LEMMA Recursive ==
  ASSUME NEW N \in Nat, NEW S, NEW c \in S, NEW G \in Steps(N, S)
  PROVE  \E f : Follows(f, N, S, c, G)
<1>0. G \in [1..N -> [S -> S]]
  BY DEF Steps
<1> DEFINE Upto(n) == {f \in [0..n -> S] : f[0] = c /\ \A i \in 1..n : f[i] = G[i][f[i - 1]]}
           T == {n \in Nat : n <= N => Upto(n) # {}}
<1>1. 0 \in T
  <2>1. [i \in 0..0 |-> c] \in Upto(0)
    OBVIOUS
  <2>2. QED BY <2>1
<1>2. ASSUME NEW n \in 1..N, n - 1 \in T
      PROVE  n \in T
  <2>1. PICK f \in Upto(n - 1) : TRUE
    BY <1>2
  <2> DEFINE g == [i \in 0..n |-> IF i = n THEN G[n][f[n - 1]] ELSE f[i]]
  <2>2. /\ f \in [0..(n - 1) -> S] /\ f[0] = c /\ f[n - 1] \in S
        /\ \A i \in 1..(n - 1) : f[i] = G[i][f[i - 1]]
    OBVIOUS
  <2>3. g \in [0..n -> S]
    BY <1>0, <2>2
  <2>4. g[0] = c
    BY <2>2
  <2>5. \A i \in 1..n : g[i] = G[i][g[i - 1]]
    BY <2>2
  <2>6. g \in Upto(n)
    BY <2>3, <2>4, <2>5
  <2>7. QED BY <2>6
<1> HIDE DEF T
<1>3. \A i \in 0..N : i \in T
  BY <1>1, <1>2, Inductive
<1>4. QED BY <1>3 DEF T, Follows
================================================================================
