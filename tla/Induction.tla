----------------------------- MODULE Induction -----------------------------
(***************************************************************************)
(* Induction and recursion on the natural numbers, for sets and functions  *)
(* instead of for operators, so that they can be cited: a set that has 0   *)
(* and, with n, also n + 1 has every number, and a function that takes a   *)
(* step for each number exists.                                            *)
(***************************************************************************)
EXTENDS Integers, WellFoundedInduction, TLAPS

\* The order of the naturals is well-founded.
LEMMA Less == \E R : /\ IsWellFoundedOn(R, Nat)
                     /\ \A m, n \in Nat : <<m, n>> \in R <=> m < n
<1>1. IsWellFoundedOn(OpToRel(<, Nat), Nat)
  BY NatLessThanWellFounded
<1>2. \A m, n \in Nat : <<m, n>> \in OpToRel(<, Nat) <=> m < n
  BY DEF OpToRel
<1> QED
  BY <1>1, <1>2

\* A set of naturals has a least element.
LEMMA Least ==
    ASSUME NEW T \in SUBSET Nat, T # {}
    PROVE  \E n \in T : \A m \in T : n <= m
<1>1. PICK R : IsWellFoundedOn(R, Nat) /\ \A m, n \in Nat : <<m, n>> \in R <=> m < n
  BY Less
<1>2. T \subseteq Nat
  OBVIOUS
<1>3. PICK n \in T : \A m \in T : ~ (<<m, n>> \in R)
  <2>1. IsWellFoundedOn(R, Nat)
    BY <1>1
  <2>2. ASSUME NEW U, U \subseteq Nat, U # {}
        PROVE  \E x \in U : \A y \in U : ~ (<<y, x>> \in R)
    BY <2>1, <2>2, WFMin
  <2> QED
    BY <1>2, <2>2
<1>4. ASSUME NEW m \in T
      PROVE  n <= m
  <2>1. m \in Nat /\ n \in Nat /\ ~ (m < n)
    BY <1>1, <1>2, <1>3
  <2> QED
    BY <2>1
<1> QED
  BY <1>4

\* Induction, over the set of the numbers of which the claim holds.
LEMMA SetInduction ==
    ASSUME NEW S, 0 \in S, \A n \in Nat : n \in S => n + 1 \in S
    PROVE  \A n \in Nat : n \in S
<1> SUFFICES ASSUME Nat \ S # {}
             PROVE  FALSE
  OBVIOUS
<1>1. PICK n \in Nat \ S : \A m \in Nat \ S : n <= m
  BY Least
<1>2. n # 0 /\ n - 1 \in Nat /\ n - 1 < n
  BY <1>1
<1>3. n - 1 \in S
  BY <1>1, <1>2
<1> QED
  BY <1>1, <1>2, <1>3

\* The same up to a bound.
LEMMA UpTo ==
    ASSUME NEW N \in Nat, NEW S, 0 \in S, \A n \in 1 .. N : n - 1 \in S => n \in S
    PROVE  \A n \in 0 .. N : n \in S
<1> DEFINE T == {n \in Nat : n <= N => n \in S}
<1>1. 0 \in T
  OBVIOUS
<1>2. ASSUME NEW n \in Nat, n \in T
      PROVE  n + 1 \in T
  <2> SUFFICES ASSUME n + 1 <= N
               PROVE  n + 1 \in S
    OBVIOUS
  <2>1. n \in S /\ n + 1 \in 1 .. N /\ (n + 1) - 1 = n
    BY <1>2
  <2> QED
    BY <2>1
<1>3. \A n \in Nat : n \in T
  <2> HIDE DEF T
  <2> QED
    BY <1>1, <1>2, SetInduction
<1> QED
  BY <1>3

\* A function whose steps stay in a set has its values there.
LEMMA Values ==
    ASSUME NEW A, NEW N \in Nat, NEW q, q[0] \in A,
           \A n \in 1 .. N : q[n - 1] \in A => q[n] \in A
    PROVE  \A n \in 0 .. N : q[n] \in A
<1> DEFINE S == {n \in 0 .. N : q[n] \in A}
<1>1. 0 \in S
  OBVIOUS
<1>2. \A n \in 1 .. N : n - 1 \in S => n \in S
  OBVIOUS
<1>3. \A n \in 0 .. N : n \in S
  <2> HIDE DEF S
  <2> QED
    BY <1>1, <1>2, UpTo
<1> QED
  BY <1>3

\* The values after each of N steps, T[n] being the n-th, are a function.
LEMMA Recursion ==
    ASSUME NEW A, NEW a \in A, NEW N \in Nat, NEW T \in [1 .. N -> [A -> A]]
    PROVE  \E r \in [0 .. N -> A] : /\ r[0] = a
                                    /\ \A n \in 1 .. N : r[n] = T[n][r[n - 1]]
<1> DEFINE S == {k \in Nat : k <= N => \E r \in [0 .. k -> A] :
                       /\ r[0] = a
                       /\ \A n \in 1 .. k : r[n] = T[n][r[n - 1]]}
<1>1. 0 \in S
  <2> DEFINE r == [n \in 0 .. 0 |-> a]
  <2>1. r \in [0 .. 0 -> A] /\ r[0] = a /\ \A n \in 1 .. 0 : r[n] = T[n][r[n - 1]]
    OBVIOUS
  <2> QED
    BY <2>1
<1>2. ASSUME NEW k \in Nat, k \in S
      PROVE  k + 1 \in S
  <2> SUFFICES ASSUME k + 1 <= N
               PROVE  \E r \in [0 .. k + 1 -> A] : /\ r[0] = a
                                                   /\ \A n \in 1 .. k + 1 : r[n] = T[n][r[n - 1]]
    OBVIOUS
  <2>1. PICK r \in [0 .. k -> A] : r[0] = a /\ \A n \in 1 .. k : r[n] = T[n][r[n - 1]]
    BY <1>2
  <2>2. T[k + 1][r[k]] \in A
    <3>1. k + 1 \in 1 .. N /\ r[k] \in A
      OBVIOUS
    <3> QED
      BY <3>1
  <2> DEFINE q == [n \in 0 .. k + 1 |-> IF n = k + 1 THEN T[k + 1][r[k]] ELSE r[n]]
  <2>3. q \in [0 .. k + 1 -> A]
    BY <2>2
  <2>4. q[0] = a
    BY <2>1
  <2>5. \A n \in 1 .. k + 1 : q[n] = T[n][q[n - 1]]
    <3> SUFFICES ASSUME NEW n \in 1 .. k + 1
                 PROVE  q[n] = T[n][q[n - 1]]
      OBVIOUS
    <3>1. q[n - 1] = r[n - 1]
      OBVIOUS
    <3>2. CASE n = k + 1
      BY <3>1, <3>2
    <3>3. CASE n # k + 1
      BY <2>1, <3>1, <3>3
    <3> QED
      BY <3>2, <3>3
  <2> QED
    BY <2>3, <2>4, <2>5
<1>3. N \in S
  <2> HIDE DEF S
  <2> QED
    BY <1>1, <1>2, SetInduction
<1> QED
  BY <1>3
=============================================================================
