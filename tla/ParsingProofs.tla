---------------------------- MODULE ParsingProofs ----------------------------
(***************************************************************************)
(* What the functions of Parsing compute, for lines and ports of every     *)
(* length.  Each of them goes through its text from left to right; the     *)
(* properties speak of places in it, so each proof is an induction over    *)
(* what has been read.                                                     *)
(***************************************************************************)
EXTENDS Parsing, Induction, SequenceTheorems, FiniteSetTheorems, TLAPS

\* Text is made of characters.
Typed == line \in Seq(Char) /\ arg \in Seq(Digit \cup {"a"})

\* It stays so, whatever is typed.
LEMMA AlwaysTyped == Spec => []Typed
<1> DEFINE ArgChar == Digit \cup {"a"}
<1>1. Init => Typed
  BY DEF Init, Typed
<1>2. ASSUME Typed, [Next]_vars
      PROVE  Typed'
  <2>1. line \in Seq(Char) /\ arg \in Seq(ArgChar)
    BY <1>2 DEF Typed
  <2>2. \/ \E c \in Char : line' = Append(line, c) /\ arg' = arg
        \/ \E c \in ArgChar : arg' = Append(arg, c) /\ line' = line
        \/ line' = line /\ arg' = arg
    BY <1>2 DEF Next, TypeLine, TypeArg, vars
  <2>3. line' \in Seq(Char) /\ arg' \in Seq(ArgChar)
    <3> HIDE DEF ArgChar
    <3>1. ASSUME NEW S, NEW t \in Seq(S), NEW c \in S
          PROVE  Append(t, c) \in Seq(S)
      OBVIOUS
    <3> QED
      BY <2>1, <2>2, <3>1
  <2> QED
    BY <2>3 DEF Typed
<1> QED
  BY <1>1, <1>2, PTL DEF Spec

-----------------------------------------------------------------------------
(* The port.                                                               *)

\* A digit has a value.
LEMMA DigitValueType == \A d \in Digit : DigitValue[d] \in 0 .. 9
<1> SUFFICES ASSUME NEW n \in 1 .. 10
             PROVE  DigitValue[Numeral[n]] \in 0 .. 9
  BY DEF Digit
<1>1. Numeral[n] \in Digit
  BY DEF Digit
<1>2. DigitValue[Numeral[n]] = CHOOSE v \in 0 .. 9 : Numeral[v + 1] = Numeral[n]
  BY <1>1 DEF DigitValue
<1>3. n - 1 \in 0 .. 9 /\ Numeral[(n - 1) + 1] = Numeral[n]
  OBVIOUS
<1> QED
  BY <1>2, <1>3

\* What a recursion over the digits yields.
Value == Nat

\* A recursion with numbers has a result after each step.
LEMMA NumbersExist ==
    ASSUME NEW a \in Value, NEW N \in Nat, NEW T \in [1 .. N -> [Value -> Value]]
    PROVE  \E r \in [0 .. N -> Value] : r[0] = a /\ \A n \in 1 .. N : r[n] = T[n][r[n - 1]]
  BY Recursion

\* What each step keeps a number is one throughout.
LEMMA NumbersStay ==
    ASSUME NEW N \in Nat, NEW q, q[0] \in Nat,
           \A n \in 1 .. N : q[n - 1] \in Nat => q[n] \in Nat
    PROVE  \A n \in 0 .. N : q[n] \in Nat
<1> DEFINE A == Nat
<1>1. q[0] \in A /\ \A n \in 1 .. N : q[n - 1] \in A => q[n] \in A
  OBVIOUS
<1>2. \A n \in 0 .. N : q[n] \in A
  <2> HIDE DEF A
  <2> QED
    BY <1>1, Values
<1> QED
  BY <1>2

\* The number that digits say grows by a digit at a time.
LEMMA NumberSteps ==
    ASSUME NEW s \in Seq(Digit)
    PROVE  \E q \in [0 .. Len(s) -> Nat] :
              /\ q[0] = 0
              /\ \A n \in 1 .. Len(s) : q[n] = 10 * q[n - 1] + DigitValue[s[n]]
              /\ Number(s) = q[Len(s)]
<1> DEFINE N == Len(s)
           zero == 0
           F(f) == [n \in 0 .. N |-> IF n = 0 THEN 0 ELSE 10 * f[n - 1] + DigitValue[s[n]]]
           T == [n \in 1 .. N |-> [v \in Nat |-> 10 * v + DigitValue[s[n]]]]
           q == CHOOSE f : f = F(f)
<1>1. N \in Nat /\ \A n \in 1 .. N : DigitValue[s[n]] \in Nat
  BY DigitValueType
<1>2. T \in [1 .. N -> [Value -> Value]] /\ zero \in Value
  BY <1>1 DEF Value
<1>3. PICK r \in [0 .. N -> Value] : r[0] = zero /\ \A n \in 1 .. N : r[n] = T[n][r[n - 1]]
  <2> HIDE DEF T, N, zero
  <2> QED
    BY <1>1, <1>2, NumbersExist
<1>4. r = F(r)
  <2>1. ASSUME NEW n \in 1 .. N
        PROVE  r[n] = 10 * r[n - 1] + DigitValue[s[n]]
    <3>1. r[n - 1] \in Nat
      BY <1>1 DEF Value
    <3> QED
      BY <1>3, <3>1
  <2> QED
    BY <1>3, <2>1
<1>5. q = F(q)
  BY <1>4
<1>6. q[0] = 0 /\ \A n \in 1 .. N : q[n] = 10 * q[n - 1] + DigitValue[s[n]]
  <2> HIDE DEF q
  <2> QED
    BY <1>1, <1>5
<1>7. \A n \in 0 .. N : q[n] \in Nat
  <2> HIDE DEF q, N
  <2>1. \A n \in 1 .. N : q[n - 1] \in Nat => q[n] \in Nat
    <3> SUFFICES ASSUME NEW n \in 1 .. N, q[n - 1] \in Nat
                 PROVE  q[n] \in Nat
      OBVIOUS
    <3>1. q[n] = 10 * q[n - 1] + DigitValue[s[n]] /\ DigitValue[s[n]] \in Nat
      BY <1>1, <1>6
    <3> QED
      BY <3>1
  <2>2. N \in Nat /\ q[0] \in Nat
    BY <1>1, <1>6
  <2> QED
    BY <2>1, <2>2, NumbersStay
<1>8. q \in [0 .. N -> Nat]
  <2> HIDE DEF q
  <2> QED
    BY <1>5, <1>7
<1>9. Number(s) = q[N]
  BY DEF Number
<1> QED
  BY <1>6, <1>8, <1>9

\* Sizes are as large as they must be.
LEMMA Sizes ==
    /\ PortSize \in Nat /\ IntSize \in Nat /\ LongSize \in Nat
    /\ 1 < PortSize /\ 2 * PortSize <= IntSize /\ 2 * IntSize <= LongSize
    /\ LongSize \div 2 \in Nat /\ IntSize \div 2 \in Nat
    /\ PortSize <= IntSize \div 2 /\ IntSize <= LongSize \div 2
<1>1. /\ PortSize \in Nat /\ IntSize \in Nat /\ LongSize \in Nat
      /\ 1 < PortSize /\ 2 * PortSize <= IntSize /\ 2 * IntSize <= LongSize
  BY ParsingAssumption
<1> QED
  BY <1>1

\* What saturates stays a number.
LEMMA SaturateType == \A v \in Nat : Saturate(v) \in Nat
  BY Sizes DEF Saturate

\* atol() takes a digit at a time.
LEMMA AtolSteps ==
    ASSUME NEW s \in Seq(Digit)
    PROVE  \E q \in [0 .. Len(s) -> Nat] :
              /\ q[0] = 0
              /\ \A n \in 1 .. Len(s) : q[n] = Saturate(10 * q[n - 1] + DigitValue[s[n]])
              /\ atol(s) = q[Len(s)]
<1> DEFINE N == Len(s)
           zero == 0
           F(f) == [n \in 0 .. N |-> IF n = 0 THEN 0 ELSE Saturate(10 * f[n - 1] + DigitValue[s[n]])]
           T == [n \in 1 .. N |-> [v \in Nat |-> Saturate(10 * v + DigitValue[s[n]])]]
           q == CHOOSE f : f = F(f)
<1>1. N \in Nat /\ \A n \in 1 .. N : DigitValue[s[n]] \in Nat
  BY DigitValueType
<1>2a. \A v \in Nat : Saturate(v) \in Nat
  BY SaturateType
<1>2b. \A n \in 1 .. N, v \in Nat : Saturate(10 * v + DigitValue[s[n]]) \in Nat
  <2>1. \A n \in 1 .. N, v \in Nat : 10 * v + DigitValue[s[n]] \in Nat
    BY <1>1
  <2> QED
    BY <1>2a, <2>1
<1>2. T \in [1 .. N -> [Value -> Value]] /\ zero \in Value
  BY <1>1, <1>2b DEF Value
<1>3. PICK r \in [0 .. N -> Value] : r[0] = zero /\ \A n \in 1 .. N : r[n] = T[n][r[n - 1]]
  <2> HIDE DEF T, N, zero
  <2> QED
    BY <1>1, <1>2, NumbersExist
<1>4. r = F(r)
  <2>1. ASSUME NEW n \in 1 .. N
        PROVE  r[n] = Saturate(10 * r[n - 1] + DigitValue[s[n]])
    <3>1. r[n - 1] \in Nat
      BY <1>1 DEF Value
    <3> QED
      BY <1>3, <3>1
  <2> QED
    BY <1>3, <2>1
<1>5. q = F(q)
  BY <1>4
<1>6. q[0] = 0 /\ \A n \in 1 .. N : q[n] = Saturate(10 * q[n - 1] + DigitValue[s[n]])
  <2> HIDE DEF q
  <2> QED
    BY <1>1, <1>5
<1>7. \A n \in 0 .. N : q[n] \in Nat
  <2> HIDE DEF q, N
  <2>1. \A n \in 1 .. N : q[n - 1] \in Nat => q[n] \in Nat
    <3> SUFFICES ASSUME NEW n \in 1 .. N, q[n - 1] \in Nat
                 PROVE  q[n] \in Nat
      OBVIOUS
    <3>1. q[n] = Saturate(10 * q[n - 1] + DigitValue[s[n]]) /\ DigitValue[s[n]] \in Nat
      BY <1>1, <1>6
    <3> QED
      BY <1>2b, <3>1
  <2>2. N \in Nat /\ q[0] \in Nat
    BY <1>1, <1>6
  <2> QED
    BY <2>1, <2>2, NumbersStay
<1>8. q \in [0 .. N -> Nat]
  <2> HIDE DEF q
  <2> QED
    BY <1>5, <1>7
<1>9. atol(s) = q[N]
  BY DEF atol
<1> QED
  BY <1>6, <1>8, <1>9

\* atol() of digits is their number, or the greatest there is.
LEMMA AtolIsNumber ==
    ASSUME NEW s \in Seq(Digit)
    PROVE  /\ Number(s) \in Nat
           /\ atol(s) = IF Number(s) < LongSize \div 2 THEN Number(s) ELSE LongSize \div 2 - 1
<1> DEFINE N == Len(s)
           max == LongSize \div 2
<1>1. N \in Nat /\ \A n \in 1 .. N : DigitValue[s[n]] \in Nat
  BY DigitValueType
<1>2. max \in Nat /\ max > 1
  BY Sizes
<1>3. PICK q \in [0 .. N -> Nat] :
          /\ q[0] = 0
          /\ \A n \in 1 .. N : q[n] = 10 * q[n - 1] + DigitValue[s[n]]
          /\ Number(s) = q[N]
  BY NumberSteps
<1>4. PICK p \in [0 .. N -> Nat] :
          /\ p[0] = 0
          /\ \A n \in 1 .. N : p[n] = Saturate(10 * p[n - 1] + DigitValue[s[n]])
          /\ atol(s) = p[N]
  BY AtolSteps
<1> DEFINE S == {n \in 0 .. N : p[n] = IF q[n] < max THEN q[n] ELSE max - 1}
<1>5. 0 \in S
  BY <1>1, <1>2, <1>3, <1>4
<1>6. ASSUME NEW n \in 1 .. N, n - 1 \in S
      PROVE  n \in S
  <2> DEFINE d == DigitValue[s[n]]
  <2>0. n - 1 \in 0 .. N /\ d \in Nat
    BY <1>1
  <2>1. d \in Nat /\ q[n - 1] \in Nat
    BY <2>0
  <2>2. p[n] = Saturate(10 * p[n - 1] + d) /\ q[n] = 10 * q[n - 1] + d
    BY <1>3, <1>4
  <2>3. p[n - 1] = IF q[n - 1] < max THEN q[n - 1] ELSE max - 1
    BY <1>6
  <2> HIDE DEF d
  <2>4. p[n] = IF q[n] < max THEN q[n] ELSE max - 1
    <3>1. CASE q[n - 1] < max
      BY <1>2, <2>1, <2>2, <2>3, <3>1 DEF Saturate
    <3>2. CASE ~(q[n - 1] < max)
      <4>1. p[n - 1] = max - 1
        BY <2>3, <3>2
      <4>2. 10 * p[n - 1] + d >= max /\ q[n] >= max
        BY <1>2, <2>1, <2>2, <3>2, <4>1
      <4>3. p[n] = max - 1
        BY <1>2, <2>1, <2>2, <4>1, <4>2 DEF Saturate
      <4> QED
        BY <1>2, <2>1, <2>2, <4>2, <4>3
    <3> QED
      BY <3>1, <3>2
  <2> QED
    BY <2>4
<1>7. \A n \in 0 .. N : n \in S
  <2> HIDE DEF S, N
  <2> QED
    BY <1>1, <1>5, <1>6, UpTo
<1>8. N \in S
  BY <1>1, <1>7
<1> QED
  BY <1>1, <1>3, <1>4, <1>8

\* A port that is accepted is the port that the server listens on (main.cpp:42-96):
\* the long that is tested, the int that is used and the bits that bind() takes
\* are the same number.
THEOREM PortsAreKept == Spec => []PortIsTheNumber
<1>1. ASSUME Typed
      PROVE  PortIsTheNumber
  <2> SUFFICES ASSUME validateArguments(arg)
               PROVE  Number(arg) > 0 /\ BoundPort(arg) = Number(arg)
    BY DEF PortIsTheNumber
  <2>1. arg \in Seq(Digit)
    <3>1. arg \in Seq(Digit \cup {"a"}) /\ \A k \in DOMAIN arg : arg[k] \in Digit
      BY <1>1 DEF Typed, validateArguments
    <3> QED
      BY <3>1
  <2> DEFINE v == Number(arg)
  <2>2. /\ v \in Nat
        /\ atol(arg) = IF v < LongSize \div 2 THEN v ELSE LongSize \div 2 - 1
    BY <2>1, AtolIsNumber
  <2>3. atol(arg) >= 1 /\ atol(arg) < PortSize
    BY DEF validateArguments
  <2> HIDE DEF v
  <2>4. PortSize < LongSize \div 2
    BY Sizes
  <2>5. v >= 1 /\ v < PortSize /\ atol(arg) = v
    BY <2>2, <2>3, <2>4, Sizes
  <2>6. v % IntSize = v /\ v % PortSize = v
    BY <2>2, <2>5, Sizes
  <2>7. atoi(arg) = v
    BY <2>2, <2>5, <2>6, Sizes DEF atoi
  <2>8. BoundPort(arg) = v
    BY <2>6, <2>7 DEF BoundPort
  <2> QED
    BY <2>2, <2>5, <2>8 DEF v
<1> QED
  BY <1>1, AlwaysTyped, PTL

-----------------------------------------------------------------------------
(* Places in a text and how many of them come before a point.              *)

\* Ranks count the members of a set up to a point.
LEMMA RankSteps ==
    ASSUME NEW N \in Nat, NEW P \in SUBSET (1 .. N)
    PROVE  /\ Rank(P, 0) = 0
           /\ Rank(P, N) = Cardinality(P)
           /\ \A k \in Nat : Rank(P, k) \in Nat
           /\ \A k \in Nat : k >= 1 => Rank(P, k) = Rank(P, k - 1) + (IF k \in P THEN 1 ELSE 0)
<1>0. \A j \in P : j \in Int /\ 1 <= j /\ j <= N
  OBVIOUS
<1>1. IsFiniteSet(P)
  <2>1. IsFiniteSet(1 .. N)
    BY FS_Interval
  <2> QED
    BY <2>1, FS_Subset
<1>2. \A k \in Nat : IsFiniteSet({j \in P : j <= k})
  <2> SUFFICES ASSUME NEW k \in Nat
               PROVE  IsFiniteSet({j \in P : j <= k})
    OBVIOUS
  <2>1. {j \in P : j <= k} \in SUBSET P
    OBVIOUS
  <2> QED
    BY <1>1, <2>1, FS_Subset
<1>3. Rank(P, 0) = 0
  <2>1. \A j \in P : ~(j <= 0)
    BY <1>0
  <2>2. {j \in P : j <= 0} = {}
    BY <2>1
  <2> QED
    BY <2>2, FS_EmptySet DEF Rank
<1>4. Rank(P, N) = Cardinality(P)
  <2>1. {j \in P : j <= N} = P
    BY <1>0
  <2> QED
    BY <2>1 DEF Rank
<1>5. \A k \in Nat : Rank(P, k) \in Nat
  BY <1>2, FS_CardinalityType DEF Rank
<1>6. ASSUME NEW k \in Nat, k >= 1
      PROVE  Rank(P, k) = Rank(P, k - 1) + (IF k \in P THEN 1 ELSE 0)
  <2> DEFINE before == {j \in P : j <= k - 1}
  <2>0. k - 1 \in Nat
    BY <1>6
  <2>1. IsFiniteSet(before)
    BY <1>2, <2>0
  <2>2. CASE k \in P
    <3>0. \A j \in P : j <= k <=> (j <= k - 1 \/ j = k)
      BY <1>0
    <3>1. {j \in P : j <= k} = before \cup {k} /\ k \notin before
      <4>1. k <= k /\ ~(k <= k - 1)
        OBVIOUS
      <4> QED
        BY <2>2, <3>0, <4>1
    <3>2. Cardinality(before \cup {k}) = Cardinality(before) + 1
      BY <2>1, <3>1, FS_AddElement
    <3>3. Rank(P, k) = Cardinality(before \cup {k}) /\ Rank(P, k - 1) = Cardinality(before)
      BY <3>1 DEF Rank
    <3> QED
      BY <2>2, <3>2, <3>3
  <2>3. CASE k \notin P
    <3>1. {j \in P : j <= k} = before
      <4>1. ASSUME NEW j \in P
            PROVE  j <= k <=> j <= k - 1
        <5>1. j # k /\ j \in Int
          BY <1>0, <2>3
        <5> QED
          BY <5>1
      <4> QED
        BY <4>1
    <3>2. Cardinality(before) \in Nat
      BY <2>1, FS_CardinalityType
    <3>3. Rank(P, k) = Cardinality(before) /\ Rank(P, k - 1) = Cardinality(before)
      BY <3>1 DEF Rank
    <3> QED
      BY <2>3, <3>2, <3>3
  <2> QED
    BY <2>2, <2>3
<1> QED
  BY <1>3, <1>4, <1>5, <1>6

\* They grow, with each member on the way.
LEMMA RankGrows ==
    ASSUME NEW N \in Nat, NEW P \in SUBSET (1 .. N), NEW i \in Nat, NEW j \in Nat, i <= j
    PROVE  /\ Rank(P, i) <= Rank(P, j)
           /\ (\E k \in P : i < k /\ k <= j) => Rank(P, i) < Rank(P, j)
           /\ (\A k \in P : i < k => ~(k <= j)) => Rank(P, i) = Rank(P, j)
<1> DEFINE S == {m \in Nat : i <= m =>
                    /\ Rank(P, i) <= Rank(P, m)
                    /\ (\E k \in P : i < k /\ k <= m) => Rank(P, i) < Rank(P, m)
                    /\ (\A k \in P : i < k => ~(k <= m)) => Rank(P, i) = Rank(P, m)}
<1>0. \A k \in P : k \in Int /\ 1 <= k
  OBVIOUS
<1>1. Rank(P, i) \in Nat
  BY RankSteps
<1>2. i \in S
  <2>1. \A k \in P : ~(i < k /\ k <= i)
    BY <1>0
  <2> QED
    BY <1>1, <2>1
<1>3. 0 \in S
  <2>1. CASE i = 0
    BY <1>2, <2>1
  <2>2. CASE i # 0
    BY <2>2
  <2> QED
    BY <2>1, <2>2
<1>4. ASSUME NEW m \in Nat, m \in S
      PROVE  m + 1 \in S
  <2>1. CASE i = m + 1
    BY <1>2, <2>1
  <2>2. CASE i > m + 1
    BY <2>2
  <2>3. CASE i <= m
    <3>1. /\ Rank(P, i) <= Rank(P, m)
          /\ (\E k \in P : i < k /\ k <= m) => Rank(P, i) < Rank(P, m)
          /\ (\A k \in P : i < k => ~(k <= m)) => Rank(P, i) = Rank(P, m)
      BY <1>4, <2>3
    <3> DEFINE l == m + 1
    <3>2. l \in Nat /\ l >= 1 /\ l - 1 = m /\ i < l
      BY <2>3
    <3> HIDE DEF l
    <3>3. /\ Rank(P, l) = Rank(P, m) + (IF l \in P THEN 1 ELSE 0)
          /\ Rank(P, l) \in Nat /\ Rank(P, m) \in Nat
      BY <3>2, RankSteps
    <3>4. \A k \in P : k <= l <=> (k <= m \/ k = l)
      BY <1>0, <3>2
    <3>5. /\ Rank(P, i) <= Rank(P, l)
          /\ (\E k \in P : i < k /\ k <= l) => Rank(P, i) < Rank(P, l)
          /\ (\A k \in P : i < k => ~(k <= l)) => Rank(P, i) = Rank(P, l)
      <4>1. CASE l \in P
        BY <1>1, <3>1, <3>2, <3>3, <3>4, <4>1
      <4>2. CASE l \notin P
        BY <1>1, <3>1, <3>2, <3>3, <3>4, <4>2
      <4> QED
        BY <4>1, <4>2
    <3> QED
      BY <3>5 DEF l
  <2> QED
    BY <2>1, <2>2, <2>3
<1>5. \A m \in Nat : m \in S
  <2> HIDE DEF S
  <2> QED
    BY <1>3, <1>4, SetInduction
<1> QED
  BY <1>5

\* The least and the greatest number of an interval.
LEMMA MinMaxOfInterval ==
    ASSUME NEW i \in Int, NEW j \in Int, i <= j
    PROVE  Min(i .. j) = i /\ Max(i .. j) = j
<1>1. i \in i .. j /\ \A y \in i .. j : i <= y
  OBVIOUS
<1>2. j \in i .. j /\ \A y \in i .. j : j >= y
  OBVIOUS
<1>3. \A x \in i .. j : (\A y \in i .. j : x <= y) => x = i
  BY <1>1
<1>4. \A x \in i .. j : (\A y \in i .. j : x >= y) => x = j
  BY <1>2
<1>5. Min(i .. j) \in i .. j /\ \A y \in i .. j : Min(i .. j) <= y
  BY <1>1 DEF Min
<1>6. Max(i .. j) \in i .. j /\ \A y \in i .. j : Max(i .. j) >= y
  BY <1>2 DEF Max
<1> QED
  BY <1>3, <1>4, <1>5, <1>6

\* The least member of a set of numbers.
LEMMA MinIsLeast ==
    ASSUME NEW S \in SUBSET Nat, S # {}
    PROVE  Min(S) \in S /\ \A m \in S : Min(S) <= m
<1>1. PICK n \in S : \A m \in S : n <= m
  BY Least
<1> QED
  BY <1>1 DEF Min

-----------------------------------------------------------------------------
(* Lists.                                                                  *)

\* A stretch without commas, between two commas or the ends, is a field.
LEMMA FieldIs ==
    ASSUME NEW A, NEW s \in Seq(A),
           NEW first \in Nat, NEW last \in Nat, 1 <= first, first <= last + 1, last <= Len(s),
           first = 1 \/ s[first - 1] = Comma,
           last = Len(s) \/ s[last + 1] = Comma,
           \A k \in first .. last : s[k] # Comma
    PROVE  Field(s, Rank(Places(s, Comma), first - 1) + 1) = SubSeq(s, first, last)
<1> DEFINE P == Places(s, Comma)
           n == Rank(P, first - 1) + 1
           behind == {k \in 1 .. Len(s) + 1 : Rank(P, k - 1) = n - 1}
<1>1. Len(s) \in Nat /\ DOMAIN s = 1 .. Len(s) /\ P \in SUBSET (1 .. Len(s))
  BY DEF Places
<1>2. first - 1 \in Nat /\ Len(s) \in Nat
  OBVIOUS
<1>3. \A k \in Nat : Rank(P, k) \in Nat
  BY <1>1, RankSteps
<1>4. \A k \in 1 .. Len(s) : k \in P <=> s[k] = Comma
  BY <1>1 DEF Places
<1>4a. \A k \in P : k \in 1 .. Len(s)
  BY <1>1 DEF Places
<1> HIDE DEF P
<1>5. n - 1 = Rank(P, first - 1)
  BY <1>2, <1>3
<1>6. ASSUME NEW k \in 1 .. Len(s) + 1
      PROVE  Rank(P, k - 1) = n - 1 <=> k \in first .. last + 1
  <2>0. k \in Int /\ k - 1 \in Nat /\ 1 <= k
    BY <1>2
  <2>1. CASE k < first
    <3>1. first - 1 \in P /\ k - 1 < first - 1 /\ k - 1 <= first - 1
      BY <1>2, <1>4, <2>0, <2>1
    <3>2. Rank(P, k - 1) < Rank(P, first - 1)
      <4>1. \E j \in P : k - 1 < j /\ j <= first - 1
        BY <1>2, <3>1
      <4> QED
        BY <1>1, <1>2, <2>0, <3>1, <4>1, RankGrows
    <3> QED
      BY <1>2, <1>3, <1>5, <2>0, <2>1, <3>2
  <2>2. CASE first <= k /\ k <= last + 1
    <3>1. \A j \in P : first - 1 < j => ~(j <= k - 1)
      <4> SUFFICES ASSUME NEW j \in P, first - 1 < j, j <= k - 1
                   PROVE  FALSE
        OBVIOUS
      <4>0. j \in 1 .. Len(s)
        BY <1>4a
      <4>1. j \in 1 .. Len(s) /\ j \in Int
        BY <1>2, <4>0
      <4>2. j \in first .. last
        BY <2>0, <2>2, <4>1
      <4> QED
        BY <1>4, <4>1, <4>2
    <3>2. first - 1 <= k - 1
      BY <2>0, <2>2
    <3>3. Rank(P, first - 1) = Rank(P, k - 1)
      BY <1>1, <1>2, <2>0, <3>1, <3>2, RankGrows
    <3> QED
      BY <1>5, <2>0, <2>2, <3>3
  <2>3. CASE last + 1 < k
    <3>1. last + 1 \in P /\ first - 1 < last + 1 /\ last + 1 <= k - 1 /\ first - 1 <= k - 1
      BY <1>2, <1>4, <2>0, <2>3
    <3>2. Rank(P, first - 1) < Rank(P, k - 1)
      BY <1>1, <1>2, <2>0, <3>1, RankGrows
    <3> QED
      BY <1>2, <1>3, <1>5, <2>0, <2>3, <3>2
  <2> QED
    BY <2>0, <2>1, <2>2, <2>3
<1>7. behind = first .. last + 1
  <2>1. \A k \in first .. last + 1 : k \in 1 .. Len(s) + 1
    BY <1>2
  <2> HIDE DEF n
  <2> QED
    BY <1>6, <2>1
<1>8. Min(behind) = first /\ Max(behind) = last + 1
  <2> HIDE DEF behind
  <2>1. last + 1 \in Int
    BY <1>2
  <2> QED
    BY <1>2, <1>7, <2>1, MinMaxOfInterval
<1>9. Field(s, n) = SubSeq(s, Min(behind), Max(behind) - 1)
  BY DEF Field, P
<1>10. (last + 1) - 1 = last
  BY <1>2
<1> QED
  BY <1>8, <1>9, <1>10 DEF P

\* What has been read of a text of A: the parts that have ended and the one that has not.
Reads(A) == [tokens : Seq(Seq(A)), token : Seq(A)]

\* A character is read into the parts.
LEMMA ReadCharType ==
    ASSUME NEW A, NEW read \in Reads(A), NEW c \in A, NEW d
    PROVE  /\ ReadChar(read, c, d) \in Reads(A)
           /\ c = d => /\ ReadChar(read, c, d).tokens = Append(read.tokens, read.token)
                       /\ ReadChar(read, c, d).token = <<>>
           /\ c # d => /\ ReadChar(read, c, d).tokens = read.tokens
                       /\ ReadChar(read, c, d).token = Append(read.token, c)
<1>1. read.tokens \in Seq(Seq(A)) /\ read.token \in Seq(A)
  BY DEF Reads
<1>2. Append(read.tokens, read.token) \in Seq(Seq(A)) /\ <<>> \in Seq(A)
  <2>1. ASSUME NEW S, NEW t \in Seq(S), NEW x \in S
        PROVE  Append(t, x) \in Seq(S)
    OBVIOUS
  <2> QED
    BY <1>1, <2>1
<1>3. Append(read.token, c) \in Seq(A)
  BY <1>1
<1>4. CASE c = d
  <2>1. ReadChar(read, c, d) = [tokens |-> Append(read.tokens, read.token), token |-> <<>>]
    BY <1>4 DEF ReadChar
  <2> QED
    BY <1>2, <1>4, <2>1 DEF Reads
<1>5. CASE c # d
  <2>1. ReadChar(read, c, d) = [read EXCEPT !.token = Append(read.token, c)]
    BY <1>5 DEF ReadChar
  <2>2. read = [tokens |-> read.tokens, token |-> read.token]
    BY DEF Reads
  <2>3. ReadChar(read, c, d) = [tokens |-> read.tokens, token |-> Append(read.token, c)]
    BY <2>1, <2>2
  <2> QED
    BY <1>1, <1>3, <1>5, <2>3 DEF Reads
<1> QED
  BY <1>4, <1>5

\* r is what split() has read of s after each character.
IsReading(A, r, s, d) ==
    /\ r \in [0 .. Len(s) -> Reads(A)]
    /\ r[0] = [tokens |-> <<>>, token |-> <<>>]
    /\ \A n \in 1 .. Len(s) : r[n] = ReadChar(r[n - 1], s[n], d)
    /\ split(s, d) = AppendNonEmpty(r[Len(s)].tokens, r[Len(s)].token)

\* split() reads every text from left to right.
LEMMA SplitSteps ==
    ASSUME NEW A, NEW s \in Seq(A), NEW d
    PROVE  \E r : IsReading(A, r, s, d)
<1> DEFINE N == Len(s)
           a == [tokens |-> <<>>, token |-> <<>>]
           B == Reads(A)
           F(f) == [n \in 0 .. N |-> IF n = 0 THEN a ELSE ReadChar(f[n - 1], s[n], d)]
           T == [n \in 1 .. N |-> [x \in B |-> ReadChar(x, s[n], d)]]
           q == CHOOSE f : f = F(f)
<1>1. N \in Nat /\ a \in B
  BY DEF Reads
<1>2. \A n \in 1 .. N, x \in B : ReadChar(x, s[n], d) \in B
  BY ReadCharType
<1>3. T \in [1 .. N -> [B -> B]]
  BY <1>2
<1>4. PICK r \in [0 .. N -> B] : r[0] = a /\ \A n \in 1 .. N : r[n] = T[n][r[n - 1]]
  <2> HIDE DEF T, N, a, B
  <2> QED
    BY <1>1, <1>3, Recursion
<1>5. r = F(r)
  <2>1. ASSUME NEW n \in 1 .. N
        PROVE  r[n] = ReadChar(r[n - 1], s[n], d)
    <3>1. r[n - 1] \in B
      BY <1>1
    <3> HIDE DEF B
    <3> QED
      BY <1>4, <3>1
  <2> HIDE DEF a, N, B
  <2> QED
    BY <1>1, <1>4, <2>1
<1>6. q = F(q)
  BY <1>5
<1>7. q[0] = a /\ \A n \in 1 .. N : q[n] = ReadChar(q[n - 1], s[n], d)
  <2> HIDE DEF q, a
  <2> QED
    BY <1>1, <1>6
<1>8. \A n \in 0 .. N : q[n] \in B
  <2>1. q[0] \in B /\ \A n \in 1 .. N : q[n - 1] \in B => q[n] \in B
    <3> HIDE DEF q, a, B
    <3> QED
      BY <1>1, <1>2, <1>7
  <2> HIDE DEF q, N, B
  <2> QED
    BY <1>1, <2>1, Values
<1>9. q \in [0 .. N -> B]
  <2> HIDE DEF q, B
  <2> QED
    BY <1>6, <1>8
<1>10. split(s, d) = AppendNonEmpty(q[N].tokens, q[N].token)
  BY DEF split
<1> HIDE DEF q
<1> QED
  BY <1>7, <1>9, <1>10 DEF IsReading

\* A stretch of a text, as a text.
LEMMA Stretch ==
    ASSUME NEW A, NEW s \in Seq(A), NEW i \in Nat, NEW j \in Nat,
           1 <= i, i <= j + 1, j <= Len(s)
    PROVE  /\ SubSeq(s, i, j) \in Seq(A)
           /\ Len(SubSeq(s, i, j)) = j - i + 1
           /\ \A k \in 1 .. j - i + 1 : SubSeq(s, i, j)[k] = s[i + k - 1]
           /\ i = j + 1 => SubSeq(s, i, j) = <<>>
           /\ j < Len(s) => Append(SubSeq(s, i, j), s[j + 1]) = SubSeq(s, i, j + 1)
<1>1. \A k \in i .. j : s[k] \in A
  OBVIOUS
<1>2. /\ SubSeq(s, i, j) \in Seq(A)
      /\ Len(SubSeq(s, i, j)) = IF i <= j THEN j - i + 1 ELSE 0
      /\ \A k \in 1 .. j - i + 1 : SubSeq(s, i, j)[k] = s[i + k - 1]
  BY <1>1, SubSeqProperties
<1>3. Len(SubSeq(s, i, j)) = j - i + 1
  BY <1>2
<1>4. i = j + 1 => SubSeq(s, i, j) = <<>>
  BY <1>2
<1>5. ASSUME j < Len(s)
      PROVE  Append(SubSeq(s, i, j), s[j + 1]) = SubSeq(s, i, j + 1)
  <2>1. /\ i \in 1 .. Len(s) /\ j + 1 \in i .. Len(s) /\ (j + 1) - 1 = j /\ s[j + 1] \in A
        /\ Len(s) \in Nat
    BY <1>5
  <2>2. SubSeq(s, i, j + 1) = SubSeq(s, i, (j + 1) - 1) \o <<s[j + 1]>>
    BY <2>1, SubSeqRecursiveSecond
  <2>3. Append(SubSeq(s, i, j), s[j + 1]) = SubSeq(s, i, j) \o <<s[j + 1]>>
    BY <1>2, <2>1, AppendIsConcat
  <2> QED
    BY <2>1, <2>2, <2>3
<1> QED
  BY <1>2, <1>3, <1>4, <1>5

\* Halfway through a list, at n: the token reaches from the last comma, at e, to n,
\* and there is a field for each comma that has been met.
Halfway(s, read, n) ==
    \E e \in 0 .. n :
        /\ read.token = SubSeq(s, e + 1, n)
        /\ e = 0 \/ s[e] = Comma
        /\ \A k \in e + 1 .. n : s[k] # Comma
        /\ Len(read.tokens) = Rank(Places(s, Comma), e)
        /\ \A m \in 1 .. Len(read.tokens) : read.tokens[m] = Field(s, m)

\* A further character keeps the account of fields.
LEMMA HalfwayStep ==
    ASSUME NEW A, NEW s \in Seq(A), NEW read \in Reads(A), NEW n \in Nat, n < Len(s),
           Halfway(s, read, n)
    PROVE  Halfway(s, ReadChar(read, s[n + 1], Comma), n + 1)
<1> DEFINE next == ReadChar(read, s[n + 1], Comma)
           P == Places(s, Comma)
<1>1. PICK e \in 0 .. n :
          /\ read.token = SubSeq(s, e + 1, n)
          /\ e = 0 \/ s[e] = Comma
          /\ \A k \in e + 1 .. n : s[k] # Comma
          /\ Len(read.tokens) = Rank(P, e)
          /\ \A m \in 1 .. Len(read.tokens) : read.tokens[m] = Field(s, m)
  BY DEF Halfway
<1>2. /\ e \in Nat /\ e <= n /\ n + 1 \in 1 .. Len(s) /\ s[n + 1] \in A /\ Len(s) \in Nat
      /\ P \in SUBSET (1 .. Len(s))
  BY DEF Places
<1>3. n + 1 \in P <=> s[n + 1] = Comma
  BY <1>2 DEF Places
<1>4. read.tokens \in Seq(Seq(A)) /\ read.token \in Seq(A) /\ Len(read.tokens) \in Nat
  BY DEF Reads
<1>5. CASE s[n + 1] = Comma
  <2>1. next.tokens = Append(read.tokens, read.token) /\ next.token = <<>>
    BY <1>2, <1>5, ReadCharType
  <2>2. SubSeq(s, (n + 1) + 1, n + 1) = <<>>
    BY SubSeqEmpty
  <2>3. Field(s, Rank(P, (e + 1) - 1) + 1) = SubSeq(s, e + 1, n)
    <3> DEFINE first == e + 1
    <3>1. /\ first \in Nat /\ 1 <= first /\ first <= n + 1 /\ n <= Len(s)
          /\ first = 1 \/ s[first - 1] = Comma
          /\ n = Len(s) \/ s[n + 1] = Comma
          /\ \A k \in first .. n : s[k] # Comma
      BY <1>1, <1>2, <1>5
    <3> HIDE DEF first, P
    <3>2. Field(s, Rank(Places(s, Comma), first - 1) + 1) = SubSeq(s, first, n)
      BY <3>1, FieldIs
    <3> QED
      BY <3>2 DEF first, P
  <2>4. (e + 1) - 1 = e
    BY <1>2
  <2>5. \A m \in 1 .. Len(next.tokens) : next.tokens[m] = Field(s, m)
    <3> SUFFICES ASSUME NEW m \in 1 .. Len(next.tokens)
                 PROVE  next.tokens[m] = Field(s, m)
      OBVIOUS
    <3> HIDE DEF next
    <3>1. /\ Len(next.tokens) = Len(read.tokens) + 1
          /\ \A k \in 1 .. Len(read.tokens) : next.tokens[k] = read.tokens[k]
          /\ next.tokens[Len(read.tokens) + 1] = read.token
      BY <1>4, <2>1, AppendProperties
    <3>2. CASE m = Len(read.tokens) + 1
      BY <1>1, <2>3, <2>4, <3>1, <3>2
    <3>3. CASE m \in 1 .. Len(read.tokens)
      BY <1>1, <3>1, <3>3
    <3> QED
      BY <1>4, <3>1, <3>2, <3>3
  <2>6. Len(next.tokens) = Rank(P, n + 1)
    <3>1. Rank(P, n + 1) = Rank(P, n) + 1
      <4>1. (n + 1) - 1 = n /\ n + 1 >= 1 /\ n + 1 \in Nat
        OBVIOUS
      <4> QED
        BY <1>2, <1>3, <1>5, <4>1, RankSteps
    <3>2. Rank(P, e) = Rank(P, n)
      <4>1. \A k \in P : e < k => ~(k <= n)
        <5> SUFFICES ASSUME NEW k \in P, e < k, k <= n
                     PROVE  FALSE
          OBVIOUS
        <5>1. k \in 1 .. Len(s) /\ s[k] = Comma
          BY <1>2 DEF Places
        <5>2. k \in e + 1 .. n
          BY <1>2, <5>1
        <5> QED
          BY <1>1, <5>1, <5>2
      <4> HIDE DEF P
      <4> QED
        BY <1>2, <4>1, RankGrows
    <3>3. Len(next.tokens) = Len(read.tokens) + 1
      BY <1>4, <2>1, AppendProperties
    <3> QED
      BY <1>1, <3>1, <3>2, <3>3
  <2> DEFINE f == n + 1
  <2>7. /\ f \in 0 .. n + 1 /\ next.token = SubSeq(s, f + 1, n + 1) /\ s[f] = Comma
        /\ f + 1 .. n + 1 = {}
    BY <1>5, <2>1, <2>2
  <2> QED
    BY <2>5, <2>6, <2>7 DEF Halfway
<1>6. CASE s[n + 1] # Comma
  <2>1. next.tokens = read.tokens /\ next.token = Append(read.token, s[n + 1])
    BY <1>2, <1>6, ReadCharType
  <2>2. next.token = SubSeq(s, e + 1, n + 1)
    <3>1. e + 1 \in Nat /\ 1 <= e + 1 /\ e + 1 <= n + 1 /\ n <= Len(s)
      BY <1>2
    <3> QED
      BY <1>1, <2>1, <3>1, Stretch
  <2>3. e \in 0 .. n + 1 /\ \A k \in e + 1 .. n + 1 : s[k] # Comma
    <3>1. \A k \in e + 1 .. n + 1 : k = n + 1 \/ k \in e + 1 .. n
      BY <1>2
    <3> QED
      BY <1>1, <1>2, <1>6, <3>1
  <2> QED
    BY <1>1, <2>1, <2>2, <2>3 DEF Halfway
<1> QED
  BY <1>5, <1>6

\* A list is split into its fields, but for an empty one behind a last comma.
LEMMA SplitIntoFields ==
    ASSUME NEW A, NEW s \in Seq(A)
    PROVE  /\ split(s, Comma) \in Seq(Seq(A))
           /\ Fields(s) \in Nat
           /\ Len(split(s, Comma))
                  = Fields(s) - (IF s = <<>> \/ s[Len(s)] = Comma THEN 1 ELSE 0)
           /\ \A n \in 1 .. Len(split(s, Comma)) : split(s, Comma)[n] = Field(s, n)
           /\ s = <<>> \/ s[Len(s)] = Comma => Field(s, Fields(s)) = <<>>
<1> DEFINE N == Len(s)
           P == Places(s, Comma)
<1>1. N \in Nat /\ P \in SUBSET (1 .. N) /\ Rank(P, N) = Cardinality(P)
  <2>1. N \in Nat /\ P \in SUBSET (1 .. N)
    BY DEF Places
  <2> QED
    BY <2>1, RankSteps
<1>2. PICK r : IsReading(A, r, s, Comma)
  BY SplitSteps
<1>3. /\ r \in [0 .. N -> Reads(A)]
      /\ r[0] = [tokens |-> <<>>, token |-> <<>>]
      /\ \A n \in 1 .. N : r[n] = ReadChar(r[n - 1], s[n], Comma)
      /\ split(s, Comma) = AppendNonEmpty(r[N].tokens, r[N].token)
  BY <1>2 DEF IsReading
<1> DEFINE S == {n \in 0 .. N : Halfway(s, r[n], n)}
<1>4. 0 \in S
  <2>1. /\ SubSeq(s, 0 + 1, 0) = <<>> /\ Rank(P, 0) = 0
        /\ r[0].tokens = <<>> /\ r[0].token = <<>>
    BY <1>1, <1>3, RankSteps, SubSeqEmpty
  <2>2. 0 \in 0 .. 0 /\ 0 + 1 .. 0 = {} /\ 1 .. Len(<<>>) = {}
    OBVIOUS
  <2>3. Halfway(s, r[0], 0)
    BY <2>1, <2>2 DEF Halfway
  <2> QED
    BY <1>1, <2>3
<1>5. ASSUME NEW n \in 1 .. N, n - 1 \in S
      PROVE  n \in S
  <2> DEFINE m == n - 1
  <2>1. m \in Nat /\ m < Len(s) /\ n = m + 1 /\ m \in 0 .. N
    BY <1>1
  <2>2. Halfway(s, r[m], m) /\ r[m] \in Reads(A) /\ r[n] = ReadChar(r[m], s[n], Comma)
    BY <1>3, <1>5, <2>1
  <2> HIDE DEF m
  <2>3. Halfway(s, r[n], n)
    BY <2>1, <2>2, HalfwayStep
  <2> QED
    BY <2>3
<1>6. N \in 0 .. N /\ Halfway(s, r[N], N)
  <2>1. \A n \in 0 .. N : n \in S
    <3> HIDE DEF S, N
    <3> QED
      BY <1>1, <1>4, <1>5, UpTo
  <2> QED
    BY <1>1, <2>1
<1> DEFINE tokens == r[N].tokens
           token == r[N].token
<1>7. tokens \in Seq(Seq(A)) /\ token \in Seq(A) /\ Len(tokens) \in Nat
  <2>1. r[N] \in Reads(A)
    BY <1>3, <1>6
  <2>2. r[N].tokens \in Seq(Seq(A)) /\ r[N].token \in Seq(A)
    BY <2>1 DEF Reads
  <2> QED
    BY <2>2
<1>8. PICK e \in 0 .. N :
          /\ token = SubSeq(s, e + 1, N)
          /\ e = 0 \/ s[e] = Comma
          /\ \A k \in e + 1 .. N : s[k] # Comma
          /\ Len(tokens) = Rank(P, e)
          /\ \A m \in 1 .. Len(tokens) : tokens[m] = Field(s, m)
  BY <1>6 DEF Halfway
<1>9. Rank(P, e) = Cardinality(P)
  <2>1. \A k \in P : e < k => ~(k <= N)
    <3> SUFFICES ASSUME NEW k \in P, e < k, k <= N
                 PROVE  FALSE
      OBVIOUS
    <3>1. k \in 1 .. N /\ s[k] = Comma
      BY <1>1 DEF Places
    <3>2. k \in e + 1 .. N
      BY <1>1, <3>1
    <3> QED
      BY <1>8, <3>1, <3>2
  <2>2. e \in Nat /\ e <= N
    BY <1>1
  <2> HIDE DEF P, N
  <2> QED
    BY <1>1, <2>1, <2>2, RankGrows
<1>10. Fields(s) = Len(tokens) + 1
  BY <1>8, <1>9 DEF Fields
<1>11. Field(s, Len(tokens) + 1) = token
  <2> DEFINE first == e + 1
  <2>1. /\ first \in Nat /\ 1 <= first /\ first <= N + 1 /\ N <= Len(s) /\ N \in Nat
        /\ first = 1 \/ s[first - 1] = Comma
        /\ N = Len(s) \/ s[N + 1] = Comma
        /\ \A k \in first .. N : s[k] # Comma
        /\ first - 1 = e
    BY <1>1, <1>8
  <2> HIDE DEF first, P, N
  <2>2. Field(s, Rank(Places(s, Comma), first - 1) + 1) = SubSeq(s, first, N)
    BY <2>1, FieldIs
  <2> QED
    BY <1>8, <2>1, <2>2 DEF first, P
<1>12. token = <<>> <=> s = <<>> \/ s[Len(s)] = Comma
  <2>1. Len(token) = N - e
    <3>1. e + 1 \in Nat /\ 1 <= e + 1 /\ e + 1 <= N + 1 /\ N <= Len(s) /\ N \in Nat
      BY <1>1
    <3>2. Len(SubSeq(s, e + 1, N)) = N - (e + 1) + 1
      BY <3>1, Stretch
    <3> QED
      BY <1>1, <1>8, <3>2
  <2>2. CASE e = N
    <3>1. token = <<>>
      BY <1>1, <1>7, <2>1, <2>2
    <3>2. N = 0 => s = <<>>
      OBVIOUS
    <3> QED
      BY <1>8, <2>2, <3>1, <3>2
  <2>3. CASE e # N
    <3>1. N \in e + 1 .. N /\ N # 0 /\ N - e # 0
      BY <1>1, <2>3
    <3>2. token # <<>> /\ s # <<>>
      BY <2>1, <3>1
    <3> QED
      BY <1>8, <3>1, <3>2
  <2> QED
    BY <2>2, <2>3
<1>13. CASE token = <<>>
  <2>1. split(s, Comma) = tokens
    <3> HIDE DEF tokens, token
    <3>1. AppendNonEmpty(tokens, token) = tokens
      BY <1>13 DEF AppendNonEmpty
    <3> QED
      BY <1>3, <3>1 DEF tokens, token
  <2>2. Fields(s) \in Nat /\ Len(tokens) = Fields(s) - 1
    BY <1>7, <1>10
  <2> HIDE DEF tokens, token
  <2>3. Field(s, Fields(s)) = <<>>
    BY <1>10, <1>11, <1>13
  <2> QED
    BY <1>7, <1>8, <1>12, <1>13, <2>1, <2>2, <2>3
<1>14. CASE token # <<>>
  <2>1. split(s, Comma) = Append(tokens, token)
    <3> HIDE DEF tokens, token
    <3>1. AppendNonEmpty(tokens, token) = Append(tokens, token)
      BY <1>14 DEF AppendNonEmpty
    <3> QED
      BY <1>3, <3>1 DEF tokens, token
  <2> HIDE DEF tokens, token
  <2>2. /\ Append(tokens, token) \in Seq(Seq(A))
        /\ Len(Append(tokens, token)) = Len(tokens) + 1
        /\ \A k \in 1 .. Len(tokens) : Append(tokens, token)[k] = tokens[k]
        /\ Append(tokens, token)[Len(tokens) + 1] = token
    BY <1>7, AppendProperties
  <2>3. \A n \in 1 .. Len(tokens) + 1 : Append(tokens, token)[n] = Field(s, n)
    <3> SUFFICES ASSUME NEW n \in 1 .. Len(tokens) + 1
                 PROVE  Append(tokens, token)[n] = Field(s, n)
      OBVIOUS
    <3>1. n = Len(tokens) + 1 \/ n \in 1 .. Len(tokens)
      BY <1>7
    <3> QED
      BY <1>8, <1>11, <2>2, <3>1
  <2> QED
    BY <1>7, <1>10, <1>12, <1>14, <2>1, <2>2, <2>3
<1> QED
  BY <1>13, <1>14

-----------------------------------------------------------------------------
(* Words.                                                                  *)

\* What push_back() leaves, whether anything was pushed or not.
LEMMA AppendNonEmptyType ==
    ASSUME NEW B, NEW ss \in Seq(B), NEW x \in B
    PROVE  AppendNonEmpty(ss, x) \in Seq(B)
  BY DEF AppendNonEmpty

\* The members of a list that are kept, from left to right.
LEMMA NonEmptySteps ==
    ASSUME NEW B, NEW ss \in Seq(B)
    PROVE  \E q \in [0 .. Len(ss) -> Seq(B)] :
              /\ q[0] = <<>>
              /\ \A n \in 1 .. Len(ss) : q[n] = AppendNonEmpty(q[n - 1], ss[n])
              /\ NonEmpty(ss) = q[Len(ss)]
<1> DEFINE N == Len(ss)
           a == <<>>
           C == Seq(B)
           F(f) == [n \in 0 .. N |-> IF n = 0 THEN a ELSE AppendNonEmpty(f[n - 1], ss[n])]
           T == [n \in 1 .. N |-> [x \in C |-> AppendNonEmpty(x, ss[n])]]
           q == CHOOSE f : f = F(f)
<1>1. N \in Nat /\ a \in C
  OBVIOUS
<1>2. \A n \in 1 .. N, x \in C : AppendNonEmpty(x, ss[n]) \in C
  <2> SUFFICES ASSUME NEW n \in 1 .. N, NEW x \in C
               PROVE  AppendNonEmpty(x, ss[n]) \in C
    OBVIOUS
  <2>1. ss[n] \in B
    OBVIOUS
  <2> QED
    BY <2>1, AppendNonEmptyType
<1>3. T \in [1 .. N -> [C -> C]]
  BY <1>2
<1>4. PICK r \in [0 .. N -> C] : r[0] = a /\ \A n \in 1 .. N : r[n] = T[n][r[n - 1]]
  <2> HIDE DEF T, N, a, C
  <2> QED
    BY <1>1, <1>3, Recursion
<1>5. r = F(r)
  <2>1. ASSUME NEW n \in 1 .. N
        PROVE  r[n] = AppendNonEmpty(r[n - 1], ss[n])
    <3>1. r[n - 1] \in C
      BY <1>1
    <3> HIDE DEF C
    <3> QED
      BY <1>4, <3>1
  <2> HIDE DEF a, N, C
  <2> QED
    BY <1>1, <1>4, <2>1
<1>6. q = F(q)
  BY <1>5
<1>7. q[0] = a /\ \A n \in 1 .. N : q[n] = AppendNonEmpty(q[n - 1], ss[n])
  <2> HIDE DEF q, a
  <2> QED
    BY <1>1, <1>6
<1>8. \A n \in 0 .. N : q[n] \in C
  <2>1. q[0] \in C /\ \A n \in 1 .. N : q[n - 1] \in C => q[n] \in C
    <3> HIDE DEF q, a, C
    <3> QED
      BY <1>1, <1>2, <1>7
  <2> HIDE DEF q, N, C
  <2> QED
    BY <1>1, <2>1, Values
<1>9. q \in [0 .. N -> C]
  <2> HIDE DEF q, C
  <2> QED
    BY <1>6, <1>8
<1>10. NonEmpty(ss) = q[N]
  BY DEF NonEmpty
<1> HIDE DEF q
<1> QED
  BY <1>7, <1>9, <1>10

\* Of nothing nothing is kept.
LEMMA NonEmptyNothing == NonEmpty(<<>>) = <<>>
<1>1. PICK q \in [0 .. Len(<<>>) -> Seq({})] : q[0] = <<>> /\ NonEmpty(<<>>) = q[Len(<<>>)]
  <2>1. <<>> \in Seq({})
    OBVIOUS
  <2> QED
    BY <2>1, NonEmptySteps
<1> QED
  BY <1>1

\* A member more at the end.
LEMMA NonEmptyAppend ==
    ASSUME NEW B, NEW ss \in Seq(B), NEW x \in B
    PROVE  /\ NonEmpty(ss) \in Seq(B)
           /\ NonEmpty(Append(ss, x)) = AppendNonEmpty(NonEmpty(ss), x)
<1> DEFINE N == Len(ss)
           more == Append(ss, x)
<1>1. PICK q \in [0 .. N -> Seq(B)] :
          /\ q[0] = <<>>
          /\ \A n \in 1 .. N : q[n] = AppendNonEmpty(q[n - 1], ss[n])
          /\ NonEmpty(ss) = q[N]
  BY NonEmptySteps
<1>2. /\ N \in Nat /\ more \in Seq(B) /\ Len(more) = N + 1
      /\ \A n \in 1 .. N : more[n] = ss[n]
      /\ more[N + 1] = x
  BY AppendProperties
<1>3. PICK p \in [0 .. N + 1 -> Seq(B)] :
          /\ p[0] = <<>>
          /\ \A n \in 1 .. N + 1 : p[n] = AppendNonEmpty(p[n - 1], more[n])
          /\ NonEmpty(more) = p[N + 1]
  <2>1. more \in Seq(B) /\ Len(more) = N + 1
    BY <1>2
  <2>2. PICK p \in [0 .. Len(more) -> Seq(B)] :
            /\ p[0] = <<>>
            /\ \A n \in 1 .. Len(more) : p[n] = AppendNonEmpty(p[n - 1], more[n])
            /\ NonEmpty(more) = p[Len(more)]
    <3> HIDE DEF more
    <3> QED
      BY <2>1, NonEmptySteps
  <2> HIDE DEF more, N
  <2> QED
    BY <2>1, <2>2
<1> DEFINE S == {n \in 0 .. N : p[n] = q[n]}
<1>4. 0 \in S
  BY <1>1, <1>2, <1>3
<1>5. ASSUME NEW n \in 1 .. N, n - 1 \in S
      PROVE  n \in S
  <2>1. p[n] = AppendNonEmpty(p[n - 1], more[n]) /\ more[n] = ss[n]
    <3>1. n \in 1 .. N + 1
      BY <1>2
    <3> QED
      BY <1>2, <1>3, <3>1
  <2>2. q[n] = AppendNonEmpty(q[n - 1], ss[n])
    BY <1>1
  <2> QED
    BY <1>5, <2>1, <2>2
<1>6. \A n \in 0 .. N : n \in S
  <2> HIDE DEF S, N
  <2> QED
    BY <1>2, <1>4, <1>5, UpTo
<1>7. N \in 0 .. N /\ N + 1 \in 1 .. N + 1 /\ (N + 1) - 1 = N
  BY <1>2
<1>8. p[N] = q[N] /\ q[N] \in Seq(B)
  BY <1>6, <1>7
<1>9. p[N + 1] = AppendNonEmpty(p[N], more[N + 1])
  <2> HIDE DEF N, more
  <2> QED
    BY <1>3, <1>7
<1> QED
  BY <1>1, <1>2, <1>3, <1>8, <1>9

\* A member more at the front.
LEMMA NonEmptyCons ==
    ASSUME NEW B, NEW ss \in Seq(B), ss # <<>>, ss[1] # <<>>
    PROVE  NonEmpty(ss) = <<ss[1]>> \o NonEmpty(Tail(ss))
<1> DEFINE N == Len(ss)
           rest == Tail(ss)
           first == <<ss[1]>>
<1>1. PICK q \in [0 .. N -> Seq(B)] :
          /\ q[0] = <<>>
          /\ \A n \in 1 .. N : q[n] = AppendNonEmpty(q[n - 1], ss[n])
          /\ NonEmpty(ss) = q[N]
  BY NonEmptySteps
<1>2. /\ N \in Nat /\ N >= 1 /\ rest \in Seq(B) /\ Len(rest) = N - 1
      /\ \A n \in 1 .. N - 1 : rest[n] = ss[n + 1] /\ rest[n] \in B
      /\ ss[1] \in B /\ N - 1 \in Nat
  <2>1. N \in Nat /\ N >= 1
    OBVIOUS
  <2>2. /\ rest \in Seq(B) /\ Len(rest) = N - 1
        /\ \A n \in 1 .. Len(rest) : rest[n] = ss[n + 1]
    BY HeadTailProperties
  <2>3. ss[1] \in B /\ N - 1 \in Nat
    BY <2>1
  <2> HIDE DEF rest
  <2>4. \A n \in 1 .. N - 1 : rest[n] \in B
    BY <2>2
  <2> QED
    BY <2>1, <2>2, <2>3, <2>4
<1>3. PICK p \in [0 .. N - 1 -> Seq(B)] :
          /\ p[0] = <<>>
          /\ \A n \in 1 .. N - 1 : p[n] = AppendNonEmpty(p[n - 1], rest[n])
          /\ NonEmpty(rest) = p[N - 1]
  <2>1. rest \in Seq(B) /\ Len(rest) = N - 1
    BY <1>2
  <2>2. PICK p \in [0 .. Len(rest) -> Seq(B)] :
            /\ p[0] = <<>>
            /\ \A n \in 1 .. Len(rest) : p[n] = AppendNonEmpty(p[n - 1], rest[n])
            /\ NonEmpty(rest) = p[Len(rest)]
    <3> HIDE DEF rest
    <3> QED
      BY <2>1, NonEmptySteps
  <2> HIDE DEF rest, N
  <2> QED
    BY <2>1, <2>2
<1>4. first \in Seq(B)
  BY <1>2
<1> DEFINE S == {n \in 0 .. N - 1 : q[n + 1] = first \o p[n]}
<1> HIDE DEF N, rest, first
<1>5. 0 \in S
  <2>1. 1 \in 1 .. N /\ 1 - 1 = 0 /\ 0 \in 0 .. N - 1 /\ 0 + 1 = 1
    BY <1>2
  <2>2. q[1] = AppendNonEmpty(<<>>, ss[1])
    BY <1>1, <2>1
  <2>3. AppendNonEmpty(<<>>, ss[1]) = <<ss[1]>>
    BY DEF AppendNonEmpty
  <2>4. first \o <<>> = first
    BY <1>4
  <2> QED
    BY <1>3, <2>1, <2>2, <2>3, <2>4 DEF first
<1>6. ASSUME NEW n \in 1 .. N - 1, n - 1 \in S
      PROVE  n \in S
  <2>1. n + 1 \in 1 .. N /\ (n + 1) - 1 = n /\ n \in 0 .. N - 1 /\ n - 1 \in 0 .. N - 1 /\ (n - 1) + 1 = n
    BY <1>2
  <2>2. q[n + 1] = AppendNonEmpty(q[n], ss[n + 1])
    BY <1>1, <2>1
  <2>3. q[n] = first \o p[n - 1]
    BY <1>6, <2>1
  <2>4. p[n] = AppendNonEmpty(p[n - 1], ss[n + 1])
    BY <1>2, <1>3
  <2>5. p[n - 1] \in Seq(B) /\ ss[n + 1] \in B
    BY <1>2, <2>1
  <2>6. ASSUME NEW t \in Seq(B), NEW x \in B
        PROVE  AppendNonEmpty(first \o t, x) = first \o AppendNonEmpty(t, x)
    <3>1. CASE x = <<>>
      BY <3>1 DEF AppendNonEmpty
    <3>2. CASE x # <<>>
      <4>1. first \o t \in Seq(B) /\ <<x>> \in Seq(B)
        BY <1>4
      <4>2. /\ Append(first \o t, x) = (first \o t) \o <<x>>
            /\ Append(t, x) = t \o <<x>>
        BY <4>1, AppendIsConcat
      <4> DEFINE u == <<x>>
      <4>3. (first \o t) \o u = first \o (t \o u)
        <5>1. u \in Seq(B)
          BY <4>1
        <5> HIDE DEF u
        <5> QED
          BY <1>4, <5>1, ConcatAssociative
      <4> QED
        BY <3>2, <4>2, <4>3 DEF AppendNonEmpty
    <3> QED
      BY <3>1, <3>2
  <2> QED
    BY <2>1, <2>2, <2>3, <2>4, <2>5, <2>6
<1>7. \A n \in 0 .. N - 1 : n \in S
  <2> DEFINE M == N - 1
  <2>1. M \in Nat
    BY <1>2
  <2>2. 0 \in S /\ \A n \in 1 .. M : n - 1 \in S => n \in S
    BY <1>5, <1>6
  <2>3. \A n \in 0 .. M : n \in S
    <3> HIDE DEF S, M
    <3> QED
      BY <2>1, <2>2, UpTo
  <2> QED
    BY <2>3
<1>8. N - 1 \in 0 .. N - 1 /\ (N - 1) + 1 = N
  BY <1>2
<1>9. q[N] = first \o p[N - 1]
  BY <1>7, <1>8
<1> QED
  BY <1>1, <1>3, <1>9 DEF first, rest

\* Where words start.
LEMMA WordStartsType ==
    ASSUME NEW A, NEW s \in Seq(A)
    PROVE  /\ Len(s) \in Nat
           /\ WordStarts(s) \in SUBSET (1 .. Len(s))
           /\ \A k \in 1 .. Len(s) : k \in WordStarts(s) <=> s[k] # Space /\ (k = 1 \/ s[k - 1] = Space)
           /\ \A k \in WordStarts(s) : k \in Nat /\ 1 <= k /\ k <= Len(s) /\ s[k] # Space
  BY DEF WordStarts

\* A word reaches from its start to the next space.
LEMMA WordIs ==
    ASSUME NEW A, NEW s \in Seq(A), NEW first \in Nat, NEW last \in Nat,
           1 <= first, first <= last, last <= Len(s),
           last = Len(s) \/ s[last + 1] = Space,
           \A k \in first .. last : s[k] # Space
    PROVE  WordAt(s, first) = SubSeq(s, first, last)
<1> DEFINE ends == {j \in first .. Len(s) + 1 : j = Len(s) + 1 \/ s[j] = Space}
<1>1. Len(s) \in Nat
  OBVIOUS
<1>2. last + 1 \in ends
  BY <1>1
<1>3. \A j \in ends : last + 1 <= j
  <2> SUFFICES ASSUME NEW j \in ends, ~(last + 1 <= j)
               PROVE  FALSE
    OBVIOUS
  <2>1. j \in Int /\ first <= j /\ (j = Len(s) + 1 \/ s[j] = Space)
    BY <1>1
  <2>2. j \in first .. last
    BY <2>1
  <2> QED
    BY <1>1, <2>1, <2>2
<1>4. ends \in SUBSET Nat
  BY <1>1
<1>5. Min(ends) = last + 1
  <2> HIDE DEF ends
  <2>1. Min(ends) \in ends /\ Min(ends) <= last + 1 /\ last + 1 <= Min(ends)
    BY <1>2, <1>3, <1>4, MinIsLeast
  <2>2. Min(ends) \in Nat
    BY <1>4, <2>1
  <2> QED
    BY <2>1, <2>2
<1>6. WordAt(s, first) = SubSeq(s, first, Min(ends) - 1)
  BY DEF WordAt
<1>7. (last + 1) - 1 = last
  OBVIOUS
<1> QED
  BY <1>5, <1>6, <1>7

\* The words that start up to n, and no others, are in ws, in order.
HasWords(s, ws, n) ==
    /\ Len(ws) = Rank(WordStarts(s), n)
    /\ \A k \in WordStarts(s) : k <= n => ws[Rank(WordStarts(s), k)] = WordAt(s, k)

\* Halfway through a line, at n: the token reaches from the last space, at e, to n,
\* and the words before e have been read.
InLine(s, read, n) ==
    \E e \in 0 .. n :
        /\ read.token = SubSeq(s, e + 1, n)
        /\ e = 0 \/ s[e] = Space
        /\ \A k \in e + 1 .. n : s[k] # Space
        /\ HasWords(s, NonEmpty(read.tokens), e)
        /\ e = 0 <=> read.tokens = <<>>
        /\ s[1] # Space /\ read.tokens # <<>> => read.tokens[1] # <<>>

\* At a space or the end of the line the token is the next word, if it is one.
LEMMA WordEnds ==
    ASSUME NEW A, NEW s \in Seq(A), NEW ws \in Seq(Seq(A)), NEW n \in Nat, n <= Len(s),
           n = Len(s) \/ s[n + 1] = Space,
           NEW e \in 0 .. n, e = 0 \/ s[e] = Space,
           \A k \in e + 1 .. n : s[k] # Space,
           HasWords(s, ws, e)
    PROVE  HasWords(s, AppendNonEmpty(ws, SubSeq(s, e + 1, n)), n)
<1> DEFINE W == WordStarts(s)
           token == SubSeq(s, e + 1, n)
           first == e + 1
<1>1. /\ Len(s) \in Nat /\ e \in Nat /\ e <= n /\ W \in SUBSET (1 .. Len(s))
      /\ \A k \in 1 .. Len(s) : k \in W <=> s[k] # Space /\ (k = 1 \/ s[k - 1] = Space)
      /\ \A k \in W : k \in Nat /\ 1 <= k /\ k <= Len(s) /\ s[k] # Space
  BY WordStartsType
<1>2. \A k \in Nat : Rank(W, k) \in Nat
  BY <1>1, RankSteps
<1>3. Len(ws) = Rank(W, e) /\ \A k \in W : k <= e => ws[Rank(W, k)] = WordAt(s, k)
  BY DEF HasWords
<1>4. \A k \in W : k <= n => k <= e \/ k = first
  <2> SUFFICES ASSUME NEW k \in W, k <= n, ~(k <= e), k # first
               PROVE  FALSE
    OBVIOUS
  <2>1. k \in Nat /\ k - 1 \in e + 1 .. n /\ k # 1 /\ k \in 1 .. Len(s)
    BY <1>1
  <2> QED
    BY <1>1, <2>1
<1>5. token \in Seq(A) /\ Len(token) = n - e
  <2>1. first \in Nat /\ 1 <= first /\ first <= n + 1
    BY <1>1
  <2>2. SubSeq(s, first, n) \in Seq(A) /\ Len(SubSeq(s, first, n)) = n - first + 1
    <3> HIDE DEF first
    <3> QED
      BY <2>1, Stretch
  <2> QED
    BY <1>1, <2>2
<1>6. CASE e = n
  <2>1. token = <<>>
    BY <1>5, <1>6
  <2>2. AppendNonEmpty(ws, token) = ws
    BY <2>1 DEF AppendNonEmpty
  <2> QED
    BY <1>6, <2>2
<1>7. CASE e # n
  <2>1. e < n /\ first \in Nat /\ first \in 1 .. Len(s) /\ first \in e + 1 .. n /\ first - 1 = e
    BY <1>1, <1>7
  <2>2. first \in W
    BY <1>1, <2>1
  <2>3. token # <<>>
    <3>1. Len(token) # 0
      BY <1>1, <1>5, <2>1
    <3> HIDE DEF token
    <3> QED
      BY <3>1
  <2>4. AppendNonEmpty(ws, token) = Append(ws, token)
    BY <2>3 DEF AppendNonEmpty
  <2>5. WordAt(s, first) = token
    <3>1. 1 <= first /\ first <= n /\ \A k \in first .. n : s[k] # Space
      BY <2>1
    <3>2. WordAt(s, first) = SubSeq(s, first, n)
      <4> HIDE DEF first
      <4> QED
        BY <2>1, <3>1, WordIs
    <3> QED
      BY <3>2
  <2> HIDE DEF first, token, W
  <2>6. Rank(W, first) = Rank(W, e) + 1
    BY <1>1, <2>1, <2>2, RankSteps
  <2>7. Rank(W, n) = Rank(W, first)
    <3>1. \A k \in W : first < k => ~(k <= n)
      BY <1>1, <1>4, <2>1
    <3>2. first <= n
      BY <2>1
    <3> QED
      BY <1>1, <2>1, <3>1, <3>2, RankGrows
  <2>8. /\ Len(Append(ws, token)) = Len(ws) + 1
        /\ \A k \in 1 .. Len(ws) : Append(ws, token)[k] = ws[k]
        /\ Append(ws, token)[Len(ws) + 1] = token
    BY <1>5, AppendProperties
  <2>9. ASSUME NEW k \in W, k <= n
        PROVE  Append(ws, token)[Rank(W, k)] = WordAt(s, k)
    <3>1. CASE k <= e
      <4>1. Rank(W, k) <= Rank(W, e)
        BY <1>1, <3>1, RankGrows
      <4>2. Rank(W, 0) < Rank(W, k)
        <5>1. k \in Nat /\ 0 < k /\ k <= k /\ 0 <= k
          BY <1>1
        <5>2. \E j \in W : 0 < j /\ j <= k
          BY <5>1
        <5> QED
          BY <1>1, <5>1, <5>2, RankGrows
      <4>3. Rank(W, k) \in Nat /\ Rank(W, 0) \in Nat /\ Rank(W, e) \in Nat
        BY <1>1, <1>2
      <4>4. Rank(W, k) \in 1 .. Len(ws)
        BY <1>3, <4>1, <4>2, <4>3
      <4> QED
        BY <1>3, <2>8, <3>1, <4>4
    <3>2. CASE k = first
      BY <1>3, <2>5, <2>6, <2>8, <3>2
    <3> QED
      BY <1>4, <2>9, <3>1, <3>2
  <2>10. HasWords(s, Append(ws, token), n)
    BY <1>3, <2>6, <2>7, <2>8, <2>9 DEF HasWords, W
  <2> QED
    BY <2>4, <2>10 DEF token
<1> QED
  BY <1>6, <1>7

\* A further character keeps the account of words.
LEMMA InLineStep ==
    ASSUME NEW A, NEW s \in Seq(A), NEW read \in Reads(A), NEW n \in Nat, n < Len(s),
           InLine(s, read, n)
    PROVE  InLine(s, ReadChar(read, s[n + 1], Space), n + 1)
<1> DEFINE next == ReadChar(read, s[n + 1], Space)
           W == WordStarts(s)
<1>1. PICK e \in 0 .. n :
          /\ read.token = SubSeq(s, e + 1, n)
          /\ e = 0 \/ s[e] = Space
          /\ \A k \in e + 1 .. n : s[k] # Space
          /\ HasWords(s, NonEmpty(read.tokens), e)
          /\ e = 0 <=> read.tokens = <<>>
          /\ s[1] # Space /\ read.tokens # <<>> => read.tokens[1] # <<>>
  BY DEF InLine
<1>2. /\ e \in Nat /\ e <= n /\ n + 1 \in 1 .. Len(s) /\ s[n + 1] \in A /\ Len(s) \in Nat
      /\ n <= Len(s)
  OBVIOUS
<1>3. /\ W \in SUBSET (1 .. Len(s))
      /\ \A k \in 1 .. Len(s) : k \in W <=> s[k] # Space /\ (k = 1 \/ s[k - 1] = Space)
      /\ \A k \in W : k \in Nat /\ 1 <= k /\ k <= Len(s) /\ s[k] # Space
  BY WordStartsType
<1>4. read.tokens \in Seq(Seq(A)) /\ read.token \in Seq(A)
  BY DEF Reads
<1>5. CASE s[n + 1] = Space
  <2>1. next.tokens = Append(read.tokens, read.token) /\ next.token = <<>>
    BY <1>2, <1>5, ReadCharType
  <2>2. SubSeq(s, (n + 1) + 1, n + 1) = <<>>
    BY SubSeqEmpty
  <2>3. /\ NonEmpty(read.tokens) \in Seq(Seq(A))
        /\ NonEmpty(next.tokens) = AppendNonEmpty(NonEmpty(read.tokens), read.token)
    BY <1>4, <2>1, NonEmptyAppend
  <2>4. HasWords(s, NonEmpty(next.tokens), n)
    BY <1>1, <1>2, <1>5, <2>3, WordEnds
  <2>5. Rank(W, n + 1) = Rank(W, n)
    <3>1. n + 1 \notin W /\ (n + 1) - 1 = n /\ n + 1 >= 1 /\ n + 1 \in Nat
      BY <1>3, <1>5
    <3>2. Rank(W, n) \in Nat
      BY <1>2, <1>3, RankSteps
    <3>3. Rank(W, n + 1) = Rank(W, (n + 1) - 1) + 0
      BY <1>2, <1>3, <3>1, RankSteps
    <3> QED
      BY <3>1, <3>2, <3>3
  <2>6. HasWords(s, NonEmpty(next.tokens), n + 1)
    <3>1. \A k \in W : k <= n + 1 => k <= n
      <4> SUFFICES ASSUME NEW k \in W, k <= n + 1, ~(k <= n)
                   PROVE  FALSE
        OBVIOUS
      <4>1. k = n + 1
        BY <1>3
      <4> QED
        BY <1>3, <1>5, <4>1
    <3> HIDE DEF next
    <3> QED
      BY <2>4, <2>5, <3>1 DEF HasWords
  <2>7. /\ next.tokens # <<>>
        /\ next.tokens[1] = IF read.tokens = <<>> THEN read.token ELSE read.tokens[1]
    <3>1. Append(read.tokens, read.token) # <<>>
      BY <1>4, AppendProperties
    <3>2. CASE read.tokens = <<>>
      BY <2>1, <3>1, <3>2
    <3>3. CASE read.tokens # <<>>
      <4>1. 1 \in 1 .. Len(read.tokens)
        BY <1>4, <3>3
      <4>2. Append(read.tokens, read.token)[1] = read.tokens[1]
        BY <1>4, <4>1, AppendProperties
      <4> QED
        BY <2>1, <3>1, <3>3, <4>2
    <3> QED
      BY <3>2, <3>3
  <2>8. s[1] # Space => next.tokens[1] # <<>>
    <3> SUFFICES ASSUME s[1] # Space, read.tokens = <<>>
                 PROVE  read.token # <<>>
      BY <1>1, <2>7
    <3>1. e = 0
      BY <1>1
    <3>2. n # 0
      BY <1>5
    <3>3. Len(SubSeq(s, 1, n)) = n - 1 + 1
      BY <1>2, <3>2, Stretch
    <3>4. read.token = SubSeq(s, 1, n) /\ Len(read.token) # 0
      BY <1>1, <3>1, <3>2, <3>3
    <3> QED
      BY <3>4
  <2> DEFINE f == n + 1
  <2>9. /\ f \in 0 .. n + 1 /\ next.token = SubSeq(s, f + 1, n + 1) /\ s[f] = Space /\ f # 0
        /\ f + 1 .. n + 1 = {}
    BY <1>5, <2>1, <2>2
  <2> QED
    BY <2>6, <2>7, <2>8, <2>9 DEF InLine
<1>6. CASE s[n + 1] # Space
  <2>1. next.tokens = read.tokens /\ next.token = Append(read.token, s[n + 1])
    BY <1>2, <1>6, ReadCharType
  <2>2. next.token = SubSeq(s, e + 1, n + 1)
    <3>1. e + 1 \in Nat /\ 1 <= e + 1 /\ e + 1 <= n + 1 /\ n <= Len(s)
      BY <1>2
    <3> QED
      BY <1>1, <2>1, <3>1, Stretch
  <2>3. e \in 0 .. n + 1 /\ \A k \in e + 1 .. n + 1 : s[k] # Space
    <3>1. \A k \in e + 1 .. n + 1 : k = n + 1 \/ k \in e + 1 .. n
      BY <1>2
    <3> QED
      BY <1>1, <1>2, <1>6, <3>1
  <2> HIDE DEF next
  <2> QED
    BY <1>1, <2>1, <2>2, <2>3 DEF InLine, next
<1> QED
  BY <1>5, <1>6

\* There is a word for each rank.
LEMMA WordsAreRanked ==
    ASSUME NEW N \in Nat, NEW W \in SUBSET (1 .. N), NEW n \in 1 .. Cardinality(W)
    PROVE  \E k \in W : Rank(W, k) = n
<1> DEFINE reached == {k \in Nat : k <= N /\ n <= Rank(W, k)}
<1>1. /\ Rank(W, 0) = 0 /\ Rank(W, N) = Cardinality(W)
      /\ \A k \in Nat : Rank(W, k) \in Nat
      /\ \A k \in Nat : k >= 1 => Rank(W, k) = Rank(W, k - 1) + (IF k \in W THEN 1 ELSE 0)
  BY RankSteps
<1>2. n \in Nat /\ n >= 1 /\ n <= Cardinality(W)
  BY <1>1
<1>3. N \in reached /\ reached \in SUBSET Nat
  BY <1>1, <1>2
<1>4. PICK k \in reached : \A j \in reached : k <= j
  <2> HIDE DEF reached
  <2> QED
    BY <1>3, Least
<1>5. k \in Nat /\ k <= N /\ n <= Rank(W, k) /\ k # 0
  BY <1>1, <1>2
<1>6. k - 1 \in Nat /\ k >= 1 /\ ~(n <= Rank(W, k - 1))
  <2>1. k - 1 \in Nat /\ k >= 1 /\ k - 1 <= N /\ ~(k <= k - 1)
    BY <1>5
  <2> QED
    BY <1>4, <2>1
<1>7. Rank(W, k) = Rank(W, k - 1) + (IF k \in W THEN 1 ELSE 0)
  BY <1>1, <1>6
<1>8. Rank(W, k) \in Nat /\ Rank(W, k - 1) \in Nat
  BY <1>1, <1>6
<1>9. k \in W /\ Rank(W, k) = n
  BY <1>2, <1>5, <1>6, <1>7, <1>8
<1> QED
  BY <1>9

\* All words in order are the words.
LEMMA WordsInOrder ==
    ASSUME NEW A, NEW s \in Seq(A), NEW ws \in Seq(Seq(A)), HasWords(s, ws, Len(s))
    PROVE  ws = Words(s)
<1> DEFINE W == WordStarts(s)
           M == Cardinality(W)
<1>1. /\ Len(s) \in Nat /\ W \in SUBSET (1 .. Len(s))
      /\ \A k \in W : k \in Nat /\ k <= Len(s)
  BY WordStartsType
<1>2. Len(ws) = M /\ \A k \in W : ws[Rank(W, k)] = WordAt(s, k)
  <2>1. Rank(W, Len(s)) = M
    BY <1>1, RankSteps
  <2> QED
    BY <1>1, <2>1 DEF HasWords
<1>3. Words(s) = [n \in 1 .. M |-> WordAt(s, CHOOSE k \in W : Rank(W, k) = n)]
  BY DEF Words
<1>4. ASSUME NEW n \in 1 .. M
      PROVE  ws[n] = WordAt(s, CHOOSE k \in W : Rank(W, k) = n)
  <2> DEFINE k == CHOOSE k \in W : Rank(W, k) = n
  <2>1. \E j \in W : Rank(W, j) = n
    BY <1>1, WordsAreRanked
  <2>2. k \in W /\ Rank(W, k) = n
    BY <2>1
  <2> HIDE DEF k
  <2>3. ws[n] = WordAt(s, k)
    BY <1>2, <2>2
  <2> QED
    BY <2>3 DEF k
<1>5. ws = [n \in 1 .. M |-> ws[n]]
  BY <1>2
<1> QED
  BY <1>3, <1>4, <1>5

\* The parts of a line that are not empty are its words; the first part is one of
\* them if the line does not start with a space.
LEMMA SplitIntoWords ==
    ASSUME NEW A, NEW s \in Seq(A)
    PROVE  /\ split(s, Space) \in Seq(Seq(A))
           /\ NonEmpty(split(s, Space)) \in Seq(Seq(A))
           /\ NonEmpty(split(s, Space)) = Words(s)
           /\ s # <<>> /\ s[1] # Space => split(s, Space) # <<>> /\ split(s, Space)[1] # <<>>
<1> DEFINE N == Len(s)
<1>1. N \in Nat
  OBVIOUS
<1>2. PICK r : IsReading(A, r, s, Space)
  BY SplitSteps
<1>3. /\ r \in [0 .. N -> Reads(A)]
      /\ r[0] = [tokens |-> <<>>, token |-> <<>>]
      /\ \A n \in 1 .. N : r[n] = ReadChar(r[n - 1], s[n], Space)
      /\ split(s, Space) = AppendNonEmpty(r[N].tokens, r[N].token)
  BY <1>2 DEF IsReading
<1> DEFINE S == {n \in 0 .. N : InLine(s, r[n], n)}
<1>4. 0 \in S
  <2>1. /\ SubSeq(s, 0 + 1, 0) = <<>> /\ r[0].tokens = <<>> /\ r[0].token = <<>>
    BY <1>3, SubSeqEmpty
  <2>2. 0 \in 0 .. 0 /\ 0 + 1 .. 0 = {}
    OBVIOUS
  <2>3. HasWords(s, NonEmpty(r[0].tokens), 0)
    <3>1. Rank(WordStarts(s), 0) = 0 /\ \A k \in WordStarts(s) : ~(k <= 0)
      BY WordStartsType, RankSteps
    <3>2. NonEmpty(r[0].tokens) = <<>> /\ Len(<<>>) = 0
      BY <2>1, NonEmptyNothing
    <3> QED
      BY <3>1, <3>2 DEF HasWords
  <2>4. InLine(s, r[0], 0)
    BY <2>1, <2>2, <2>3 DEF InLine
  <2> QED
    BY <1>1, <2>4
<1>5. ASSUME NEW n \in 1 .. N, n - 1 \in S
      PROVE  n \in S
  <2> DEFINE m == n - 1
  <2>1. m \in Nat /\ m < Len(s) /\ n = m + 1 /\ m \in 0 .. N
    BY <1>1
  <2>2. InLine(s, r[m], m) /\ r[m] \in Reads(A) /\ r[n] = ReadChar(r[m], s[n], Space)
    BY <1>3, <1>5, <2>1
  <2> HIDE DEF m
  <2>3. InLine(s, r[n], n)
    BY <2>1, <2>2, InLineStep
  <2> QED
    BY <2>3
<1>6. N \in 0 .. N /\ InLine(s, r[N], N)
  <2>1. \A n \in 0 .. N : n \in S
    <3> HIDE DEF S, N
    <3> QED
      BY <1>1, <1>4, <1>5, UpTo
  <2> QED
    BY <1>1, <2>1
<1> DEFINE tokens == r[N].tokens
           token == r[N].token
           parts == AppendNonEmpty(tokens, token)
<1>7. tokens \in Seq(Seq(A)) /\ token \in Seq(A) /\ Len(tokens) \in Nat
  <2>1. r[N] \in Reads(A)
    BY <1>3, <1>6
  <2>2. r[N].tokens \in Seq(Seq(A)) /\ r[N].token \in Seq(A)
    BY <2>1 DEF Reads
  <2> QED
    BY <2>2
<1>8. PICK e \in 0 .. N :
          /\ token = SubSeq(s, e + 1, N)
          /\ e = 0 \/ s[e] = Space
          /\ \A k \in e + 1 .. N : s[k] # Space
          /\ HasWords(s, NonEmpty(tokens), e)
          /\ e = 0 <=> tokens = <<>>
          /\ s[1] # Space /\ tokens # <<>> => tokens[1] # <<>>
  BY <1>6 DEF InLine
<1>9. split(s, Space) = parts
  BY <1>3
<1> HIDE DEF tokens, token
<1>10. parts \in Seq(Seq(A)) /\ NonEmpty(parts) = AppendNonEmpty(NonEmpty(tokens), token)
  <2>1. CASE token = <<>>
    BY <1>7, <2>1 DEF AppendNonEmpty
  <2>2. CASE token # <<>>
    BY <1>7, <2>2, NonEmptyAppend DEF AppendNonEmpty
  <2> QED
    BY <2>1, <2>2
<1>11. NonEmpty(tokens) \in Seq(Seq(A)) /\ NonEmpty(parts) \in Seq(Seq(A))
  <2>1. <<>> \in Seq(A)
    OBVIOUS
  <2> HIDE DEF parts
  <2> QED
    BY <1>7, <1>10, <2>1, NonEmptyAppend
<1>12. HasWords(s, NonEmpty(parts), N)
  <2> HIDE DEF parts
  <2>1. N <= Len(s) /\ (N = Len(s) \/ s[N + 1] = Space)
    OBVIOUS
  <2> HIDE DEF N
  <2> QED
    BY <1>1, <1>8, <1>10, <1>11, <2>1, WordEnds
<1>13. NonEmpty(parts) = Words(s)
  <2> HIDE DEF parts
  <2> QED
    BY <1>11, <1>12, WordsInOrder
<1>14. ASSUME s # <<>>, s[1] # Space
       PROVE  parts # <<>> /\ parts[1] # <<>>
  <2>1. CASE tokens = <<>>
    <3>1. e = 0
      BY <1>8, <2>1
    <3>2. N # 0
      BY <1>14
    <3>3. Len(SubSeq(s, 1, N)) = N - 1 + 1
      BY <1>1, <3>2, Stretch
    <3>4. token = SubSeq(s, 1, N) /\ Len(token) # 0
      BY <1>1, <1>8, <3>1, <3>2, <3>3
    <3>5. parts = <<token>> /\ token # <<>>
      BY <2>1, <3>4 DEF AppendNonEmpty
    <3> QED
      BY <3>5
  <2>2. CASE tokens # <<>>
    <3>1. tokens[1] # <<>> /\ 1 \in 1 .. Len(tokens)
      BY <1>7, <1>8, <1>14, <2>2
    <3>2. parts = tokens \/ parts = Append(tokens, token)
      BY DEF AppendNonEmpty
    <3>3. Append(tokens, token) # <<>> /\ Append(tokens, token)[1] = tokens[1]
      BY <1>7, <3>1, AppendProperties
    <3> QED
      BY <2>2, <3>1, <3>2, <3>3
  <2> QED
    BY <2>1, <2>2
<1> QED
  BY <1>9, <1>10, <1>11, <1>13, <1>14

-----------------------------------------------------------------------------
(* Commands.                                                               *)

\* The characters that mean something are different ones.
LEMMA Characters ==
    /\ Space # ":" /\ Space # "a" /\ Space # Comma /\ Comma # "a" /\ Comma # "-"
    /\ Space # "-" /\ Space # "!" /\ Space # "@"
    /\ \A c \in {"#", "&", "+", "!"} : c # Space /\ c # Comma /\ c # ":" /\ c # "a"
    /\ \A c \in Digit : c # Space /\ c # Comma
<1>1. ASSUME NEW n \in 1 .. 10
      PROVE  Numeral[n] # Space /\ Numeral[n] # Comma
  <2>1. \/ n = 1 \/ n = 2 \/ n = 3 \/ n = 4 \/ n = 5 \/ n = 6 \/ n = 7 \/ n = 8 \/ n = 9
        \/ n = 10
    OBVIOUS
  <2>2. Numeral[n] \in {"0", "1", "2", "3", "4", "5", "6", "7", "8", "9"}
    BY <2>1 DEF Numeral
  <2> HIDE DEF Numeral
  <2> QED
    BY <2>2 DEF Space, Comma
<1>2. \A c \in Digit : c # Space /\ c # Comma
  BY <1>1 DEF Digit
<1> QED
  BY <1>2 DEF Space, Comma

\* Find() looks for the first space with a colon behind it.
LEMMA FindColon ==
    ASSUME NEW A, NEW s \in Seq(A)
    PROVE  /\ Colons(s) = {} => Find(s, <<Space, ":">>) = 0
           /\ Colons(s) # {} =>
                 /\ Min(Colons(s)) \in Colons(s)
                 /\ \A k \in Colons(s) : Min(Colons(s)) <= k
                 /\ Find(s, <<Space, ":">>) = Min(Colons(s)) - 1
<1> DEFINE pat == <<Space, ":">>
           at == {k \in 1 .. Len(s) - Len(pat) + 1 : SubSeq(s, k, k + Len(pat) - 1) = pat}
<1>1. Len(s) \in Nat /\ Len(pat) = 2
  OBVIOUS
<1>2. Find(s, pat) = IF at = {} THEN 0 ELSE Min(at)
  BY DEF Find
<1>3. ASSUME NEW k \in Nat, 1 <= k, k + 1 <= Len(s)
      PROVE  SubSeq(s, k, k + 1) = pat <=> s[k] = Space /\ s[k + 1] = ":"
  <2> DEFINE two == SubSeq(s, k, k + 1)
  <2>0. k + 1 \in Nat /\ (k + 1) - k + 1 = 2 /\ k <= (k + 1) + 1
    BY <1>3
  <2>1. two \in Seq(A) /\ Len(two) = 2 /\ \A m \in 1 .. 2 : two[m] = s[k + m - 1]
    <3> DEFINE j == k + 1
    <3>1. j \in Nat /\ k <= j + 1 /\ j <= Len(s) /\ j - k + 1 = 2
      BY <1>3
    <3> HIDE DEF j
    <3>2. SubSeq(s, k, j) \in Seq(A) /\ Len(SubSeq(s, k, j)) = j - k + 1
          /\ \A m \in 1 .. j - k + 1 : SubSeq(s, k, j)[m] = s[k + m - 1]
      BY <1>3, <3>1, Stretch
    <3> QED
      BY <3>1, <3>2 DEF j
  <2>2. two[1] = s[k] /\ two[2] = s[k + 1]
    BY <2>1
  <2> HIDE DEF two
  <2>3. two = <<two[1], two[2]>>
    BY <2>1
  <2> QED
    BY <2>2, <2>3 DEF two
<1>4. \A k : k \in at <=> k + 1 \in Colons(s) /\ k \in Nat
  <2> SUFFICES ASSUME NEW k
               PROVE  k \in at <=> k + 1 \in Colons(s) /\ k \in Nat
    OBVIOUS
  <2>1. k \in at <=> k \in 1 .. Len(s) - 1 /\ SubSeq(s, k, k + 1) = pat
    <3>1. Len(s) - Len(pat) + 1 = Len(s) - 1
      BY <1>1
    <3>2. \A m \in 1 .. Len(s) - 1 : m + Len(pat) - 1 = m + 1
      BY <1>1
    <3> HIDE DEF pat
    <3> QED
      BY <3>1, <3>2
  <2>2. k \in Nat => (k + 1 \in Colons(s)
            <=> k \in 1 .. Len(s) - 1 /\ s[k] = Space /\ s[k + 1] = ":")
    BY <1>1 DEF Colons
  <2>3. k \in 1 .. Len(s) - 1 => k \in Nat /\ 1 <= k /\ k + 1 <= Len(s)
    BY <1>1
  <2> QED
    BY <1>3, <2>1, <2>2, <2>3
<1>5. Colons(s) \in SUBSET Nat /\ \A k \in Colons(s) : k >= 2
  BY <1>1 DEF Colons
<1>6. at \in SUBSET Nat /\ \A k \in Colons(s) : k - 1 \in at
  <2> HIDE DEF at
  <2>1. \A k \in Colons(s) : k - 1 \in Nat /\ (k - 1) + 1 = k
    BY <1>5
  <2> QED
    BY <1>4, <2>1
<1> HIDE DEF at
<1>7. Colons(s) = {} => at = {}
  BY <1>4
<1>8. ASSUME Colons(s) # {}
      PROVE  /\ Min(Colons(s)) \in Colons(s)
             /\ \A k \in Colons(s) : Min(Colons(s)) <= k
             /\ Min(at) = Min(Colons(s)) - 1 /\ at # {}
  <2>1. Min(Colons(s)) \in Colons(s) /\ \A k \in Colons(s) : Min(Colons(s)) <= k
    <3> DEFINE C == Colons(s)
    <3>1. C # {} /\ C \in SUBSET Nat
      BY <1>5, <1>8
    <3> HIDE DEF C
    <3>2. Min(C) \in C /\ \A k \in C : Min(C) <= k
      BY <3>1, MinIsLeast
    <3> QED
      BY <3>2 DEF C
  <2>2. at # {}
    BY <1>6, <1>8
  <2>3. Min(at) \in at /\ \A k \in at : Min(at) <= k
    BY <1>6, <2>2, MinIsLeast
  <2>4. Min(at) + 1 \in Colons(s) /\ Min(Colons(s)) - 1 \in at
    BY <1>4, <1>6, <2>1, <2>3
  <2>5. Min(at) <= Min(Colons(s)) - 1 /\ Min(Colons(s)) <= Min(at) + 1
    BY <2>1, <2>3, <2>4
  <2>6. Min(at) \in Nat /\ Min(Colons(s)) \in Nat
    BY <1>5, <1>6, <2>1, <2>3
  <2> QED
    BY <2>1, <2>2, <2>5, <2>6
<1> QED
  BY <1>2, <1>7, <1>8

\* What is pushed behind a list is pushed behind all of it.
LEMMA AppendNonEmptyBehind ==
    ASSUME NEW B, NEW c \in B, NEW ss \in Seq(B), NEW x \in B
    PROVE  AppendNonEmpty(<<c>> \o ss, x) = <<c>> \o AppendNonEmpty(ss, x)
<1>1. CASE x = <<>>
  BY <1>1 DEF AppendNonEmpty
<1>2. CASE x # <<>>
  <2> DEFINE first == <<c>>
             last == <<x>>
  <2>1. first \in Seq(B) /\ last \in Seq(B)
    OBVIOUS
  <2>2. Append(first \o ss, x) = (first \o ss) \o last /\ Append(ss, x) = ss \o last
    <3>1. first \o ss \in Seq(B)
      BY <2>1
    <3> HIDE DEF first
    <3>2. \A q \in Seq(B) : Append(q, x) = q \o last
      BY AppendIsConcat
    <3> QED
      BY <3>1, <3>2
  <2> HIDE DEF first, last
  <2>3. (first \o ss) \o last = first \o (ss \o last)
    BY <2>1, ConcatAssociative
  <2> QED
    BY <1>2, <2>2, <2>3 DEF AppendNonEmpty, first
<1> QED
  BY <1>1, <1>2

\* What stands before the first " :".
BeforeColon(s) == IF Colons(s) = {} THEN s ELSE SubSeq(s, 1, Min(Colons(s)) - 2)

\* It is the beginning of the line, not empty unless the line starts with a space,
\* and no colon in it follows a space.
LEMMA BeforeColonType ==
    ASSUME NEW A, NEW s \in Seq(A)
    PROVE  /\ BeforeColon(s) \in Seq(A)
           /\ Len(BeforeColon(s)) <= Len(s)
           /\ \A k \in 1 .. Len(BeforeColon(s)) : BeforeColon(s)[k] = s[k]
           /\ s # <<>> /\ s[1] # Space =>
                 /\ BeforeColon(s) # <<>>
                 /\ \A k \in Colons(s) : ~(k <= Len(BeforeColon(s)))
<1>1. CASE Colons(s) = {}
  BY <1>1 DEF BeforeColon
<1>2. CASE Colons(s) # {}
  <2> DEFINE m == Min(Colons(s))
  <2>1. m \in Colons(s) /\ \A k \in Colons(s) : m <= k
    BY <1>2, FindColon
  <2> HIDE DEF m
  <2>2. m \in Nat /\ 2 <= m /\ m <= Len(s) /\ s[m - 1] = Space /\ Len(s) \in Nat
    BY <2>1 DEF Colons
  <2> DEFINE j == m - 2
  <2>3. j \in Nat /\ 1 \in Nat /\ 1 <= 1 /\ 1 <= j + 1 /\ j <= Len(s) /\ j - 1 + 1 = j
    BY <2>2
  <2>4. BeforeColon(s) = SubSeq(s, 1, j)
    BY <1>2 DEF BeforeColon, m
  <2> HIDE DEF j
  <2>5. /\ SubSeq(s, 1, j) \in Seq(A) /\ Len(SubSeq(s, 1, j)) = j
        /\ \A k \in 1 .. j : SubSeq(s, 1, j)[k] = s[1 + k - 1]
    BY <2>3, Stretch
  <2>6. \A k \in 1 .. j : 1 + k - 1 = k
    BY <2>3
  <2>7. ASSUME s[1] # Space
        PROVE  j >= 1
    BY <2>2, <2>7 DEF j
  <2>8. ASSUME s[1] # Space
        PROVE  SubSeq(s, 1, j) # <<>>
    <3> DEFINE t == SubSeq(s, 1, j)
    <3>1. Len(t) # 0
      BY <2>5, <2>7, <2>8, <2>3
    <3> HIDE DEF t
    <3>2. t # <<>>
      BY <3>1
    <3> QED
      BY <3>2 DEF t
  <2>9. \A k \in Colons(s) : ~(k <= j)
    <3>1. \A k \in Colons(s) : k \in Nat
      BY <2>2 DEF Colons
    <3> QED
      BY <2>1, <2>2, <3>1 DEF j
  <2> QED
    BY <2>3, <2>4, <2>5, <2>6, <2>8, <2>9
<1> QED
  BY <1>1, <1>2

\* What stands behind the first " :".
LEMMA BehindColonType ==
    ASSUME NEW A, NEW s \in Seq(A), Colons(s) # {}
    PROVE  From(s, Min(Colons(s)) + 1) \in Seq(A)
<1> DEFINE m == Min(Colons(s))
           i == m + 1
           j == Len(s)
<1>1. m \in Colons(s)
  BY FindColon
<1> HIDE DEF m
<1>2. i \in Nat /\ j \in Nat /\ 1 <= i /\ i <= j + 1 /\ j <= Len(s)
  BY <1>1 DEF Colons
<1> HIDE DEF i, j
<1>3. SubSeq(s, i, j) \in Seq(A)
  BY <1>2, Stretch
<1> QED
  BY <1>3 DEF i, j, m, From

\* The grammar, by what stands before the first " :" and what stands behind it.
LEMMA GrammarIs ==
    ASSUME NEW A, NEW s \in Seq(A)
    PROVE  Grammar(s) = IF Colons(s) = {} THEN Words(BeforeColon(s))
                        ELSE AppendNonEmpty(Words(BeforeColon(s)), From(s, Min(Colons(s)) + 1))
  BY DEF Grammar, BeforeColon

\* A line that starts with a word is read by the grammar.
LEMMA ParseIsGrammar ==
    ASSUME NEW A, NEW s \in Seq(A), s # <<>>, s[1] # ":", s[1] # Space
    PROVE  /\ parseCommand(s).command \in Seq(A)
           /\ parseCommand(s).params \in Seq(Seq(A))
           /\ <<parseCommand(s).command>> \o parseCommand(s).params = Grammar(s)
<1> DEFINE head == BeforeColon(s)
           parts == split(head, Space)
           trailing == IF Colons(s) = {} THEN <<>> ELSE From(s, Min(Colons(s)) + 1)
           kept == NonEmpty(Tail(parts))
<1>1. stripPrefix(s) = s
  BY DEF stripPrefix
<1>2. /\ head \in Seq(A) /\ head # <<>> /\ 1 \in 1 .. Len(head) /\ head[1] # Space
  <2>1. head \in Seq(A) /\ head # <<>> /\ \A k \in 1 .. Len(head) : head[k] = s[k]
    BY BeforeColonType
  <2> HIDE DEF head
  <2>2. 1 \in 1 .. Len(head)
    BY <2>1
  <2> QED
    BY <2>1, <2>2
<1>3. trailing \in Seq(A)
  BY BehindColonType
<1>4. LET colon == Find(s, <<Space, ":">>)
      IN  /\ (IF colon = 0 THEN s ELSE SubSeq(s, 1, colon - 1)) = head
          /\ (IF colon = 0 THEN <<>> ELSE From(s, colon + 2)) = trailing
  <2> DEFINE m == Min(Colons(s))
             colon == Find(s, <<Space, ":">>)
  <2>1. CASE Colons(s) = {}
    <3>1. colon = 0
      BY <2>1, FindColon
    <3> QED
      BY <2>1, <3>1 DEF BeforeColon
  <2>2. CASE Colons(s) # {}
    <3>1. m \in Colons(s) /\ colon = m - 1
      BY <2>2, FindColon
    <3> HIDE DEF m, colon
    <3>2. m \in Nat /\ m >= 2
      <4>1. Len(s) \in Nat
        OBVIOUS
      <4> QED
        BY <3>1, <4>1 DEF Colons
    <3>3. colon # 0 /\ colon - 1 = m - 2 /\ colon + 2 = m + 1
      BY <3>1, <3>2
    <3> QED
      BY <2>2, <3>3 DEF m, colon, BeforeColon
  <2> QED
    BY <2>1, <2>2
<1>5. parseCommand(s) = [command |-> IF parts = <<>> THEN <<>> ELSE Head(parts),
                         params |-> AppendNonEmpty(NonEmpty(IF parts = <<>> THEN <<>> ELSE Tail(parts)),
                                                   trailing)]
  <2> HIDE DEF head, trailing
  <2> QED
    BY <1>1, <1>4 DEF parseCommand
<1> HIDE DEF head
<1>6. /\ parts \in Seq(Seq(A)) /\ NonEmpty(parts) = Words(head)
      /\ parts # <<>> /\ parts[1] # <<>>
  BY <1>2, SplitIntoWords
<1> HIDE DEF parts
<1>7. /\ Head(parts) = parts[1] /\ parts[1] \in Seq(A) /\ Tail(parts) \in Seq(Seq(A))
  BY <1>6
<1>8. kept \in Seq(Seq(A))
  <2>1. <<>> \in Seq(A)
    OBVIOUS
  <2> QED
    BY <1>7, <2>1, NonEmptyAppend
<1>9. Words(head) = <<parts[1]>> \o kept
  BY <1>6, NonEmptyCons
<1> HIDE DEF kept, trailing
<1>10. parseCommand(s).command = parts[1] /\ parseCommand(s).params = AppendNonEmpty(kept, trailing)
  BY <1>5, <1>6, <1>7 DEF kept
<1>11. AppendNonEmpty(kept, trailing) \in Seq(Seq(A))
  BY <1>3, <1>8, AppendNonEmptyType
<1>12. <<parts[1]>> \o AppendNonEmpty(kept, trailing) = AppendNonEmpty(Words(head), trailing)
  <2> DEFINE B == Seq(A)
             c == parts[1]
  <2>1. c \in B /\ kept \in Seq(B) /\ trailing \in B
    BY <1>3, <1>7, <1>8
  <2> HIDE DEF B, c
  <2>2. AppendNonEmpty(<<c>> \o kept, trailing) = <<c>> \o AppendNonEmpty(kept, trailing)
    BY <2>1, AppendNonEmptyBehind
  <2> QED
    BY <1>9, <2>2 DEF c
<1>13. AppendNonEmpty(Words(head), trailing) = Grammar(s)
  BY GrammarIs DEF trailing, head, AppendNonEmpty
<1> QED
  BY <1>7, <1>10, <1>11, <1>12, <1>13

-----------------------------------------------------------------------------
(* Prefixes.                                                               *)

\* Find() of a space.
LEMMA FindSpace ==
    ASSUME NEW A, NEW s \in Seq(A), NEW n \in 1 .. Len(s), s[n] = Space,
           \A k \in 1 .. n - 1 : s[k] # Space
    PROVE  Find(s, <<Space>>) = n
<1> DEFINE pat == <<Space>>
           at == {k \in 1 .. Len(s) - Len(pat) + 1 : SubSeq(s, k, k + Len(pat) - 1) = pat}
<1>1. Len(s) \in Nat /\ Len(pat) = 1 /\ Len(s) - Len(pat) + 1 = Len(s)
  OBVIOUS
<1>2. \A k \in 1 .. Len(s) : k + Len(pat) - 1 = k /\ k \in Nat /\ 1 <= k /\ k <= Len(s)
  BY <1>1
<1>3. ASSUME NEW k \in 1 .. Len(s)
      PROVE  SubSeq(s, k, k) = pat <=> s[k] = Space
  <2> DEFINE one == SubSeq(s, k, k)
  <2>1. k \in Nat /\ 1 <= k /\ k <= k + 1 /\ k <= Len(s) /\ k - k + 1 = 1 /\ k + 1 - 1 = k
    BY <1>2
  <2>2. one \in Seq(A) /\ Len(one) = k - k + 1 /\ \A m \in 1 .. k - k + 1 : one[m] = s[k + m - 1]
    BY <2>1, Stretch
  <2>3. 1 \in 1 .. k - k + 1
    BY <2>1
  <2>4. Len(one) = 1 /\ one[1] = s[k]
    BY <2>1, <2>2, <2>3
  <2> HIDE DEF one
  <2>5. one = <<one[1]>>
    BY <2>2, <2>4
  <2>6. one = pat <=> s[k] = Space
    BY <2>4, <2>5
  <2> HIDE DEF pat
  <2> QED
    BY <2>6 DEF one
<1>4. \A k : k \in at <=> k \in 1 .. Len(s) /\ s[k] = Space
  <2> SUFFICES ASSUME NEW k
               PROVE  k \in at <=> k \in 1 .. Len(s) /\ s[k] = Space
    OBVIOUS
  <2> HIDE DEF pat
  <2> QED
    BY <1>1, <1>2, <1>3
<1>5. at \in SUBSET Nat
  BY <1>1
<1>6. Find(s, pat) = IF at = {} THEN 0 ELSE Min(at)
  BY DEF Find
<1> HIDE DEF at, pat
<1>7. n \in at
  BY <1>4
<1>8. Min(at) \in at /\ \A k \in at : Min(at) <= k
  BY <1>5, <1>7, MinIsLeast
<1>9. Min(at) = n
  <2>1. Min(at) <= n /\ Min(at) \in 1 .. Len(s) /\ s[Min(at)] = Space
    BY <1>4, <1>7, <1>8
  <2>2. ~(Min(at) \in 1 .. n - 1)
    BY <2>1
  <2> QED
    BY <1>1, <2>1, <2>2
<1> QED
  BY <1>6, <1>7, <1>9 DEF pat

\* u is s followed by t.
IsJoined(u, s, t) ==
    /\ Len(u) = Len(s) + Len(t)
    /\ \A k \in 1 .. Len(s) : u[k] = s[k]
    /\ \A k \in 1 .. Len(t) : u[Len(s) + k] = t[k]
    /\ From(u, Len(s) + 1) = t
    /\ SubSeq(u, 1, Len(s)) = s

\* Two texts can be found in what joins them.
LEMMA Joined ==
    ASSUME NEW A, NEW s \in Seq(A), NEW t \in Seq(A)
    PROVE  s \o t \in Seq(A) /\ IsJoined(s \o t, s, t)
<1> DEFINE u == s \o t
<1>1. /\ u \in Seq(A) /\ Len(u) = Len(s) + Len(t) /\ Len(s) \in Nat /\ Len(t) \in Nat
      /\ \A k \in 1 .. Len(s) : u[k] = s[k]
      /\ \A k \in 1 .. Len(t) : u[Len(s) + k] = t[k]
  <2>1. u \in Seq(A) /\ Len(u) = Len(s) + Len(t)
        /\ \A k \in 1 .. Len(s) + Len(t) : u[k] = IF k <= Len(s) THEN s[k] ELSE t[k - Len(s)]
    BY ConcatProperties
  <2>2. Len(s) \in Nat /\ Len(t) \in Nat
    OBVIOUS
  <2> HIDE DEF u
  <2>3. ASSUME NEW k \in 1 .. Len(s)
        PROVE  u[k] = s[k]
    <3>1. k \in 1 .. Len(s) + Len(t) /\ k <= Len(s)
      BY <2>2
    <3> QED
      BY <2>1, <3>1
  <2>4. ASSUME NEW k \in 1 .. Len(t)
        PROVE  u[Len(s) + k] = t[k]
    <3>1. Len(s) + k \in 1 .. Len(s) + Len(t) /\ ~(Len(s) + k <= Len(s)) /\ Len(s) + k - Len(s) = k
      BY <2>2
    <3> QED
      BY <2>1, <3>1
  <2> QED
    BY <2>1, <2>2, <2>3, <2>4
<1> HIDE DEF u
<1>2. From(u, Len(s) + 1) = t
  <2> DEFINE i == Len(s) + 1
             j == Len(u)
             v == SubSeq(u, i, j)
  <2>1. i \in Nat /\ j \in Nat /\ 1 <= i /\ i <= j + 1 /\ j <= Len(u) /\ j - i + 1 = Len(t)
    BY <1>1
  <2>2. v \in Seq(A) /\ Len(v) = j - i + 1 /\ \A k \in 1 .. j - i + 1 : v[k] = u[i + k - 1]
    <3> HIDE DEF i, j
    <3> QED
      BY <1>1, <2>1, Stretch
  <2>3. \A k \in 1 .. Len(t) : i + k - 1 = Len(s) + k
    BY <1>1
  <2>4. v \in Seq(A) /\ Len(v) = Len(t) /\ \A k \in 1 .. Len(t) : v[k] = t[k]
    <3> HIDE DEF i, j
    <3> QED
      BY <1>1, <2>1, <2>2, <2>3
  <2> HIDE DEF v
  <2>5. v = t
    BY <2>4, SeqEqual
  <2> QED
    BY <2>5 DEF v, From
<1>3. SubSeq(u, 1, Len(s)) = s
  <2> DEFINE j == Len(s)
             v == SubSeq(u, 1, j)
  <2>1. 1 \in Nat /\ j \in Nat /\ 1 <= 1 /\ 1 <= j + 1 /\ j <= Len(u) /\ j - 1 + 1 = j
    BY <1>1
  <2> HIDE DEF j
  <2>2. v \in Seq(A) /\ Len(v) = j - 1 + 1 /\ \A k \in 1 .. j - 1 + 1 : v[k] = u[1 + k - 1]
    BY <1>1, <2>1, Stretch
  <2>3. \A k \in 1 .. j : 1 + k - 1 = k
    BY <2>1
  <2>4. v \in Seq(A) /\ Len(v) = j /\ \A k \in 1 .. j : v[k] = s[k]
    BY <1>1, <2>1, <2>2, <2>3 DEF j
  <2> HIDE DEF v
  <2>5. v = s
    BY <2>4, SeqEqual DEF j
  <2> QED
    BY <2>5 DEF v, j
<1> QED
  BY <1>1, <1>2, <1>3 DEF u, IsJoined

\* The characters of a relayed line.
Written == Char \cup {"!", "@"}

\* A prefix is taken off.
LEMMA PrefixIsStripped ==
    ASSUME NEW s \in Seq(Written)
    PROVE  stripPrefix(Prefix \o s) = s
<1> DEFINE raw == Prefix \o s
<1>1. /\ Prefix \in Seq(Written) /\ Len(Prefix) = 7
      /\ Prefix[1] = ":" /\ Prefix[2] = "a" /\ Prefix[3] = "!" /\ Prefix[4] = "a"
      /\ Prefix[5] = "@" /\ Prefix[6] = "a" /\ Prefix[7] = Space
  <2>1. {Space, ":", "a", "!", "@"} \subseteq Written
    BY ParsingAssumption DEF Written
  <2> QED
    BY <2>1 DEF Prefix
<1>2. /\ raw \in Seq(Written) /\ Len(raw) = Len(Prefix) + Len(s)
      /\ \A k \in 1 .. Len(Prefix) : raw[k] = Prefix[k]
      /\ From(raw, Len(Prefix) + 1) = s
  <2>1. raw \in Seq(Written) /\ IsJoined(raw, Prefix, s)
    BY <1>1, Joined
  <2> HIDE DEF raw
  <2> QED
    BY <2>1 DEF IsJoined
<1> HIDE DEF raw
<1>3. Len(s) \in Nat /\ 1 \in 1 .. Len(raw) /\ 7 \in 1 .. Len(raw)
  BY <1>1, <1>2
<1>4. /\ raw # <<>> /\ raw[1] = ":" /\ raw[7] = Space
      /\ \A k \in 1 .. 6 : raw[k] # Space
  <2>1. \A k \in 1 .. 7 : raw[k] = Prefix[k]
    BY <1>1, <1>2
  <2>2. \A k \in 1 .. 6 : k \in 1 .. 7 /\ (k = 1 \/ k = 2 \/ k = 3 \/ k = 4 \/ k = 5 \/ k = 6)
    OBVIOUS
  <2>3. \A k \in 1 .. 6 : raw[k] = ":" \/ raw[k] = "a" \/ raw[k] = "!" \/ raw[k] = "@"
    BY <1>1, <2>1, <2>2
  <2>4. raw # <<>>
    BY <1>2, <1>3
  <2>5. raw[1] = ":" /\ raw[7] = Space
    BY <1>1, <2>1
  <2> QED
    BY <2>3, <2>4, <2>5, Characters
<1>5. Find(raw, <<Space>>) = 7
  <2>1. 7 - 1 = 6
    OBVIOUS
  <2> QED
    BY <1>2, <1>3, <1>4, <2>1, FindSpace
<1>6. stripPrefix(raw) = From(raw, 7 + 1)
  BY <1>4, <1>5 DEF stripPrefix
<1> QED
  BY <1>1, <1>2, <1>6 DEF raw

\* Behind a prefix, a line is read as without one.
LEMMA PrefixIsIgnored ==
    ASSUME NEW s \in Seq(Written), s # <<>>, s[1] # ":"
    PROVE  parseCommand(Prefix \o s) = parseCommand(s)
<1>1. stripPrefix(Prefix \o s) = s /\ stripPrefix(s) = s
  <2>1. stripPrefix(s) = s
    BY DEF stripPrefix
  <2> QED
    BY <2>1, PrefixIsStripped
<1> QED
  BY <1>1 DEF parseCommand

\* A command with a text behind it.
LEMMA CommandType ==
    ASSUME NEW A, NEW text \in Seq(A), "a" \in A, Space \in A
    PROVE  /\ Command(text) \in Seq(A) /\ Len(Command(text)) = Len(text) + 2
           /\ Command(text) # <<>>
           /\ Command(text)[1] = "a" /\ Command(text)[2] = Space
           /\ \A k \in 1 .. Len(text) : Command(text)[k + 2] = text[k]
           /\ From(Command(text), 3) = text
<1> DEFINE a == <<"a", Space>>
           u == a \o text
<1>1. a \in Seq(A) /\ Len(a) = 2 /\ a[1] = "a" /\ a[2] = Space /\ Len(text) \in Nat
  OBVIOUS
<1> HIDE DEF a
<1>2. /\ u \in Seq(A) /\ Len(u) = Len(a) + Len(text)
      /\ \A k \in 1 .. Len(a) : u[k] = a[k]
      /\ \A k \in 1 .. Len(text) : u[Len(a) + k] = text[k]
      /\ From(u, Len(a) + 1) = text
  <2>1. u \in Seq(A) /\ IsJoined(u, a, text)
    BY <1>1, Joined
  <2> HIDE DEF u
  <2> QED
    BY <2>1 DEF IsJoined
<1> HIDE DEF u
<1>3. u # <<>> /\ u[1] = "a" /\ u[2] = Space
  <2>1. 1 \in 1 .. Len(a) /\ 2 \in 1 .. Len(a) /\ Len(u) # 0
    BY <1>1, <1>2
  <2> QED
    BY <1>1, <1>2, <2>1
<1>4. \A k \in 1 .. Len(text) : k + 2 = Len(a) + k
  BY <1>1
<1>5. Len(a) + 1 = 3 /\ Len(u) = Len(text) + 2
  BY <1>1, <1>2
<1>6. Command(text) = u
  BY DEF Command, u, a
<1> QED
  BY <1>2, <1>3, <1>4, <1>5, <1>6

\* Every line is read by the grammar: its words, and what follows the first " :",
\* are the command and the parameters of parseCommand, with a prefix or without.
THEOREM LinesAreParsed == Spec => []ParseFollowsGrammar
<1>1. Typed => ParseFollowsGrammar
  <2> SUFFICES ASSUME Typed
               PROVE  ParseFollowsGrammar
    OBVIOUS
  <2> DEFINE s == Command(line)
  <2>1. line \in Seq(Char) /\ "a" \in Char /\ Space \in Char
    BY ParsingAssumption DEF Typed
  <2>2. s \in Seq(Char) /\ s # <<>> /\ s[1] = "a"
    BY <2>1, CommandType
  <2> HIDE DEF s
  <2>3. s \in Seq(Written) /\ s[1] # ":" /\ s[1] # Space
    BY <2>2, Characters DEF Written
  <2>4. <<parseCommand(s).command>> \o parseCommand(s).params = Grammar(s)
    BY <2>2, <2>3, ParseIsGrammar
  <2>5. parseCommand(Prefix \o s) = parseCommand(s)
    BY <2>2, <2>3, PrefixIsIgnored
  <2> QED
    BY <2>4, <2>5 DEF ParseFollowsGrammar, Said, s
<1> QED
  BY <1>1, AlwaysTyped, PTL

-----------------------------------------------------------------------------
(* What parameters are like.                                               *)

\* A word reaches from its start to some place, without a space.
LEMMA WordReaches ==
    ASSUME NEW A, NEW s \in Seq(A), NEW k \in WordStarts(s)
    PROVE  \E last \in k .. Len(s) :
              WordAt(s, k) = SubSeq(s, k, last) /\ \A j \in k .. last : s[j] # Space
<1> DEFINE ends == {j \in k .. Len(s) + 1 : j = Len(s) + 1 \/ s[j] = Space}
           end == Min(ends)
<1>1. Len(s) \in Nat /\ k \in Nat /\ 1 <= k /\ k <= Len(s) /\ s[k] # Space
  BY WordStartsType
<1>2. ends \in SUBSET Nat /\ Len(s) + 1 \in ends
  BY <1>1
<1>3. end \in ends /\ \A j \in ends : end <= j
  <2> HIDE DEF ends
  <2> QED
    BY <1>2, MinIsLeast
<1>4. WordAt(s, k) = SubSeq(s, k, end - 1)
  BY DEF WordAt
<1> HIDE DEF end
<1>5. /\ end \in Nat /\ k <= end /\ end <= Len(s) + 1
      /\ \A j \in Int : k <= j /\ j < end => s[j] # Space /\ j # Len(s) + 1
  <2>1. end \in Nat /\ k <= end /\ end <= Len(s) + 1
    BY <1>1, <1>3
  <2>2. ASSUME NEW j \in Int, k <= j, j < end
        PROVE  s[j] # Space /\ j # Len(s) + 1
    <3>1. j \notin ends
      <4> HIDE DEF ends
      <4>1. ~(end <= j)
        BY <2>1, <2>2
      <4> QED
        BY <1>3, <4>1
    <3>2. j \in k .. Len(s) + 1
      BY <1>1, <2>1, <2>2
    <3> QED
      BY <3>1, <3>2
  <2> QED
    BY <2>1, <2>2
<1>6. end # k
  <2>1. end = k => s[k] = Space \/ k = Len(s) + 1
    BY <1>3
  <2> QED
    BY <1>1, <2>1
<1> DEFINE last == end - 1
<1>7. last \in k .. Len(s) /\ \A j \in k .. last : s[j] # Space
  BY <1>1, <1>5, <1>6
<1> QED
  BY <1>4, <1>7

\* The words of a line, one by one.
LEMMA WordsOfALine ==
    ASSUME NEW A, NEW s \in Seq(A)
    PROVE  /\ Words(s) \in Seq(Seq(A))
           /\ \A n \in 1 .. Len(Words(s)) : \E k \in WordStarts(s) :
                 Rank(WordStarts(s), k) = n /\ Words(s)[n] = WordAt(s, k)
<1> DEFINE W == WordStarts(s)
           M == Cardinality(W)
<1>1. Len(s) \in Nat /\ W \in SUBSET (1 .. Len(s))
  BY WordStartsType
<1>2. Words(s) = [n \in 1 .. M |-> WordAt(s, CHOOSE k \in W : Rank(W, k) = n)]
  BY DEF Words
<1>3. M \in Nat
  <2>1. Rank(W, Len(s)) \in Nat /\ Rank(W, Len(s)) = Cardinality(W)
    BY <1>1, RankSteps
  <2> QED
    BY <2>1
<1>4. Words(s) \in Seq(Seq(A))
  BY SplitIntoWords
<1>5. Len(Words(s)) = M
  BY <1>2, <1>3
<1>6. ASSUME NEW n \in 1 .. M
      PROVE  \E k \in W : Rank(W, k) = n /\ Words(s)[n] = WordAt(s, k)
  <2> DEFINE k == CHOOSE j \in W : Rank(W, j) = n
  <2>1. \E j \in W : Rank(W, j) = n
    BY <1>1, WordsAreRanked
  <2>2. k \in W /\ Rank(W, k) = n
    BY <2>1
  <2>3. Words(s)[n] = WordAt(s, k)
    BY <1>2
  <2> QED
    BY <2>2, <2>3
<1> QED
  BY <1>4, <1>5, <1>6

\* No word is empty.
LEMMA NoWordIsEmpty ==
    ASSUME NEW A, NEW s \in Seq(A), NEW n \in 1 .. Len(Words(s))
    PROVE  Words(s)[n] # <<>>
<1>1. PICK k \in WordStarts(s) : Words(s)[n] = WordAt(s, k)
  BY WordsOfALine
<1>2. PICK last \in k .. Len(s) : WordAt(s, k) = SubSeq(s, k, last)
  BY WordReaches
<1>3. k \in Nat /\ last \in Nat /\ 1 <= k /\ k <= last /\ k <= last + 1 /\ last <= Len(s)
  BY WordStartsType
<1>4. Len(SubSeq(s, k, last)) = last - k + 1
  BY <1>3, Stretch
<1> DEFINE w == SubSeq(s, k, last)
<1>5. Len(w) # 0
  BY <1>3, <1>4
<1> HIDE DEF w
<1>6. w # <<>>
  BY <1>5
<1> QED
  BY <1>1, <1>2, <1>6 DEF w

\* The second word of a line has no spaces, and starts with no colon unless one
\* follows a space.
LEMMA SecondWord ==
    ASSUME NEW A, NEW s \in Seq(A), Len(Words(s)) >= 2,
           \A k \in 2 .. Len(s) : ~(s[k - 1] = Space /\ s[k] = ":")
    PROVE  /\ \A j \in 1 .. Len(Words(s)[2]) : Words(s)[2][j] # Space
           /\ Words(s)[2][1] # ":"
<1> DEFINE W == WordStarts(s)
<1>0. Len(s) \in Nat /\ W \in SUBSET (1 .. Len(s)) /\ 2 \in 1 .. Len(Words(s))
  <2>1. Words(s) \in Seq(Seq(A))
    BY WordsOfALine
  <2>2. Len(Words(s)) \in Nat
    BY <2>1
  <2> QED
    BY <2>2, WordStartsType
<1>1. PICK k \in W : Rank(W, k) = 2 /\ Words(s)[2] = WordAt(s, k)
  BY <1>0, WordsOfALine
<1>2. PICK last \in k .. Len(s) :
          WordAt(s, k) = SubSeq(s, k, last) /\ \A j \in k .. last : s[j] # Space
  BY WordReaches
<1>3. /\ k \in Nat /\ last \in Nat /\ 1 <= k /\ k <= last /\ k <= last + 1 /\ last <= Len(s)
      /\ s[k] # Space /\ (k = 1 \/ s[k - 1] = Space)
  <2>1. k \in 1 .. Len(s)
    BY <1>0
  <2> QED
    BY <1>0, <2>1, WordStartsType
<1> DEFINE w == SubSeq(s, k, last)
<1>4. /\ Len(w) = last - k + 1
      /\ \A m \in 1 .. last - k + 1 : w[m] = s[k + m - 1]
  BY <1>3, Stretch
<1> HIDE DEF w, W
<1>5. k # 1
  <2>1. Rank(W, 0) = 0 /\ (1 >= 1 => Rank(W, 1) = Rank(W, 1 - 1) + (IF 1 \in W THEN 1 ELSE 0))
    BY <1>0, RankSteps
  <2>2. 1 - 1 = 0 /\ Rank(W, 1) # 2
    BY <2>1
  <2> QED
    BY <1>1, <2>2
<1>6. \A j \in 1 .. Len(w) : w[j] # Space
  <2> SUFFICES ASSUME NEW j \in 1 .. Len(w)
               PROVE  w[j] # Space
    OBVIOUS
  <2>1. k + j - 1 \in k .. last /\ w[j] = s[k + j - 1]
    BY <1>3, <1>4
  <2> QED
    BY <1>2, <2>1
<1>7. w[1] # ":"
  <2>1. 1 \in 1 .. last - k + 1 /\ k + 1 - 1 = k /\ k \in 2 .. Len(s)
    BY <1>0, <1>3, <1>5
  <2>2. w[1] = s[k] /\ s[k - 1] = Space
    BY <1>3, <1>4, <1>5, <2>1
  <2> QED
    BY <2>1, <2>2
<1> QED
  BY <1>1, <1>2, <1>6, <1>7 DEF w

\* What the grammar makes of a line: words, and at most one thing more.
LEMMA GrammarGives ==
    ASSUME NEW A, NEW s \in Seq(A), s # <<>>, s[1] # Space
    PROVE  /\ Grammar(s) \in Seq(Seq(A))
           /\ \A n \in 1 .. Len(Grammar(s)) : Grammar(s)[n] # <<>>
           /\ Len(Grammar(s)) >= 3 =>
                 /\ \A j \in 1 .. Len(Grammar(s)[2]) : Grammar(s)[2][j] # Space
                 /\ Grammar(s)[2][1] # ":"
<1> DEFINE G == Grammar(s)
           h == BeforeColon(s)
           ws == Words(h)
           t == From(s, Min(Colons(s)) + 1)
<1>1. /\ h \in Seq(A) /\ Len(h) <= Len(s)
      /\ \A k \in 1 .. Len(h) : h[k] = s[k]
      /\ \A k \in Colons(s) : ~(k <= Len(h))
  BY BeforeColonType
<1>2. G = ws \/ (t \in Seq(A) /\ t # <<>> /\ G = Append(ws, t))
  BY GrammarIs, BehindColonType DEF AppendNonEmpty
<1> HIDE DEF h, t, G
<1>3. ws \in Seq(Seq(A)) /\ \A n \in 1 .. Len(ws) : ws[n] # <<>>
  BY <1>1, WordsOfALine, NoWordIsEmpty
<1>4. ASSUME Len(ws) >= 2
      PROVE  /\ \A j \in 1 .. Len(ws[2]) : ws[2][j] # Space
             /\ ws[2][1] # ":"
  <2>1. ASSUME NEW k \in 2 .. Len(h), h[k - 1] = Space, h[k] = ":"
        PROVE  FALSE
    <3>1. /\ Len(h) \in Nat /\ Len(s) \in Nat /\ k \in Nat /\ k \in 1 .. Len(h)
          /\ k - 1 \in 1 .. Len(h) /\ k <= Len(h)
      BY <1>1
    <3>2. k \in 2 .. Len(s) /\ s[k - 1] = Space /\ s[k] = ":"
      BY <1>1, <2>1, <3>1
    <3>3. k \in Colons(s)
      BY <3>2 DEF Colons
    <3> QED
      BY <1>1, <3>1, <3>3
  <2> QED
    BY <1>1, <1>4, <2>1, SecondWord
<1> HIDE DEF ws
<1>5. CASE G = ws
  <2>1. Len(G) >= 3 => Len(ws) >= 2
    BY <1>3, <1>5
  <2> QED
    BY <1>3, <1>4, <1>5, <2>1 DEF G
<1>6. CASE t \in Seq(A) /\ t # <<>> /\ G = Append(ws, t)
  <2>1. /\ G \in Seq(Seq(A)) /\ Len(G) = Len(ws) + 1 /\ Len(ws) \in Nat
        /\ \A n \in 1 .. Len(ws) : G[n] = ws[n]
        /\ G[Len(ws) + 1] = t
    BY <1>3, <1>6, AppendProperties
  <2>2. \A n \in 1 .. Len(G) : G[n] # <<>>
    <3>1. \A n \in 1 .. Len(G) : n \in 1 .. Len(ws) \/ n = Len(ws) + 1
      BY <2>1
    <3> QED
      BY <1>3, <1>6, <2>1, <3>1
  <2>3. Len(G) >= 3 => Len(ws) >= 2 /\ G[2] = ws[2]
    <3>1. Len(G) >= 3 => Len(ws) >= 2 /\ 2 \in 1 .. Len(ws)
      BY <2>1
    <3> QED
      BY <2>1, <3>1
  <2> QED
    BY <1>4, <2>1, <2>2, <2>3 DEF G
<1> QED
  BY <1>2, <1>5, <1>6

\* What the parameters of a line are like.
LEMMA ParamsAre ==
    ASSUME NEW A, NEW s \in Seq(A), s # <<>>, s[1] # ":", s[1] # Space,
           NEW p, p = parseCommand(s).params
    PROVE  /\ p \in Seq(Seq(A))
           /\ Len(Grammar(s)) = Len(p) + 1
           /\ \A n \in 1 .. Len(p) : p[n] = Grammar(s)[n + 1] /\ p[n] # <<>>
           /\ Len(p) >= 2 =>
                 /\ \A j \in 1 .. Len(p[1]) : p[1][j] # Space
                 /\ p[1][1] # ":"
<1> DEFINE B == Seq(A)
           first == <<parseCommand(s).command>>
           G == Grammar(s)
<1>1. first \in Seq(B) /\ p \in Seq(B) /\ G = first \o p /\ Len(first) = 1
  <2> DEFINE c == parseCommand(s).command
  <2>1. c \in B /\ p \in Seq(B) /\ <<c>> \o p = G
    BY ParseIsGrammar
  <2> HIDE DEF B, c, G
  <2>2. <<c>> \in Seq(B) /\ Len(<<c>>) = 1
    BY <2>1
  <2> QED
    BY <2>1, <2>2 DEF c
<1>2. /\ G \in Seq(Seq(A))
      /\ \A n \in 1 .. Len(G) : G[n] # <<>>
      /\ Len(G) >= 3 =>
            /\ \A j \in 1 .. Len(G[2]) : G[2][j] # Space
            /\ G[2][1] # ":"
  BY GrammarGives
<1> HIDE DEF first, G
<1>3. IsJoined(G, first, p)
  <2> HIDE DEF B
  <2>1. IsJoined(first \o p, first, p)
    BY <1>1, Joined
  <2> QED
    BY <1>1, <2>1
<1>4. Len(p) \in Nat /\ Len(G) = Len(p) + 1 /\ \A n \in 1 .. Len(p) : G[1 + n] = p[n]
  BY <1>1, <1>3 DEF IsJoined
<1>5. ASSUME NEW n \in 1 .. Len(p)
      PROVE  n + 1 = 1 + n /\ n + 1 \in 1 .. Len(G)
  BY <1>4
<1>6. \A n \in 1 .. Len(p) : p[n] = G[n + 1] /\ p[n] # <<>>
  BY <1>2, <1>4, <1>5
<1>7. ASSUME Len(p) >= 2
      PROVE  /\ \A j \in 1 .. Len(p[1]) : p[1][j] # Space
             /\ p[1][1] # ":"
  <2>1. 1 \in 1 .. Len(p) /\ Len(G) >= 3 /\ 1 + 1 = 2
    BY <1>4, <1>7
  <2>2. p[1] = G[2]
    BY <1>4, <2>1
  <2> QED
    BY <1>2, <2>1, <2>2
<1> QED
  BY <1>1, <1>4, <1>6, <1>7 DEF G

\* The parameters of what a client writes.
LEMMA SaidType ==
    ASSUME Typed
    PROVE  /\ Said.params \in Seq(Seq(Char))
           /\ \A n \in 1 .. Len(Said.params) : Said.params[n] # <<>>
           /\ Len(Said.params) >= 2 =>
                 /\ \A j \in 1 .. Len(Said.params[1]) : Said.params[1][j] # Space
                 /\ Said.params[1][1] # ":"
<1> DEFINE s == Command(line)
           p == Said.params
<1>1. line \in Seq(Char) /\ "a" \in Char /\ Space \in Char
  BY ParsingAssumption DEF Typed
<1>2. s \in Seq(Char) /\ s # <<>> /\ s[1] = "a"
  BY <1>1, CommandType
<1>3. p = parseCommand(s).params
  BY DEF Said
<1>4. s[1] # ":" /\ s[1] # Space
  BY <1>2, Characters
<1> HIDE DEF s, p
<1>5. /\ p \in Seq(Seq(Char))
      /\ \A n \in 1 .. Len(p) : p[n] # <<>>
      /\ Len(p) >= 2 =>
            /\ \A j \in 1 .. Len(p[1]) : p[1][j] # Space
            /\ p[1][1] # ":"
  BY <1>2, <1>3, <1>4, ParamsAre
<1> QED
  BY <1>5 DEF p

\* The channels of a JOIN are the fields of its first parameter, but for an empty
\* one at the end, and each of them is asked for with the key in the same place:
\* handleJoin pairs two lists that are split apart from each other.
THEOREM KeysGoToTheirChannels == Spec => []KeysStayWithChannels
<1>1. Typed => KeysStayWithChannels
  <2> SUFFICES ASSUME Typed, Said.params # <<>>
               PROVE  LET p == Said.params
                          requests == handleJoin(p)
                          key(n) == IF Len(p) > 1 /\ n <= Fields(p[2]) THEN Field(p[2], n) ELSE <<>>
                      IN  /\ Len(requests) = Fields(p[1]) - (IF p[1][Len(p[1])] = Comma THEN 1 ELSE 0)
                          /\ \A n \in DOMAIN requests : requests[n] = <<Field(p[1], n), key(n)>>
    BY DEF KeysStayWithChannels
  <2> DEFINE p == Said.params
             requests == handleJoin(p)
             key(n) == IF Len(p) > 1 /\ n <= Fields(p[2]) THEN Field(p[2], n) ELSE <<>>
             channels == split(p[1], Comma)
             keys == split(p[2], Comma)
             keyOf(k) == IF k \in DOMAIN (IF Len(p) > 1 THEN keys ELSE <<>>)
                         THEN (IF Len(p) > 1 THEN keys ELSE <<>>)[k] ELSE <<>>
  <2>1. requests = [k \in DOMAIN channels |-> <<channels[k], keyOf(k)>>]
    BY DEF handleJoin, parseChannelList, parseKeyList
  <2>2. p \in Seq(Seq(Char)) /\ p # <<>> /\ \A n \in 1 .. Len(p) : p[n] # <<>>
    BY SaidType
  <2> HIDE DEF p
  <2>3. Len(p) \in Nat /\ 1 \in 1 .. Len(p) /\ p[1] \in Seq(Char) /\ p[1] # <<>>
    BY <2>2
  <2>4. /\ channels \in Seq(Seq(Char)) /\ Fields(p[1]) \in Nat
        /\ Len(channels) = Fields(p[1]) - (IF p[1][Len(p[1])] = Comma THEN 1 ELSE 0)
        /\ \A n \in 1 .. Len(channels) : channels[n] = Field(p[1], n)
    <3> DEFINE c == p[1]
    <3>1. c \in Seq(Char) /\ c # <<>>
      BY <2>3
    <3> HIDE DEF c
    <3>2. /\ split(c, Comma) \in Seq(Seq(Char)) /\ Fields(c) \in Nat
          /\ Len(split(c, Comma)) = Fields(c) - (IF c[Len(c)] = Comma THEN 1 ELSE 0)
          /\ \A n \in 1 .. Len(split(c, Comma)) : split(c, Comma)[n] = Field(c, n)
      BY <3>1, SplitIntoFields
    <3> QED
      BY <3>2 DEF c
  <2>5. ASSUME NEW n \in 1 .. Len(channels)
        PROVE  keyOf(n) = key(n)
    <3>1. CASE ~(Len(p) > 1)
      BY <3>1
    <3>2. CASE Len(p) > 1
      <4> DEFINE k == p[2]
                 N == Len(split(k, Comma))
      <4>1. 2 \in 1 .. Len(p)
        BY <2>3, <3>2
      <4>2. k \in Seq(Char)
        BY <2>2, <4>1
      <4> HIDE DEF k
      <4>3. /\ split(k, Comma) \in Seq(Seq(Char)) /\ Fields(k) \in Nat
            /\ N = Fields(k) - (IF k = <<>> \/ k[Len(k)] = Comma THEN 1 ELSE 0)
            /\ \A m \in 1 .. N : split(k, Comma)[m] = Field(k, m)
            /\ k = <<>> \/ k[Len(k)] = Comma => Field(k, Fields(k)) = <<>>
        BY <4>2, SplitIntoFields
      <4>4. DOMAIN split(k, Comma) = 1 .. N /\ N \in Nat
        BY <4>3
      <4> HIDE DEF N
      <4>5. n \in Nat /\ n >= 1
        <5>1. Len(channels) \in Nat
          BY <2>4
        <5> QED
          BY <5>1
      <4>6. CASE n <= N
        <5>1. n \in 1 .. N /\ n <= Fields(k)
          BY <4>3, <4>4, <4>5, <4>6
        <5>2. keyOf(n) = split(k, Comma)[n] /\ key(n) = Field(k, n)
          BY <3>2, <4>4, <5>1 DEF k
        <5> QED
          BY <4>3, <5>1, <5>2
      <4>7. CASE ~(n <= N)
        <5>1. n \notin 1 .. N
          BY <4>4, <4>7
        <5>2. keyOf(n) = <<>>
          BY <3>2, <4>4, <5>1 DEF k
        <5>3. n <= Fields(k) => n = Fields(k) /\ (k = <<>> \/ k[Len(k)] = Comma)
          BY <4>3, <4>4, <4>5, <4>7
        <5>4. key(n) = <<>>
          BY <3>2, <4>3, <5>3 DEF k
        <5> QED
          BY <5>2, <5>4
      <4> QED
        BY <4>6, <4>7
    <3> QED
      BY <3>1, <3>2
  <2> HIDE DEF channels, keyOf, key
  <2>6. /\ DOMAIN channels = 1 .. Len(channels) /\ Len(channels) \in Nat
        /\ requests = [k \in 1 .. Len(channels) |-> <<channels[k], keyOf(k)>>]
    BY <2>1, <2>4
  <2>7. Len(requests) = Len(channels) /\ DOMAIN requests = 1 .. Len(channels)
    BY <2>6
  <2>8. \A n \in DOMAIN requests : requests[n] = <<Field(p[1], n), key(n)>>
    BY <2>4, <2>5, <2>6, <2>7
  <2> QED
    BY <2>4, <2>7, <2>8 DEF p, key
<1> QED
  BY <1>1, AlwaysTyped, PTL

-----------------------------------------------------------------------------
(* Lines that the server or a client writes.                               *)

\* A word behind a command.
LEMMA CommandWord ==
    ASSUME NEW A, NEW w \in Seq(A), "a" \in A, Space \in A,
           w # <<>>, \A j \in 1 .. Len(w) : w[j] # Space
    PROVE  Words(Command(w)) = <<<<"a">>, w>>
<1> DEFINE s == Command(w)
           N == Len(w) + 2
           W == WordStarts(s)
           a == <<"a">>
           ws == <<a, w>>
<1>1. /\ s \in Seq(A) /\ Len(s) = N /\ s # <<>>
      /\ s[1] = "a" /\ s[2] = Space
      /\ \A k \in 1 .. Len(w) : s[k + 2] = w[k]
      /\ From(s, 3) = w
  BY CommandType
<1> HIDE DEF s
<1>2. Len(w) \in Nat /\ Len(w) >= 1 /\ N \in Nat /\ N >= 3 /\ 1 \in 1 .. N /\ 2 \in 1 .. N /\ 3 \in 1 .. N
  OBVIOUS
<1>3. ASSUME NEW k \in 3 .. N
      PROVE  s[k] # Space
  <2> DEFINE j == k - 2
  <2>1. j \in 1 .. Len(w) /\ j + 2 = k
    BY <1>2
  <2> HIDE DEF j
  <2> QED
    BY <1>1, <2>1
<1>4. /\ W \in SUBSET (1 .. N)
      /\ \A k \in 1 .. N : k \in W <=> s[k] # Space /\ (k = 1 \/ s[k - 1] = Space)
  <2> HIDE DEF N
  <2> QED
    BY <1>1, WordStartsType
<1>5. \A k : k \in W <=> k = 1 \/ k = 3
  <2> SUFFICES ASSUME NEW k
               PROVE  k \in W <=> k = 1 \/ k = 3
    OBVIOUS
  <2>1. 1 \in W
    BY <1>1, <1>2, <1>4, Characters
  <2>2. 3 \in W
    <3>1. 3 \in 3 .. N /\ 3 - 1 = 2
      BY <1>2
    <3> QED
      BY <1>1, <1>2, <1>3, <1>4, <3>1
  <2>3. ASSUME k \in W, k # 1, k # 3
        PROVE  FALSE
    <3>1. k \in 1 .. N /\ s[k] # Space /\ s[k - 1] = Space
      BY <1>4, <2>3
    <3>2. k # 2 /\ k - 1 \in 3 .. N
      BY <1>1, <1>2, <2>3, <3>1
    <3> QED
      BY <1>3, <3>1, <3>2
  <2> QED
    BY <2>1, <2>2, <2>3
<1>6. WordAt(s, 1) = a
  <2>1. SubSeq(s, 1, 1) = <<s[1]>>
    <3> DEFINE one == SubSeq(s, 1, 1)
    <3>1. 1 \in Nat /\ 1 <= 1 /\ 1 <= 1 + 1 /\ 1 <= Len(s) /\ 1 - 1 + 1 = 1 /\ 1 + 1 - 1 = 1
      BY <1>1, <1>2
    <3>2. one \in Seq(A) /\ Len(one) = 1 - 1 + 1 /\ \A m \in 1 .. 1 - 1 + 1 : one[m] = s[1 + m - 1]
      BY <1>1, <3>1, Stretch
    <3>3. Len(one) = 1 /\ one[1] = s[1]
      <4>1. 1 \in 1 .. 1 - 1 + 1
        OBVIOUS
      <4> QED
        BY <3>1, <3>2, <4>1
    <3> HIDE DEF one
    <3>4. one = <<one[1]>>
      BY <3>2, <3>3
    <3> QED
      BY <3>3, <3>4 DEF one
  <2>2. WordAt(s, 1) = SubSeq(s, 1, 1)
    <3>1. /\ 1 \in Nat /\ 1 <= 1 /\ 1 <= Len(s) /\ 1 + 1 = 2
          /\ \A k \in 1 .. 1 : s[k] # Space
      BY <1>1, <1>2, Characters
    <3> QED
      BY <1>1, <3>1, WordIs
  <2> QED
    BY <1>1, <2>1, <2>2
<1>7. WordAt(s, 3) = w
  <2>1. 3 \in Nat /\ N \in Nat /\ 1 <= 3 /\ 3 <= N /\ N <= Len(s) /\ N = Len(s)
    BY <1>1, <1>2
  <2> HIDE DEF N
  <2>2. WordAt(s, 3) = SubSeq(s, 3, N)
    BY <1>1, <1>3, <2>1, WordIs
  <2> QED
    BY <1>1, <2>2 DEF From
<1>8. Rank(W, 1) = 1 /\ Rank(W, 3) = 2 /\ Rank(W, N) = 2
  <2> HIDE DEF N, W
  <2>1. /\ Rank(W, 0) = 0
        /\ \A k \in Nat : k >= 1 => Rank(W, k) = Rank(W, k - 1) + (IF k \in W THEN 1 ELSE 0)
    BY <1>2, <1>4, RankSteps
  <2>2. Rank(W, 1) = 1
    <3>1. 1 \in Nat /\ 1 >= 1 /\ 1 - 1 = 0 /\ 1 \in W
      BY <1>5
    <3> QED
      BY <2>1, <3>1
  <2>3. Rank(W, 2) = 1
    <3>1. 2 \in Nat /\ 2 >= 1 /\ 2 - 1 = 1 /\ 2 \notin W
      BY <1>5
    <3> QED
      BY <2>1, <2>2, <3>1
  <2>4. Rank(W, 3) = 2
    <3>1. 3 \in Nat /\ 3 >= 1 /\ 3 - 1 = 2 /\ 3 \in W
      BY <1>5
    <3> QED
      BY <2>1, <2>3, <3>1
  <2>5. Rank(W, 3) = Rank(W, N)
    <3>1. 3 \in Nat /\ N \in Nat /\ 3 <= N /\ \A k \in W : 3 < k => ~(k <= N)
      BY <1>2, <1>5
    <3> QED
      BY <1>4, <3>1, RankGrows
  <2> QED
    BY <2>2, <2>4, <2>5
<1>9. ws \in Seq(Seq(A)) /\ Len(ws) = 2 /\ ws[1] = a /\ ws[2] = w
  <2>1. a \in Seq(A)
    OBVIOUS
  <2> QED
    BY <2>1
<1> HIDE DEF ws, N, W, a
<1>10. HasWords(s, ws, Len(s))
  BY <1>1, <1>5, <1>6, <1>7, <1>8, <1>9 DEF HasWords, W
<1>11. ws = Words(s)
  BY <1>1, <1>9, <1>10, WordsInOrder
<1> QED
  BY <1>11 DEF ws, a, s

\* Given alone, a word that starts with no colon is the one parameter.
LEMMA OneParameter ==
    ASSUME NEW A, NEW w \in Seq(A), "a" \in A, Space \in A,
           w # <<>>, w[1] # ":", \A j \in 1 .. Len(w) : w[j] # Space
    PROVE  parseCommand(Command(w)).params = <<w>>
<1> DEFINE s == Command(w)
           p == parseCommand(s).params
           a == <<"a">>
           ws == <<a, w>>
<1>1. /\ s \in Seq(A) /\ Len(s) = Len(w) + 2 /\ s # <<>>
      /\ s[1] = "a" /\ s[2] = Space
      /\ \A k \in 1 .. Len(w) : s[k + 2] = w[k]
  BY CommandType
<1>2. Words(s) = ws
  BY CommandWord
<1> HIDE DEF s
<1>3. Colons(s) = {}
  <2> SUFFICES ASSUME NEW k \in Colons(s)
               PROVE  FALSE
    OBVIOUS
  <2>1. Len(w) \in Nat /\ Len(w) >= 1 /\ 1 \in 1 .. Len(w)
    OBVIOUS
  <2>2. k \in 2 .. Len(w) + 2 /\ s[k - 1] = Space /\ s[k] = ":"
    BY <1>1 DEF Colons
  <2>3. CASE k = 2
    BY <1>1, <2>2, <2>3, Characters
  <2>4. CASE k = 3
    <3>1. 1 + 2 = 3
      OBVIOUS
    <3> QED
      BY <1>1, <2>1, <2>2, <2>4, <3>1
  <2>5. CASE k # 2 /\ k # 3
    <3>1. k - 3 \in 1 .. Len(w) /\ k - 3 + 2 = k - 1
      BY <2>1, <2>2, <2>5
    <3> QED
      BY <1>1, <2>2, <3>1
  <2> QED
    BY <2>3, <2>4, <2>5
<1>4. Grammar(s) = ws
  BY <1>2, <1>3 DEF Grammar
<1>5. s[1] # ":" /\ s[1] # Space
  BY <1>1, Characters
<1> HIDE DEF p, a
<1>6. Len(ws) = 2 /\ ws[2] = w
  OBVIOUS
<1> HIDE DEF ws
<1>7. /\ p \in Seq(Seq(A)) /\ Len(ws) = Len(p) + 1
      /\ \A n \in 1 .. Len(p) : p[n] = ws[n + 1]
  <2>1. p = parseCommand(s).params
    BY DEF p
  <2> QED
    BY <1>1, <1>4, <1>5, <2>1, ParamsAre
<1>8. Len(p) = 1 /\ p[1] = w
  <2>1. Len(p) = 1
    <3> DEFINE l == Len(p)
    <3>1. l \in Nat
      BY <1>7
    <3>2. 2 = l + 1
      BY <1>6, <1>7
    <3> HIDE DEF l
    <3>3. l = 1
      BY <3>1, <3>2
    <3> QED
      BY <3>3 DEF l
  <2>2. 1 \in 1 .. Len(p) /\ 1 + 1 = 2
    BY <2>1
  <2> QED
    BY <1>6, <1>7, <2>1, <2>2
<1>9. p = <<p[1]>>
  BY <1>7, <1>8
<1> QED
  BY <1>8, <1>9 DEF p, s

\* What stands before a trailing parameter.
Middle == <<Space, ":">>

\* A word and, behind a colon, anything: these are the two parameters.
LEMMA TwoParameters ==
    ASSUME NEW A, NEW w \in Seq(A), NEW t \in Seq(A), "a" \in A, Space \in A, ":" \in A,
           w # <<>>, w[1] # ":", \A j \in 1 .. Len(w) : w[j] # Space, t # <<>>
    PROVE  /\ Command(w) \o Middle \o t \in Seq(A)
           /\ Command(w) \o Middle \o t # <<>> /\ (Command(w) \o Middle \o t)[1] = "a"
           /\ parseCommand(Command(w) \o Middle \o t).params = <<w, t>>
<1> DEFINE v == Command(w)
           n == Len(w)
           u == v \o Middle
           r == Middle \o t
           s == u \o t
           p == parseCommand(s).params
           a == <<"a">>
           ws == <<a, w>>
           g == <<a, w, t>>
<1>1. /\ v \in Seq(A) /\ Len(v) = n + 2
      /\ v[1] = "a" /\ v[2] = Space
      /\ \A k \in 1 .. n : v[k + 2] = w[k]
  BY CommandType
<1>2. Words(v) = ws
  BY CommandWord
<1>3. n \in Nat /\ n >= 1 /\ w \in Seq(A) /\ 1 \in 1 .. n
  OBVIOUS
<1> HIDE DEF v, n
<1>4. Middle \in Seq(A) /\ Len(Middle) = 2 /\ Middle[1] = Space /\ Middle[2] = ":"
  BY DEF Middle
<1>5. u \in Seq(A) /\ IsJoined(u, v, Middle)
  BY <1>1, <1>4, Joined
<1>6. r \in Seq(A)
  BY <1>4, Joined
<1>7. s = v \o r
  <2>1. (v \o Middle) \o t = v \o (Middle \o t)
    <3>1. \A x, y, z \in Seq(A) : (x \o y) \o z = x \o (y \o z)
      BY ConcatAssociative
    <3> QED
      BY <1>1, <1>4, <3>1
  <2> QED
    BY <2>1
<1> HIDE DEF u
<1>8. s \in Seq(A) /\ IsJoined(s, u, t)
  BY <1>5, Joined
<1> HIDE DEF r, s
<1>9. IsJoined(s, v, r)
  <2>1. IsJoined(v \o r, v, r)
    BY <1>1, <1>6, Joined
  <2> QED
    BY <1>7, <2>1
<1>10. Len(u) = n + 4 /\ u[n + 3] = Space /\ u[n + 4] = ":"
  <2>1. Len(u) = Len(v) + 2 /\ u[Len(v) + 1] = Space /\ u[Len(v) + 2] = ":"
    <3>1. 1 \in 1 .. 2 /\ 2 \in 1 .. 2
      OBVIOUS
    <3> QED
      BY <1>4, <1>5, <3>1 DEF IsJoined
  <2>2. Len(v) + 1 = n + 3 /\ Len(v) + 2 = n + 4
    BY <1>1, <1>3
  <2> QED
    BY <2>1, <2>2
<1> DEFINE m == n + 4
<1>11. /\ Len(s) = m + Len(t) /\ From(s, m + 1) = t
       /\ \A k \in 1 .. m : s[k] = u[k]
  <2> HIDE DEF m
  <2>1. Len(u) = m
    BY <1>10 DEF m
  <2> QED
    BY <1>8, <2>1 DEF IsJoined
<1>12. /\ SubSeq(s, 1, n + 2) = v
       /\ \A k \in 1 .. n + 2 : s[k] = v[k]
  BY <1>1, <1>9 DEF IsJoined
<1>13. /\ m \in Nat /\ m - 1 = n + 3 /\ m - 2 = n + 2 /\ m \in 1 .. m /\ n + 3 \in 1 .. m
       /\ Len(t) \in Nat /\ m \in 2 .. Len(s) /\ 1 \in 1 .. n + 2
  BY <1>3, <1>11
<1>14. m \in Colons(s)
  <2>1. s[m] = ":" /\ s[m - 1] = Space
    BY <1>10, <1>11, <1>13
  <2> QED
    BY <1>13, <2>1 DEF Colons
<1>15. ASSUME NEW k \in Colons(s), k < m
       PROVE  FALSE
  <2>1. k \in 2 .. Len(s) /\ s[k - 1] = Space /\ s[k] = ":" /\ Len(s) \in Nat
    BY <1>11, <1>13 DEF Colons
  <2>2. k \in Nat /\ 2 <= k /\ k <= n + 3
    BY <1>3, <1>13, <1>15, <2>1
  <2>3. CASE k = 2
    <3>1. 1 \in 1 .. n + 2 /\ k - 1 = 1
      BY <1>13, <2>3
    <3>2. s[k - 1] = "a"
      BY <1>1, <1>12, <3>1
    <3> QED
      BY <2>1, <3>2, Characters
  <2>4. CASE k = 3
    <3>1. 3 \in 1 .. n + 2 /\ 1 + 2 = 3
      BY <1>3
    <3>2. s[3] = w[1]
      BY <1>1, <1>3, <1>12, <3>1
    <3> QED
      BY <2>1, <2>4, <3>2
  <2>5. CASE k # 2 /\ k # 3
    <3> DEFINE j == k - 3
    <3>1. j \in 1 .. n /\ j + 2 = k - 1 /\ j + 2 \in 1 .. n + 2
      BY <1>3, <2>2, <2>5
    <3> HIDE DEF j
    <3>2. s[k - 1] = w[j]
      BY <1>1, <1>12, <3>1
    <3> QED
      BY <2>1, <3>1, <3>2 DEF n
  <2> QED
    BY <2>3, <2>4, <2>5
<1>16. Min(Colons(s)) = m
  <2> DEFINE c == Min(Colons(s))
  <2>1. c \in Colons(s) /\ \A k \in Colons(s) : c <= k
    BY <1>8, <1>14, FindColon
  <2> HIDE DEF c, m
  <2>2. c \in Nat /\ c <= m
    <3>1. Len(s) \in Nat
      BY <1>8
    <3> QED
      BY <1>14, <2>1, <3>1 DEF Colons
  <2>3. ~(c < m)
    BY <1>15, <2>1
  <2>4. c = m
    BY <1>13, <2>2, <2>3
  <2> QED
    BY <2>4 DEF c
<1>17. Grammar(s) = AppendNonEmpty(ws, t)
  <2> HIDE DEF m
  <2> QED
    BY <1>2, <1>11, <1>12, <1>13, <1>14, <1>16 DEF Grammar
<1>18. AppendNonEmpty(ws, t) = g
  <2>1. Append(ws, t) = g
    <3> DEFINE B == Seq(A)
    <3>1. a \in B /\ w \in B /\ t \in B
      OBVIOUS
    <3> HIDE DEF a, B
    <3> DEFINE more == Append(ws, t)
    <3>2. ws \in Seq(B) /\ Len(ws) = 2 /\ ws[1] = a /\ ws[2] = w
      BY <3>1
    <3>3. g \in Seq(B) /\ Len(g) = 3 /\ g[1] = a /\ g[2] = w /\ g[3] = t
      BY <3>1
    <3> HIDE DEF ws, g
    <3>4. /\ more \in Seq(B) /\ Len(more) = Len(ws) + 1 /\ more[Len(ws) + 1] = t
          /\ \A k \in 1 .. Len(ws) : more[k] = ws[k]
      <4>1. \A q \in Seq(B), e \in B :
                /\ Append(q, e) \in Seq(B) /\ Len(Append(q, e)) = Len(q) + 1
                /\ Append(q, e)[Len(q) + 1] = e
                /\ \A k \in 1 .. Len(q) : Append(q, e)[k] = q[k]
        BY AppendProperties
      <4> QED
        BY <3>1, <3>2, <4>1
    <3> HIDE DEF more
    <3>5. /\ Len(more) = 3 /\ more[3] = t /\ more[1] = a /\ more[2] = w
      BY <3>2, <3>4
    <3>6. \A k \in 1 .. Len(more) : k = 1 \/ k = 2 \/ k = 3
      BY <3>5
    <3>7. \A k \in 1 .. Len(more) : more[k] = g[k]
      BY <3>3, <3>5, <3>6
    <3>8. more = g
      BY <3>3, <3>4, <3>5, <3>7, SeqEqual
    <3> QED
      BY <3>8 DEF more
  <2> QED
    BY <2>1 DEF AppendNonEmpty
<1>19. s # <<>> /\ s[1] = "a" /\ s[1] # ":" /\ s[1] # Space
  <2>1. s[1] = "a"
    BY <1>1, <1>12, <1>13
  <2>2. s # <<>>
    <3>1. Len(s) # 0
      BY <1>13
    <3> QED
      BY <3>1
  <2> QED
    BY <2>1, <2>2, Characters
<1> HIDE DEF p, a
<1>20. Len(g) = 3 /\ g[2] = w /\ g[3] = t
  OBVIOUS
<1> HIDE DEF g
<1>21. /\ p \in Seq(Seq(A)) /\ Len(g) = Len(p) + 1
       /\ \A k \in 1 .. Len(p) : p[k] = g[k + 1]
  <2>1. p = parseCommand(s).params /\ Grammar(s) = g
    BY <1>17, <1>18 DEF p
  <2> QED
    BY <1>8, <1>19, <2>1, ParamsAre
<1>22. Len(p) = 2 /\ p[1] = w /\ p[2] = t
  <2>1. Len(p) = 2
    <3> DEFINE l == Len(p)
    <3>1. l \in Nat
      BY <1>21
    <3>2. 3 = l + 1
      BY <1>20, <1>21
    <3> HIDE DEF l
    <3>3. l = 2
      BY <3>1, <3>2
    <3> QED
      BY <3>3 DEF l
  <2>2. 1 \in 1 .. Len(p) /\ 2 \in 1 .. Len(p) /\ 1 + 1 = 2 /\ 2 + 1 = 3
    BY <2>1
  <2> QED
    BY <1>20, <1>21, <2>1, <2>2
<1>23. p = <<p[1], p[2]>>
  BY <1>21, <1>22
<1> QED
  BY <1>8, <1>19, <1>22, <1>23 DEF p, s, u, v

\* Texts in a row, taken from one side or the other.
Then(x, y) == x \o y

\* In whatever order they are put together, the text is the same.
LEMMA ThenIsAssociative ==
    ASSUME NEW A
    PROVE  \A x, y, z \in Seq(A) :
              Then(x, y) \in Seq(A) /\ Then(Then(x, y), z) = Then(x, Then(y, z))
<1>1. \A x, y, z \in Seq(A) : (x \o y) \o z = x \o (y \o z)
  BY ConcatAssociative
<1>2. \A x, y \in Seq(A) : x \o y \in Seq(A)
  BY Joined
<1> QED
  BY <1>1, <1>2 DEF Then

\* Putting the first one before the rest is putting the last one behind it.
InARow(x, a, b, c, d) == (((x \o a) \o b) \o c) \o d = x \o (((a \o b) \o c) \o d)

\* Five texts.
LEMMA FiveInARow ==
    ASSUME NEW A, NEW x \in Seq(A), NEW a \in Seq(A), NEW b \in Seq(A), NEW c \in Seq(A),
           NEW d \in Seq(A)
    PROVE  InARow(x, a, b, c, d)
<1> DEFINE T == Seq(A)
<1>1. \A p, q, r \in T : Then(p, q) \in T /\ Then(Then(p, q), r) = Then(p, Then(q, r))
  BY ThenIsAssociative
<1>2. x \in T /\ a \in T /\ b \in T /\ c \in T /\ d \in T
  OBVIOUS
<1> HIDE DEF T
<1>3. Then(Then(x, a), b) = Then(x, Then(a, b)) /\ Then(a, b) \in T
  BY <1>1, <1>2
<1>4. /\ Then(Then(x, Then(a, b)), c) = Then(x, Then(Then(a, b), c))
      /\ Then(Then(a, b), c) \in T
  BY <1>1, <1>2, <1>3
<1>5. Then(Then(x, Then(Then(a, b), c)), d) = Then(x, Then(Then(Then(a, b), c), d))
  BY <1>1, <1>2, <1>4
<1>6. Then(Then(Then(Then(x, a), b), c), d) = Then(x, Then(Then(Then(a, b), c), d))
  BY <1>3, <1>4, <1>5
<1> QED
  BY <1>6 DEF Then, InARow

\* What a client writes is relayed so that it is read as it was meant: handlePrivmsg
\* and handleNotice put the colon back that parseCommand took away, and the
\* target, a word, can be read for nothing else.
THEOREM RelayedLinesAreIntact == Spec => []RelayedIntact
<1>1. Typed => RelayedIntact
  <2> SUFFICES ASSUME Typed, Len(Said.params) >= 2
               PROVE  parseCommand(handlePrivmsg(Said.params)).params = SubSeq(Said.params, 1, 2)
    BY DEF RelayedIntact
  <2> DEFINE p == Said.params
             w == p[1]
             t == p[2]
             c == <<"a", Space>>
             v == Command(w)
             s == v \o Middle \o t
  <2>1. /\ p \in Seq(Seq(Char)) /\ Len(p) >= 2
        /\ \A n \in 1 .. Len(p) : p[n] # <<>>
        /\ \A j \in 1 .. Len(w) : w[j] # Space
        /\ w[1] # ":"
    BY SaidType
  <2> HIDE DEF p
  <2>2. /\ "a" \in Written /\ Space \in Written /\ ":" \in Written
    BY ParsingAssumption DEF Written
  <2>3. 1 \in 1 .. Len(p) /\ 2 \in 1 .. Len(p)
    BY <2>1
  <2>4. w \in Seq(Written) /\ t \in Seq(Written) /\ w # <<>> /\ t # <<>>
    <3>1. w \in Seq(Char) /\ t \in Seq(Char) /\ w # <<>> /\ t # <<>>
      BY <2>1, <2>3
    <3> HIDE DEF w, t
    <3> QED
      BY <3>1 DEF Written
  <2>5. /\ s \in Seq(Written) /\ s # <<>> /\ s[1] = "a"
        /\ parseCommand(s).params = <<w, t>>
    <3> HIDE DEF w, t
    <3> QED
      BY <2>1, <2>2, <2>4, TwoParameters
  <2>6. handlePrivmsg(p) = Prefix \o s
    <3>1. handlePrivmsg(p) = (((Prefix \o c) \o w) \o Middle) \o t
      BY DEF handlePrivmsg, Middle
    <3>2. v = c \o w
      BY DEF Command
    <3>4. Prefix \in Seq(Written) /\ c \in Seq(Written) /\ Middle \in Seq(Written)
      <4>1. {Space, ":", "a", "!", "@"} \subseteq Written
        BY ParsingAssumption DEF Written
      <4> QED
        BY <4>1 DEF Prefix, Middle
    <3> HIDE DEF w, t, c
    <3>5. (((Prefix \o c) \o w) \o Middle) \o t = Prefix \o (((c \o w) \o Middle) \o t)
      <4> DEFINE A == Written
      <4>1. /\ Prefix \in Seq(A) /\ c \in Seq(A) /\ w \in Seq(A) /\ Middle \in Seq(A)
            /\ t \in Seq(A)
        BY <2>4, <3>4
      <4> HIDE DEF A
      <4>2. InARow(Prefix, c, w, Middle, t)
        BY <4>1, FiveInARow
      <4> QED
        BY <4>2 DEF InARow
    <3> QED
      BY <3>1, <3>2, <3>5
  <2> HIDE DEF s
  <2>7. parseCommand(Prefix \o s) = parseCommand(s)
    BY <2>5, PrefixIsIgnored, Characters
  <2>8. SubSeq(p, 1, 2) = <<w, t>>
    <3> DEFINE B == Seq(Char)
               r == SubSeq(p, 1, 2)
    <3>1. p \in Seq(B) /\ 1 \in Nat /\ 2 \in Nat /\ 1 <= 1 /\ 1 <= 2 + 1 /\ 2 <= Len(p)
      BY <2>1
    <3> HIDE DEF B
    <3>2. r \in Seq(B) /\ Len(r) = 2 - 1 + 1 /\ \A k \in 1 .. 2 - 1 + 1 : r[k] = p[1 + k - 1]
      BY <3>1, Stretch
    <3>3. 1 \in 1 .. 2 - 1 + 1 /\ 2 \in 1 .. 2 - 1 + 1 /\ 1 + 1 - 1 = 1 /\ 1 + 2 - 1 = 2
      OBVIOUS
    <3>4. Len(r) = 2 /\ r[1] = w /\ r[2] = t
      BY <3>2, <3>3
    <3> HIDE DEF r
    <3>5. r = <<r[1], r[2]>>
      BY <3>2, <3>4
    <3> QED
      BY <3>4, <3>5 DEF r
  <2> QED
    BY <2>5, <2>6, <2>7, <2>8 DEF p
<1> QED
  BY <1>1, AlwaysTyped, PTL

\* A text without a comma is a list of one.
LEMMA ListOfOne ==
    ASSUME NEW A, NEW w \in Seq(A), w # <<>>, \A k \in 1 .. Len(w) : w[k] # Comma
    PROVE  split(w, Comma) = <<w>>
<1> DEFINE P == Places(w, Comma)
           n == Len(w)
           parts == split(w, Comma)
<1>1. n \in Nat /\ n >= 1 /\ n \in 1 .. n
  OBVIOUS
<1>2. P = {}
  <2>1. DOMAIN w = 1 .. n
    OBVIOUS
  <2> QED
    BY <2>1 DEF Places
<1>3. Fields(w) = 1
  BY <1>2, FS_EmptySet DEF Fields
<1>4. /\ parts \in Seq(Seq(A)) /\ Len(parts) = Fields(w) - (IF w = <<>> \/ w[n] = Comma THEN 1 ELSE 0)
      /\ \A k \in 1 .. Len(parts) : parts[k] = Field(w, k)
  BY SplitIntoFields
<1> HIDE DEF parts
<1>5. Len(parts) = 1
  BY <1>1, <1>3, <1>4
<1>6. Field(w, 1) = w
  <2>1. Rank(P, 0) = 0
    <3>1. P \in SUBSET (1 .. n)
      BY <1>2
    <3> QED
      BY <1>1, <3>1, RankSteps
  <2>2. 1 \in Nat /\ n \in Nat /\ 1 <= 1 /\ 1 <= n + 1 /\ n <= Len(w) /\ n = Len(w) /\ 1 - 1 = 0
    BY <1>1
  <2>3. Field(w, Rank(P, 1 - 1) + 1) = SubSeq(w, 1, n)
    <3> HIDE DEF n
    <3> QED
      BY <2>2, FieldIs
  <2>4. SubSeq(w, 1, n) = w
    BY <1>1, SubSeqFull
  <2>5. Rank(P, 1 - 1) + 1 = 1
    BY <2>1, <2>2
  <2> QED
    BY <2>3, <2>4, <2>5
<1>7. parts[1] = w
  <2>1. 1 \in 1 .. Len(parts)
    BY <1>5
  <2> QED
    BY <1>4, <1>6, <2>1
<1>8. parts = <<parts[1]>>
  BY <1>4, <1>5
<1> QED
  BY <1>7, <1>8 DEF parts

\* Two of them with a comma between are a list of two.
LEMMA ListOfTwo ==
    ASSUME NEW A, NEW w \in Seq(A), w # <<>>, \A k \in 1 .. Len(w) : w[k] # Comma, Comma \in A
    PROVE  split(w \o <<Comma>> \o w, Comma) = <<w, w>>
<1> DEFINE n == Len(w)
           c == <<Comma>>
           u == w \o c
           s == u \o w
           P == Places(s, Comma)
           parts == split(s, Comma)
<1>1. n \in Nat /\ n >= 1 /\ c \in Seq(A) /\ Len(c) = 1 /\ c[1] = Comma /\ 1 \in 1 .. 1
  OBVIOUS
<1> HIDE DEF c
<1>2. u \in Seq(A) /\ IsJoined(u, w, c)
  BY <1>1, Joined
<1> HIDE DEF u
<1>3. s \in Seq(A) /\ IsJoined(s, u, w)
  BY <1>2, Joined
<1> HIDE DEF s
<1>4. /\ Len(u) = n + 1 /\ u[n + 1] = Comma
      /\ \A k \in 1 .. n : u[k] = w[k]
      /\ SubSeq(u, 1, n) = w
  BY <1>1, <1>2 DEF IsJoined
<1>5. /\ Len(s) = (n + 1) + n /\ From(s, (n + 1) + 1) = w
      /\ \A k \in 1 .. n + 1 : s[k] = u[k]
      /\ \A k \in 1 .. n : s[(n + 1) + k] = w[k]
  <2> HIDE DEF n
  <2>1. Len(u) = n + 1 /\ Len(w) = n
    BY <1>4 DEF n
  <2> DEFINE m == n + 1
  <2>2. Len(u) = m
    BY <2>1
  <2> HIDE DEF m
  <2>3. /\ Len(s) = m + n /\ From(s, m + 1) = w
        /\ \A k \in 1 .. m : s[k] = u[k]
        /\ \A k \in 1 .. n : s[m + k] = w[k]
    BY <1>3, <2>1, <2>2 DEF IsJoined
  <2> QED
    BY <2>3 DEF m
<1> DEFINE N == Len(s)
<1>6. /\ N \in Nat /\ N >= 3 /\ N >= n + 1 /\ n + 1 \in 1 .. N /\ n + 1 \in 1 .. n + 1 /\ n + 2 <= N
      /\ (n + 1) + 1 = n + 2 /\ n <= N
  BY <1>1, <1>5
<1>7. s[n + 1] = Comma
  BY <1>4, <1>5, <1>6
<1>8. \A k \in 1 .. n : s[k] = w[k] /\ s[k] # Comma
  <2>1. \A k \in 1 .. n : k \in 1 .. n + 1
    BY <1>1
  <2> QED
    BY <1>4, <1>5, <2>1
<1>9. \A k \in n + 2 .. N : s[k] # Comma
  <2> SUFFICES ASSUME NEW k \in n + 2 .. N
               PROVE  s[k] # Comma
    OBVIOUS
  <2> DEFINE j == k - (n + 1)
  <2>1. j \in 1 .. n /\ (n + 1) + j = k
    BY <1>1, <1>5
  <2> HIDE DEF j
  <2>2. s[k] = w[j]
    BY <1>5, <2>1
  <2> QED
    BY <2>1, <2>2
<1>10. P = {n + 1}
  <2>1. \A k : k \in P <=> k \in 1 .. N /\ s[k] = Comma
    BY <1>3 DEF Places
  <2>2. \A k \in 1 .. N : k \in 1 .. n \/ k = n + 1 \/ k \in n + 2 .. N
    BY <1>1, <1>6
  <2> HIDE DEF P, N, n
  <2> QED
    BY <1>6, <1>7, <1>8, <1>9, <2>1, <2>2
<1> HIDE DEF N
<1>11. Fields(s) = 2
  <2>1. Cardinality(P) = 1
    BY <1>10, FS_Singleton
  <2> HIDE DEF P
  <2>2. Cardinality(P) + 1 = 2
    BY <2>1
  <2> QED
    BY <2>2 DEF Fields, P
<1>12. /\ parts \in Seq(Seq(A)) /\ Len(parts) = Fields(s) - (IF s = <<>> \/ s[N] = Comma THEN 1 ELSE 0)
       /\ \A k \in 1 .. Len(parts) : parts[k] = Field(s, k)
  BY <1>3, SplitIntoFields DEF N
<1> HIDE DEF parts
<1>13. s # <<>> /\ s[N] # Comma
  <2>1. N \in n + 2 .. N
    BY <1>1, <1>6
  <2>2. Len(s) # 0
    BY <1>6 DEF N
  <2> QED
    BY <1>9, <2>1, <2>2
<1>14. Len(parts) = 2
  BY <1>11, <1>12, <1>13
<1>15. P \in SUBSET (1 .. N)
  BY <1>6, <1>10
<1>16. Field(s, 1) = w
  <2>1. Rank(P, 0) = 0
    BY <1>6, <1>15, RankSteps
  <2>2. /\ 1 \in Nat /\ n \in Nat /\ 1 <= 1 /\ 1 <= n + 1 /\ n <= Len(s) /\ 1 - 1 = 0
        /\ s[n + 1] = Comma
    BY <1>1, <1>6, <1>7 DEF N
  <2>3. Field(s, Rank(P, 1 - 1) + 1) = SubSeq(s, 1, n)
    <3> HIDE DEF n
    <3> QED
      BY <1>3, <1>8, <2>2, FieldIs
  <2>4. SubSeq(s, 1, n) = w
    <3> DEFINE r == SubSeq(s, 1, n)
    <3>1. n - 1 + 1 = n /\ \A k \in 1 .. n : 1 + k - 1 = k
      BY <1>1
    <3>2. r \in Seq(A) /\ Len(r) = n - 1 + 1 /\ \A k \in 1 .. n - 1 + 1 : r[k] = s[1 + k - 1]
      <4> HIDE DEF n
      <4> QED
        BY <1>3, <2>2, Stretch
    <3>3. Len(r) = n /\ \A k \in 1 .. n : r[k] = w[k]
      <4> HIDE DEF r
      <4> QED
        BY <1>8, <3>1, <3>2
    <3> HIDE DEF r
    <3>4. r = w
      BY <3>2, <3>3, SeqEqual
    <3> QED
      BY <3>4 DEF r
  <2>5. Rank(P, 1 - 1) + 1 = 1
    BY <2>1, <2>2
  <2> QED
    BY <2>3, <2>4, <2>5
<1>17. Field(s, 2) = w
  <2> DEFINE i == n + 2
  <2>1. /\ i \in Nat /\ N \in Nat /\ 1 <= i /\ i <= N + 1 /\ N <= Len(s) /\ N = Len(s) /\ i - 1 = n + 1
    BY <1>1, <1>6 DEF N
  <2>2. Rank(P, n) = 0 /\ Rank(P, n + 1) = Rank(P, n) + 1
    <3>1. /\ Rank(P, 0) = 0
          /\ \A k \in Nat : k >= 1 => Rank(P, k) = Rank(P, k - 1) + (IF k \in P THEN 1 ELSE 0)
      BY <1>6, <1>15, RankSteps
    <3>2. Rank(P, 0) = Rank(P, n)
      <4>1. 0 \in Nat /\ n \in Nat /\ 0 <= n /\ \A k \in P : 0 < k => ~(k <= n)
        BY <1>1, <1>10
      <4> HIDE DEF n, P
      <4> QED
        BY <1>6, <1>15, <4>1, RankGrows
    <3>3. n + 1 \in Nat /\ n + 1 >= 1 /\ (n + 1) - 1 = n /\ n + 1 \in P
      BY <1>1, <1>10
    <3> DEFINE m == n + 1
    <3>4. Rank(P, m) = Rank(P, m - 1) + 1
      <4> HIDE DEF m
      <4>1. m \in Nat /\ m >= 1 /\ m \in P
        BY <3>3 DEF m
      <4> HIDE DEF P
      <4> QED
        BY <3>1, <4>1
    <3> QED
      BY <3>1, <3>2, <3>3, <3>4
  <2>3. Rank(P, i - 1) + 1 = 2
    BY <2>1, <2>2
  <2>4. s[i - 1] = Comma /\ \A k \in i .. N : s[k] # Comma
    BY <1>7, <1>9, <2>1
  <2>5. SubSeq(s, i, N) = w
    BY <1>5, <1>6, <2>1 DEF From
  <2> HIDE DEF i
  <2>6. Field(s, Rank(P, i - 1) + 1) = SubSeq(s, i, N)
    BY <1>3, <2>1, <2>4, FieldIs
  <2> QED
    BY <2>3, <2>5, <2>6
<1>18. parts[1] = w /\ parts[2] = w
  <2>1. 1 \in 1 .. Len(parts) /\ 2 \in 1 .. Len(parts)
    BY <1>14
  <2> QED
    BY <1>12, <1>16, <1>17, <2>1
<1>19. parts = <<parts[1], parts[2]>>
  BY <1>12, <1>14
<1> QED
  BY <1>18, <1>19 DEF parts, s, u, c

\* What may be a name is a word without a comma, and the first character tells
\* channels from clients.
LEMMA NamesAreWords ==
    ASSUME Typed, isValidChannelName(line) \/ isValidNickname(line)
    PROVE  /\ line # <<>> /\ line[1] # ":"
           /\ \A k \in 1 .. Len(line) : line[k] # Space /\ line[k] # Comma
           /\ IsChannelTarget(line) <=> isValidChannelName(line)
<1> DEFINE Marks == {"#", "&", "+", "!"}
<1>1. Len(line) \in Nat
  BY DEF Typed
<1>2. Len(line) >= 1
  <2>1. MaxNick \in Nat /\ MaxChannel \in Nat
    BY ParsingAssumption
  <2>2. Len(line) \in 1 .. MaxNick \/ Len(line) \in 1 .. MaxChannel
    BY DEF isValidChannelName, isValidNickname
  <2> QED
    BY <2>1, <2>2
<1>3. line # <<>>
  BY <1>2, Typed DEF Typed
<1>4. /\ isValidChannelName(line) =>
            line[1] \in Marks /\ \A k \in 2 .. Len(line) : line[k] # Space /\ line[k] # Comma
      /\ isValidNickname(line) =>
            line[1] = "a" /\ \A k \in 2 .. Len(line) : line[k] \in {"a", "-"} \cup Digit
  BY DEF isValidChannelName, isValidNickname
<1>5. /\ \A c \in Marks : c # Space /\ c # Comma /\ c # ":" /\ c # "a"
      /\ \A c \in {"a", "-"} \cup Digit : c # Space /\ c # Comma
      /\ "a" # Space /\ "a" # Comma
  BY Characters
<1>6. "a" # ":"
  OBVIOUS
<1>7. IsChannelTarget(line) <=> line[1] \in Marks
  BY DEF IsChannelTarget
<1> HIDE DEF Marks
<1>8. line[1] # ":" /\ line[1] # Space /\ line[1] # Comma
  BY <1>4, <1>5, <1>6
<1>9. \A k \in 2 .. Len(line) : line[k] # Space /\ line[k] # Comma
  BY <1>4, <1>5
<1>10. \A k \in 1 .. Len(line) : k = 1 \/ k \in 2 .. Len(line)
  BY <1>1
<1>11. IsChannelTarget(line) <=> isValidChannelName(line)
  BY <1>4, <1>5, <1>7
<1> QED
  BY <1>3, <1>8, <1>9, <1>10, <1>11

\* A channel and its key, as a JOIN gives them.
LEMMA ChannelWithKey ==
    ASSUME NEW A, NEW c \in Seq(A), NEW k \in Seq(A),
           split(c, Comma) = <<c>>, split(k, Comma) = <<k>>
    PROVE  handleJoin(<<c, k>>) = <<<<c, k>>>>
<1> DEFINE params == <<c, k>>
<1>1. params[1] = c /\ params[2] = k /\ Len(params) > 1
  OBVIOUS
<1> HIDE DEF params
<1>2. parseChannelList(params[1]) = <<c>> /\ parseKeyList(params[2]) = <<k>>
  BY <1>1 DEF parseChannelList, parseKeyList
<1>3. handleJoin(params) = [n \in DOMAIN <<c>> |->
                               <<<<c>>[n], IF n \in DOMAIN <<k>> THEN <<k>>[n] ELSE <<>> >>]
  BY <1>1, <1>2 DEF handleJoin
<1>4. DOMAIN <<c>> = {1} /\ DOMAIN <<k>> = {1} /\ <<c>>[1] = c /\ <<k>>[1] = k
  OBVIOUS
<1>5. handleJoin(params) = [n \in {1} |-> <<c, k>>]
  BY <1>3, <1>4
<1>6. [n \in {1} |-> <<c, k>>] = <<<<c, k>>>>
  OBVIOUS
<1> QED
  BY <1>5, <1>6 DEF params

\* A name that isValidChannelName or isValidNickname accepts is read as itself,
\* alone or in a list, and a key without a comma opens what it locks.
THEOREM NamesAreUsable == Spec => []NamesSurvive
<1>1. ASSUME Typed, isValidChannelName(line) \/ isValidNickname(line)
      PROVE  /\ Said.params = <<line>>
             /\ parseChannelList(line \o <<Comma>> \o line) = <<line, line>>
             /\ IsChannelTarget(line) <=> isValidChannelName(line)
  <2>1. /\ line # <<>> /\ line[1] # ":"
        /\ \A k \in 1 .. Len(line) : line[k] # Space /\ line[k] # Comma
        /\ IsChannelTarget(line) <=> isValidChannelName(line)
    BY <1>1, NamesAreWords
  <2>2. line \in Seq(Char) /\ "a" \in Char /\ Space \in Char /\ Comma \in Char
    BY <1>1, ParsingAssumption DEF Typed
  <2>3. parseCommand(Command(line)).params = <<line>>
    BY <2>1, <2>2, OneParameter
  <2>4. split(line \o <<Comma>> \o line, Comma) = <<line, line>>
    BY <2>1, <2>2, ListOfTwo
  <2> QED
    BY <2>1, <2>3, <2>4 DEF Said, parseChannelList
<1>2. ASSUME Typed, line # <<>>, Places(line, Comma) = {}
      PROVE  handleJoin(parseCommand(Command(<<"#", Space, ":">> \o line)).params)
                 = <<<<<<"#">>, line>>>>
  <2> DEFINE h == <<"#">>
             c == <<"a", Space>>
             s == Command(h) \o Middle \o line
  <2>1. /\ line \in Seq(Char) /\ "a" \in Char /\ Space \in Char /\ ":" \in Char /\ "#" \in Char
    BY <1>2, ParsingAssumption DEF Typed
  <2>2. /\ h \in Seq(Char) /\ Len(h) = 1 /\ h[1] = "#" /\ h # <<>>
        /\ \A k \in 1 .. Len(h) : k = 1
        /\ c \in Seq(Char) /\ Middle \in Seq(Char)
    BY <2>1 DEF Middle
  <2>3. <<"#", Space, ":">> = h \o Middle
    BY <2>1 DEF Middle
  <2> HIDE DEF h, c
  <2>4. h[1] # ":" /\ h[1] # Space /\ h[1] # Comma
    BY <2>2, Characters
  <2>5. /\ \A k \in 1 .. Len(h) : h[k] # Space
        /\ \A k \in 1 .. Len(h) : h[k] # Comma
        /\ h[1] # ":"
    BY <2>2, <2>4
  <2>6. Command((h \o Middle) \o line) = s
    <3> DEFINE T == Seq(Char)
    <3>1. \A p, q, r \in T : Then(p, q) \in T /\ Then(Then(p, q), r) = Then(p, Then(q, r))
      BY ThenIsAssociative
    <3>2. c \in T /\ h \in T /\ Middle \in T /\ line \in T
      BY <2>1, <2>2
    <3> HIDE DEF T
    <3>3. Then(c, Then(h, Middle)) = Then(Then(c, h), Middle) /\ Then(h, Middle) \in T
      BY <3>1, <3>2
    <3>4. Then(c, Then(Then(h, Middle), line)) = Then(Then(c, Then(h, Middle)), line)
      BY <3>1, <3>2, <3>3
    <3>5. Then(c, Then(Then(h, Middle), line)) = Then(Then(Then(c, h), Middle), line)
      BY <3>3, <3>4
    <3>6. Command(Then(Then(h, Middle), line)) = Then(c, Then(Then(h, Middle), line))
      BY DEF Command, Then, c
    <3>7. s = Then(Then(Then(c, h), Middle), line)
      BY DEF Command, Then, c
    <3>8. Command(Then(Then(h, Middle), line)) = s
      BY <3>5, <3>6, <3>7
    <3> HIDE DEF s
    <3> QED
      BY <3>8 DEF Then
  <2>7. parseCommand(s).params = <<h, line>>
    BY <1>2, <2>1, <2>2, <2>5, TwoParameters
  <2>8. \A k \in 1 .. Len(line) : line[k] # Comma
    <3>1. DOMAIN line = 1 .. Len(line)
      BY <2>1
    <3> QED
      BY <1>2, <3>1 DEF Places
  <2>9. split(h, Comma) = <<h>> /\ split(line, Comma) = <<line>>
    <3>1. split(h, Comma) = <<h>>
      BY <2>2, <2>5, ListOfOne
    <3>2. split(line, Comma) = <<line>>
      BY <1>2, <2>1, <2>8, ListOfOne
    <3> QED
      BY <3>1, <3>2
  <2>10. handleJoin(<<h, line>>) = <<<<h, line>>>>
    BY <2>1, <2>2, <2>9, ChannelWithKey
  <2> HIDE DEF s
  <2> QED
    BY <2>3, <2>6, <2>7, <2>10 DEF h
<1>3. Typed => NamesSurvive
  BY <1>1, <1>2 DEF NamesSurvive
<1> QED
  BY <1>3, AlwaysTyped, PTL
=============================================================================
