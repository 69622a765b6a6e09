------------------------- MODULE CalculationProofs --------------------------
(***************************************************************************)
(* What the calculations of Figures and Assessments answer, proved for     *)
(* every argument they take, within the limits that are stated.  Induction *)
(* over lists and sets rests on one fact: a set of numbers that is not     *)
(* empty has a smallest one.                                               *)
(***************************************************************************)
EXTENDS Decisions, FiniteSetTheorems, SequenceTheorems, WellFoundedInduction, TLAPS

-----------------------------------------------------------------------------
(* Numbers, lists and folds *)

\* What makes an induction possible: a set of numbers that is not empty has a
\* smallest one.
LEMMA Smallest ==
    ASSUME NEW T \in SUBSET Nat, T # {}
    PROVE  \E x \in T : \A y \in T : x <= y
<1>. DEFINE R == {ss \in Nat \X Nat : ss[1] < ss[2]}
<1>1. IsWellFoundedOn(R, Nat)
  BY NatLessThanWellFounded DEF OpToRel
<1>2. PICK x \in T : \A y \in T : ~ (<<y, x>> \in R)
  <2>. HIDE DEF R
  <2>. QED BY <1>1, WFMin
<1>3. \A y \in T : ~ (y < x)
  BY <1>2
<1>. QED BY <1>3

\* Induction with the instances in a set.
LEMMA UpTo ==
    ASSUME NEW n \in Nat, NEW Good \in SUBSET (0..n), 0 \in Good,
           \A k \in 0..n - 1 : k \in Good => k + 1 \in Good
    PROVE  Good = 0..n
<1>1. SUFFICES ASSUME (0..n) \ Good # {} PROVE FALSE
  OBVIOUS
<1>2. PICK x \in (0..n) \ Good : \A y \in (0..n) \ Good : x <= y
  <2>. (0..n) \ Good \in SUBSET Nat
    OBVIOUS
  <2>. QED BY <1>1, Smallest
<1>3. x # 0 /\ x - 1 \in 0..n - 1 /\ x - 1 \in Good
  BY <1>2
<1>. QED BY <1>2, <1>3

\* The greater of two numbers.
LEMMA MaxOfTwo == ASSUME NEW a \in Int, NEW b \in Int PROVE Max({a, b}) = IF a >= b THEN a ELSE b
BY DEF Max

\* The smaller of two numbers.
LEMMA MinOfTwo == ASSUME NEW a \in Int, NEW b \in Int PROVE Min({a, b}) = IF a <= b THEN a ELSE b
BY DEF Min

\* What an integral quotient leaves is less than the divisor.
LEMMA Divides ==
    ASSUME NEW a \in Int, NEW b \in Nat \ {0}
    PROVE  a \div b \in Int /\ b * (a \div b) <= a /\ a < b * (a \div b) + b
OBVIOUS

\* And a number that leaves less than the divisor is the quotient.
LEMMA DivIs ==
    ASSUME NEW a \in Int, NEW b \in Nat \ {0}, NEW q \in Int, b * q <= a, a < b * q + b
    PROVE  a \div b = q
OBVIOUS

\* A rounded quotient is off by half a unit at most.
LEMMA Rounds ==
    ASSUME NEW n \in Int, NEW d \in Nat \ {0}
    PROVE  /\ Rounded(n, d) \in Int
           /\ 2 * d * Rounded(n, d) <= 2 * n + d
           /\ 2 * n + d < 2 * d * Rounded(n, d) + 2 * d
<1>. 2 * n + d \in Int /\ 2 * d \in Nat \ {0}
  OBVIOUS
<1>. QED BY Divides DEF Rounded

\* The greatest of some numbers up to a bound is one of them.
LEMMA MaxOf ==
    ASSUME NEW n \in Nat, NEW T \in SUBSET (0..n), T # {}
    PROVE  Max(T) \in T /\ \A y \in T : y <= Max(T)
<1>. DEFINE D == {d \in 0..n : n - d \in T}
<1>1. D \in SUBSET Nat /\ D # {}
  <2>1. PICK t \in T : TRUE
    OBVIOUS
  <2>2. n - t \in D
    BY <2>1
  <2>. QED BY <2>2
<1>2. PICK d \in D : \A e \in D : d <= e
  BY <1>1, Smallest
<1>3. n - d \in T
  BY <1>2
<1>4. ASSUME NEW y \in T PROVE n - d >= y
  <2>1. n - y \in D /\ y \in 0..n /\ d \in 0..n
    BY <1>2
  <2>2. d <= n - y
    <3>. HIDE DEF D
    <3>. QED BY <1>2, <2>1
  <2>. QED BY <2>1, <2>2
<1>. QED BY <1>3, <1>4 DEF Max

\* The smallest of some natural numbers is one of them.
LEMMA MinOf ==
    ASSUME NEW T \in SUBSET Nat, T # {}
    PROVE  Min(T) \in T /\ \A y \in T : Min(T) <= y
BY Smallest DEF Min

\* g folds the positions of each subset of 1..n, the last one at the outside.
IsFoldOf(g, F, b, n) ==
    \A T \in SUBSET (1..n) : g[T] = IF T = {} THEN b ELSE F[<<g[T \ {Max(T)}], Max(T)>>]

Closed(F, A, b, n) == n \in Nat /\ b \in A /\ \A p \in A \X (1..n) : F[p] \in A

\* There is such a function...
LEMMA FoldExists ==
    ASSUME NEW A, NEW b, NEW n, NEW F, Closed(F, A, b, n)
    PROVE  \E g \in [SUBSET (1..n) -> A] : IsFoldOf(g, F, b, n)
<1>. DEFINE Folds(k, g) == IsFoldOf(g, F, b, k)
            Good == {k \in 0..n : \E g \in [SUBSET (1..k) -> A] : Folds(k, g)}
<1>0. n \in Nat /\ b \in A /\ \A p \in A \X (1..n) : F[p] \in A
  BY DEF Closed
<1>. USE <1>0
<1>1. 0 \in Good
  <2>1. SUBSET (1..0) = {{}}
    OBVIOUS
  <2>2. [T \in SUBSET (1..0) |-> b] \in [SUBSET (1..0) -> A] /\ Folds(0, [T \in SUBSET (1..0) |-> b])
    BY <2>1 DEF IsFoldOf
  <2>3. \E g \in [SUBSET (1..0) -> A] : Folds(0, g)
    <3>. HIDE DEF Folds
    <3>. QED BY <2>2
  <2>. HIDE DEF Folds
  <2>4. 0 \in 0..n
    OBVIOUS
  <2>. QED BY <2>3, <2>4, Zenon
<1>2. ASSUME NEW k \in 0..n - 1, k \in Good PROVE k + 1 \in Good
  <2>0. k \in Nat /\ k + 1 \in Nat /\ k + 1 \in 1..n
    OBVIOUS
  <2>1. PICK g \in [SUBSET (1..k) -> A] : Folds(k, g)
    BY <1>2
  <2>. DEFINE h == [T \in SUBSET (1..k + 1) |->
                        IF k + 1 \in T THEN F[<<g[T \ {k + 1}], k + 1>>] ELSE g[T]]
  <2>2. ASSUME NEW T \in SUBSET (1..k + 1)
        PROVE  /\ h[T] \in A
               /\ h[T] = IF T = {} THEN b ELSE F[<<h[T \ {Max(T)}], Max(T)>>]
    <3>1. CASE k + 1 \in T
      <4>1. T \ {k + 1} \in SUBSET (1..k) /\ k + 1 \in 1..n /\ T # {} /\ k + 1 \notin T \ {k + 1}
        BY <3>1, <2>0
      <4>2. Max(T) = k + 1
        <5>1. T \in SUBSET (0..k + 1) /\ k + 1 \in Nat
          BY <2>0
        <5>2. Max(T) \in T /\ k + 1 <= Max(T)
          BY <4>1, <5>1, <3>1, MaxOf
        <5>3. Max(T) \in 1..k + 1
          BY <5>2
        <5>. QED BY <5>2, <5>3, <2>0
      <4>3. h[T] = F[<<g[T \ {k + 1}], k + 1>>] /\ h[T \ {k + 1}] = g[T \ {k + 1}]
        BY <4>1, <3>1
      <4>4. g[T \ {k + 1}] \in A
        BY <4>1
      <4>5. F[<<g[T \ {k + 1}], k + 1>>] \in A
        BY <4>1, <4>4 DEF Closed
      <4>. HIDE DEF h
      <4>. QED BY <4>1, <4>2, <4>3, <4>5
    <3>2. CASE k + 1 \notin T
      <4>1. T \in SUBSET (1..k) /\ h[T] = g[T]
        BY <3>2
      <4>2. /\ T \ {Max(T)} \in SUBSET (1..k)
            /\ k + 1 \notin T \ {Max(T)}
            /\ T \ {Max(T)} \in SUBSET (1..k + 1)
        BY <4>1, <3>2
      <4>4. h[T \ {Max(T)}] = g[T \ {Max(T)}]
        BY <4>2
      <4>3. g[T] = IF T = {} THEN b ELSE F[<<g[T \ {Max(T)}], Max(T)>>]
        BY <4>1, <2>1 DEF IsFoldOf
      <4>5. g[T] \in A
        BY <4>1
      <4>. HIDE DEF h
      <4>. QED BY <4>1, <4>3, <4>4, <4>5
    <3>. QED BY <3>1, <3>2
  <2>3. h \in [SUBSET (1..k + 1) -> A] /\ Folds(k + 1, h)
    BY <2>2 DEF IsFoldOf
  <2>4. \E f \in [SUBSET (1..k + 1) -> A] : Folds(k + 1, f)
    <3>. HIDE DEF h, Folds
    <3>. QED BY <2>3
  <2>. HIDE DEF Folds
  <2>. QED BY <2>4, <2>0
<1>. HIDE DEF Good
<1>3. Good = 0..n
  <2>1. Good \in SUBSET (0..n)
    BY DEF Good
  <2>. QED BY <1>1, <1>2, <2>1, UpTo
<1>4. n \in Good
  BY <1>3
<1>. QED
  <2>. HIDE DEF Folds
  <2>1. \E g \in [SUBSET (1..n) -> A] : Folds(n, g)
    BY <1>4 DEF Good
  <2>. QED BY <2>1 DEF Folds

\* ... and is computed from one position to the next.
IsRun(acc, F, b, n) == acc[0] = b /\ \A i \in 1..n : acc[i] = F[<<acc[i - 1], i>>]

RunOf(g, n) == [i \in 0..n |-> g[1..i]]

\* A fold over a list is what a run along the list ends with.
LEMMA FoldSteps ==
    ASSUME NEW A, NEW b, NEW n, NEW F, Closed(F, A, b, n), NEW g,
           IsFoldOf(g, F, b, n)
    PROVE  /\ RunOf(g, n) \in [0..n -> A] /\ IsRun(RunOf(g, n), F, b, n)
           /\ g[1..n] = RunOf(g, n)[n]
<1>. DEFINE acc == [i \in 0..n |-> g[1..i]]
            Good == {i \in 0..n : acc[i] \in A}
<1>0. n \in Nat /\ b \in A /\ \A p \in A \X (1..n) : F[p] \in A
  BY DEF Closed
<1>. USE <1>0
<1>1. acc[0] = b
  <2>1. 1..0 = {} /\ {} \in SUBSET (1..n) /\ 0 \in 0..n
    OBVIOUS
  <2>2. g[1..0] = b
    BY <2>1 DEF IsFoldOf
  <2>. QED BY <2>1, <2>2
<1>2. ASSUME NEW i \in 1..n PROVE acc[i] = F[<<acc[i - 1], i>>]
  <2>1. Max(1..i) = i /\ (1..i) \ {i} = 1..i - 1 /\ 1..i # {} /\ 1..i \in SUBSET (1..n)
    BY DEF Max
  <2>2. i \in 0..n /\ i - 1 \in 0..n
    OBVIOUS
  <2>3. acc[i] = g[1..i] /\ acc[i - 1] = g[1..i - 1]
    BY <2>2
  <2>4. g[1..i] = F[<<g[1..i - 1], i>>]
    BY <2>1 DEF IsFoldOf
  <2>. QED BY <2>3, <2>4
<1>3. ASSUME NEW k \in 0..n - 1, k \in Good PROVE k + 1 \in Good
  <2>1. k + 1 \in 1..n /\ acc[k + 1] = F[<<acc[k], k + 1>>]
    <3>1. k + 1 \in 1..n /\ (k + 1) - 1 = k
      OBVIOUS
    <3>2. acc[k + 1] = F[<<acc[(k + 1) - 1], k + 1>>]
      BY <1>2, <3>1
    <3>. QED BY <3>1, <3>2
  <2>2. <<acc[k], k + 1>> \in A \X (1..n)
    BY <2>1, <1>3
  <2>. QED BY <2>1, <2>2 DEF Closed
<1>4. acc \in [0..n -> A]
  <2>. HIDE DEF acc
  <2>1. 0 \in Good /\ Good \in SUBSET (0..n)
    BY <1>1
  <2>2. Good = 0..n
    <3>. HIDE DEF Good
    <3>. QED BY <1>3, <2>1, UpTo
  <2>3. DOMAIN acc = 0..n /\ acc = [i \in 0..n |-> acc[i]]
    BY DEF acc
  <2>. QED BY <2>2, <2>3
<1>5. g[1..n] = acc[n]
  OBVIOUS
<1>6. IsRun(acc, F, b, n)
  BY <1>1, <1>2 DEF IsRun
<1>7. acc = RunOf(g, n)
  BY DEF RunOf
<1>. QED BY <1>4, <1>5, <1>6, <1>7

\* A sum is computed from one summand to the next.
LEMMA TotalSteps ==
    ASSUME NEW s \in Seq(Int)
    PROVE  \E acc \in [0..Len(s) -> Int] :
               /\ acc[0] = 0 /\ Total(s) = acc[Len(s)]
               /\ \A i \in 1..Len(s) : acc[i] = acc[i - 1] + s[i]
<1>. DEFINE n == Len(s)
            IsFold(g) == g = [T \in SUBSET DOMAIN s |->
                                  IF T = {} THEN 0 ELSE g[T \ {Max(T)}] + s[Max(T)]]
            fold == CHOOSE g : IsFold(g)
            S == Int \cup {fold[T] : T \in SUBSET (1..n)}
            F == [p \in S \X (1..n) |-> p[1] + s[p[2]]]
<1>0. n \in Nat /\ DOMAIN s = 1..n
  OBVIOUS
<1>1. \A p \in Int \X (1..n) : p[1] + s[p[2]] \in Int
  OBVIOUS
<1>2. Closed(F, Int, 0, n)
  BY <1>0, <1>1 DEF Closed
<1>4. \A T \in SUBSET (1..n) : T # {} => Max(T) \in 1..n /\ T \ {Max(T)} \in SUBSET (1..n)
  <2>1. ASSUME NEW T \in SUBSET (1..n), T # {} PROVE Max(T) \in T
    <3>1. T \in SUBSET (0..n)
      BY <1>0
    <3>. HIDE DEF n
    <3>. QED BY <1>0, <2>1, <3>1, MaxOf
  <2>. QED BY <2>1
<1>5. \E g : IsFold(g)
  <2>1. PICK g \in [SUBSET (1..n) -> Int] : IsFoldOf(g, F, 0, n)
    <3>. HIDE DEF n, F
    <3>. QED BY <1>0, <1>2, FoldExists
  <2>2. IsFold(g)
    <3>1. ASSUME NEW T \in SUBSET (1..n)
          PROVE g[T] = IF T = {} THEN 0 ELSE g[T \ {Max(T)}] + s[Max(T)]
      <4>1. CASE T = {}
        <5>. HIDE DEF F
        <5>. QED BY <4>1, <2>1 DEF IsFoldOf
      <4>2. CASE T # {}
        <5>1. <<g[T \ {Max(T)}], Max(T)>> \in S \X (1..n)
          BY <2>1, <1>4, <4>2
        <5>2. F[<<g[T \ {Max(T)}], Max(T)>>] = g[T \ {Max(T)}] + s[Max(T)]
          BY <5>1
        <5>. HIDE DEF F
        <5>. QED BY <4>2, <5>2, <2>1 DEF IsFoldOf
      <4>. QED BY <4>1, <4>2
    <3>. HIDE DEF F
    <3>. QED BY <3>1, <1>0, <2>1
  <2>. QED BY <2>2
<1>6. IsFold(fold)
  <2>. HIDE DEF IsFold
  <2>. QED BY <1>5
<1>7. IsFoldOf(fold, F, 0, n)
  <2>1. ASSUME NEW T \in SUBSET (1..n)
        PROVE fold[T] = IF T = {} THEN 0 ELSE F[<<fold[T \ {Max(T)}], Max(T)>>]
    <3>1. fold[T] = IF T = {} THEN 0 ELSE fold[T \ {Max(T)}] + s[Max(T)]
      <4>. HIDE DEF fold
      <4>. QED BY <1>6, <1>0
    <3>2. CASE T = {}
      BY <3>1, <3>2
    <3>3. CASE T # {}
      <4>. HIDE DEF fold
      <4>1. <<fold[T \ {Max(T)}], Max(T)>> \in S \X (1..n)
        BY <1>4, <3>3
      <4>2. F[<<fold[T \ {Max(T)}], Max(T)>>] = fold[T \ {Max(T)}] + s[Max(T)]
        BY <4>1
      <4>. HIDE DEF F
      <4>. QED BY <3>1, <3>3, <4>2
    <3>. QED BY <3>2, <3>3
  <2>. HIDE DEF F, fold
  <2>. QED BY <2>1 DEF IsFoldOf
<1>. DEFINE acc == RunOf(fold, n)
<1>8. acc \in [0..n -> Int] /\ IsRun(acc, F, 0, n) /\ fold[1..n] = acc[n]
  <2>. HIDE DEF n, F, fold, S
  <2>. QED BY <1>0, <1>2, <1>7, FoldSteps
<1>. HIDE DEF acc
<1>9. \A i \in 1..n : acc[i] = acc[i - 1] + s[i]
  <2>1. ASSUME NEW i \in 1..n PROVE acc[i] = acc[i - 1] + s[i]
    <3>1. <<acc[i - 1], i>> \in S \X (1..n)
      <4>1. i - 1 \in 0..n /\ i \in 1..n
        BY <1>0
      <4>. QED BY <4>1, <1>8
    <3>2. F[<<acc[i - 1], i>>] = acc[i - 1] + s[i]
      BY <3>1
    <3>. HIDE DEF F
    <3>. QED BY <1>8, <3>2 DEF IsRun
  <2>. QED BY <2>1
<1>10. Total(s) = fold[DOMAIN s]
  BY DEF Total, FoldLeft, MapThenFoldSet
<1>. HIDE DEF fold, F
<1>. QED BY <1>0, <1>8, <1>9, <1>10 DEF IsRun

\* A product grows with its factor.
LEMMA TimesMonotone ==
    ASSUME NEW a \in Nat, NEW x \in Int, NEW y \in Int, x <= y
    PROVE  a * x <= a * y
OBVIOUS

\* A quotient grows with what is divided.
LEMMA DivMonotone ==
    ASSUME NEW a \in Int, NEW b \in Int, NEW d \in Nat \ {0}, a <= b
    PROVE  a \div d <= b \div d
<1>. DEFINE p == a \div d
            q == b \div d
<1>1. p \in Int /\ q \in Int /\ d * p <= a /\ b < d * q + d
  BY Divides
<1>. HIDE DEF p, q
<1>2. d * p < d * (q + 1)
  BY <1>1
<1>3. p < q + 1
  <2>1. SUFFICES ASSUME q + 1 <= p PROVE FALSE
    BY <1>1
  <2>2. d * (q + 1) <= d * p
    BY <1>1, <2>1, TimesMonotone
  <2>. QED BY <1>1, <1>2, <2>2
<1>. QED BY <1>1, <1>3 DEF p, q

\* So does a rounded one.
LEMMA RoundedMonotone ==
    ASSUME NEW a \in Int, NEW b \in Int, NEW d \in Nat \ {0}, a <= b
    PROVE  Rounded(a, d) <= Rounded(b, d)
<1>. 2 * a + d \in Int /\ 2 * b + d \in Int /\ 2 * d \in Nat \ {0} /\ 2 * a + d <= 2 * b + d
  OBVIOUS
<1>. QED BY DivMonotone DEF Rounded

\* Rounding does not pass a whole number.
LEMMA RoundedBounds ==
    ASSUME NEW a \in Int, NEW k \in Int, NEW d \in Nat \ {0}
    PROVE  /\ a <= d * k => Rounded(a, d) <= k
           /\ d * k <= a => k <= Rounded(a, d)
<1>1. Rounded(d * k, d) = k
  <2>1. 2 * (d * k) + d \in Int /\ 2 * d \in Nat \ {0} /\ 2 * d * k = 2 * (d * k)
    OBVIOUS
  <2>. QED BY <2>1, DivIs DEF Rounded
<1>. QED BY <1>1, RoundedMonotone

\* How many of two, three or four rising limits a number has reached.
LEMMA Counts ==
    /\ Cardinality(1..0) = 0 /\ Cardinality(1..1) = 1 /\ Cardinality(1..2) = 2
    /\ Cardinality(1..3) = 3 /\ Cardinality(1..4) = 4 /\ Cardinality({}) = 0
<1>1. \A n \in 0..4 : Cardinality(1..n) = n
  <2>1. \A n \in 0..4 : Cardinality(1..n) = IF 1 > n THEN 0 ELSE n - 1 + 1
    BY FS_Interval
  <2>. TAKE n \in 0..4
  <2>2. Cardinality(1..n) = IF 1 > n THEN 0 ELSE n - 1 + 1
    BY <2>1
  <2>. QED BY <2>2
<1>. QED BY <1>1, FS_EmptySet

\* Which of two steps a number reached.
LEMMA Reached2 ==
    ASSUME NEW n \in Int, NEW a \in Int, NEW b \in Int, a <= b
    PROVE  Reached(n, <<a, b>>) = IF n >= b THEN 3 ELSE IF n >= a THEN 2 ELSE 1
<1>. DEFINE T == {i \in DOMAIN <<a, b>> : n >= <<a, b>>[i]}
<1>1. T = {i \in 1..2 : n >= IF i = 1 THEN a ELSE b}
  OBVIOUS
<1>2. T = IF n >= b THEN 1..2 ELSE IF n >= a THEN 1..1 ELSE 1..0
  BY <1>1
<1>. HIDE DEF T
<1>3. Cardinality(T) = IF n >= b THEN 2 ELSE IF n >= a THEN 1 ELSE 0
  BY <1>2, Counts
<1>. QED BY <1>3 DEF Reached, T

\* Which of three steps a number reached.
LEMMA Reached3 ==
    ASSUME NEW n \in Int, NEW a \in Int, NEW b \in Int, NEW d \in Int, a <= b, b <= d
    PROVE  Reached(n, <<a, b, d>>) =
               IF n >= d THEN 4 ELSE IF n >= b THEN 3 ELSE IF n >= a THEN 2 ELSE 1
<1>. DEFINE T == {i \in DOMAIN <<a, b, d>> : n >= <<a, b, d>>[i]}
<1>1. T = {i \in 1..3 : n >= IF i = 1 THEN a ELSE IF i = 2 THEN b ELSE d}
  OBVIOUS
<1>2. T = IF n >= d THEN 1..3 ELSE IF n >= b THEN 1..2 ELSE IF n >= a THEN 1..1 ELSE 1..0
  BY <1>1
<1>. HIDE DEF T
<1>3. Cardinality(T) = IF n >= d THEN 3 ELSE IF n >= b THEN 2 ELSE IF n >= a THEN 1 ELSE 0
  BY <1>2, Counts
<1>. QED BY <1>3 DEF Reached, T

\* What a list holds once more is added.
LEMMA ToSetAppend ==
    ASSUME NEW A, NEW s \in Seq(A), NEW e \in A
    PROVE  ToSet(Append(s, e)) = ToSet(s) \cup {e}
<1>1. Len(Append(s, e)) = Len(s) + 1 /\ DOMAIN Append(s, e) = 1..Len(s) + 1 /\ DOMAIN s = 1..Len(s)
  OBVIOUS
<1>2. Append(s, e)[Len(s) + 1] = e /\ \A i \in 1..Len(s) : Append(s, e)[i] = s[i]
  OBVIOUS
<1>3. Len(s) \in Nat
  OBVIOUS
<1>4. 1..Len(s) + 1 = (1..Len(s)) \cup {Len(s) + 1}
  BY <1>3
<1>. QED BY <1>1, <1>2, <1>4 DEF ToSet

\* A list that grows by each summand ends with the sum.
LEMMA TotalIs ==
    ASSUME NEW s \in Seq(Int), NEW acc, acc[0] = 0,
           \A i \in 1..Len(s) : acc[i] = acc[i - 1] + s[i]
    PROVE  Total(s) = acc[Len(s)]
<1>. DEFINE n == Len(s)
<1>0. n \in Nat /\ \A i \in 1..n : s[i] \in Int
  OBVIOUS
<1>1. PICK sum \in [0..n -> Int] : /\ sum[0] = 0 /\ Total(s) = sum[n]
                                   /\ \A i \in 1..n : sum[i] = sum[i - 1] + s[i]
  BY TotalSteps
<1>. DEFINE Good == {k \in 0..n : acc[k] = sum[k]}
<1>2. Good = 0..n
  <2>1. 0 \in Good /\ Good \in SUBSET (0..n)
    BY <1>0, <1>1
  <2>2. ASSUME NEW k \in 0..n - 1, k \in Good PROVE k + 1 \in Good
    <3>1. k + 1 \in 1..n /\ (k + 1) - 1 = k /\ k + 1 \in 0..n
      BY <1>0
    <3>2. acc[k + 1] = acc[k] + s[k + 1] /\ sum[k + 1] = sum[k] + s[k + 1]
      BY <1>1, <3>1
    <3>. QED BY <2>2, <3>1, <3>2
  <2>. HIDE DEF Good
  <2>. QED BY <1>0, <2>1, <2>2, UpTo
<1>3. n \in Good
  BY <1>0, <1>2
<1>. QED BY <1>1, <1>3

\* What holds of 0 and is kept by adding each summand holds of the sum.
LEMMA TotalIn ==
    ASSUME NEW s \in Seq(Int), NEW A \in SUBSET Int, 0 \in A,
           \A a \in A : \A i \in 1..Len(s) : a + s[i] \in A
    PROVE  Total(s) \in A
<1>. DEFINE n == Len(s)
<1>0. n \in Nat
  OBVIOUS
<1>1. PICK sum \in [0..n -> Int] : /\ sum[0] = 0 /\ Total(s) = sum[n]
                                   /\ \A i \in 1..n : sum[i] = sum[i - 1] + s[i]
  BY TotalSteps
<1>. DEFINE Good == {k \in 0..n : sum[k] \in A}
<1>2. Good = 0..n
  <2>1. 0 \in Good /\ Good \in SUBSET (0..n)
    BY <1>0, <1>1
  <2>2. ASSUME NEW k \in 0..n - 1, k \in Good PROVE k + 1 \in Good
    <3>1. k + 1 \in 1..n /\ (k + 1) - 1 = k /\ k + 1 \in 0..n
      BY <1>0
    <3>2. sum[k + 1] = sum[k] + s[k + 1] /\ sum[k] \in A
      BY <1>1, <2>2, <3>1
    <3>. QED BY <3>1, <3>2
  <2>. HIDE DEF Good
  <2>. QED BY <1>0, <2>1, <2>2, UpTo
<1>3. n \in Good
  BY <1>0, <1>2
<1>. QED BY <1>1, <1>3

\* A total of numbers is a number.
LEMMA TotalType == ASSUME NEW s \in Seq(Int) PROVE Total(s) \in Int
BY TotalIn

\* A total is the last of the partial sums.
LEMMA SumOf ==
    ASSUME NEW n \in Nat, NEW s \in [1..n -> Int]
    PROVE  /\ Total(s) \in Int
           /\ \E a \in [0..n -> Int] :
                  /\ a[0] = 0 /\ Total(s) = a[n]
                  /\ \A i \in 1..n : a[i] = a[i - 1] + s[i]
<1>1. s \in Seq(Int) /\ Len(s) = n
  OBVIOUS
<1>2. \E a \in [0..Len(s) -> Int] : /\ a[0] = 0 /\ Total(s) = a[Len(s)]
                                    /\ \A i \in 1..Len(s) : a[i] = a[i - 1] + s[i]
  BY ONLY <1>1, TotalSteps
<1>. QED BY <1>1, <1>2, TotalType

\* A total of natural numbers is one.
LEMMA NaturalSum ==
    ASSUME NEW s \in Seq(Int), \A i \in 1..Len(s) : s[i] \in Nat
    PROVE  Total(s) \in Nat
<1>1. Nat \in SUBSET Int /\ 0 \in Nat /\ \A a \in Nat : \A i \in 1..Len(s) : a + s[i] \in Nat
  OBVIOUS
<1>. QED BY ONLY <1>1, s \in Seq(Int), TotalIn

\* Sums of the same length are added summand by summand.
LEMMA TotalPlus ==
    ASSUME NEW n \in Nat, NEW s \in [1..n -> Int], NEW t \in [1..n -> Int]
    PROVE  Total([i \in 1..n |-> s[i] + t[i]]) = Total(s) + Total(t)
<1>. DEFINE u == [i \in 1..n |-> s[i] + t[i]]
<1>0. s \in Seq(Int) /\ t \in Seq(Int) /\ u \in Seq(Int) /\ Len(s) = n /\ Len(t) = n /\ Len(u) = n
  OBVIOUS
<1>1. PICK a \in [0..n -> Int] : /\ a[0] = 0 /\ Total(s) = a[n] /\ \A i \in 1..n : a[i] = a[i - 1] + s[i]
  BY SumOf
<1>2. PICK b \in [0..n -> Int] : /\ b[0] = 0 /\ Total(t) = b[n] /\ \A i \in 1..n : b[i] = b[i - 1] + t[i]
  BY SumOf
<1>. DEFINE c == [i \in 0..n |-> a[i] + b[i]]
<1>3. c[0] = 0 /\ c[n] = Total(s) + Total(t)
  BY <1>1, <1>2
<1>4. ASSUME NEW i \in 1..n PROVE c[i] = c[i - 1] + u[i]
  <2>1. i \in 0..n /\ i - 1 \in 0..n
    OBVIOUS
  <2>2. c[i] = a[i] + b[i] /\ c[i - 1] = a[i - 1] + b[i - 1] /\ u[i] = s[i] + t[i]
    BY <2>1
  <2>3. a[i - 1] \in Int /\ b[i - 1] \in Int /\ s[i] \in Int /\ t[i] \in Int
    BY <2>1
  <2>4. a[i] = a[i - 1] + s[i] /\ b[i] = b[i - 1] + t[i]
    BY <1>1, <1>2
  <2>. QED BY <2>2, <2>3, <2>4
<1>. HIDE DEF c, u
<1>5. Total(u) = c[n]
  BY <1>0, <1>3, <1>4, TotalIs
<1>. QED BY <1>3, <1>5 DEF u

\* Summand by summand no greater, in all no greater.
LEMMA TotalGrows ==
    ASSUME NEW n \in Nat, NEW s \in [1..n -> Int], NEW t \in [1..n -> Int], \A i \in 1..n : s[i] <= t[i]
    PROVE  Total(s) <= Total(t)
<1>0. s \in Seq(Int) /\ t \in Seq(Int) /\ Len(s) = n /\ Len(t) = n
  OBVIOUS
<1>. DEFINE u == [i \in 1..n |-> t[i] - s[i]]
<1>1. u \in [1..n -> Int] /\ u \in Seq(Int) /\ Len(u) = n /\ \A i \in 1..n : u[i] \in Nat
  OBVIOUS
<1>2. t = [i \in 1..n |-> s[i] + u[i]]
  OBVIOUS
<1>. HIDE DEF u
<1>3. Total(t) = Total(s) + Total(u)
  BY <1>1, <1>2, TotalPlus
<1>4. Total(u) \in Nat
  BY <1>1, NaturalSum
<1>5. Total(s) \in Int /\ Total(t) \in Int
  BY <1>0, TotalType
<1>. QED BY <1>3, <1>4, <1>5

\* All summands times a number.
LEMMA TotalTimes ==
    ASSUME NEW n \in Nat, NEW s \in [1..n -> Int], NEW k \in Int
    PROVE  Total([i \in 1..n |-> k * s[i]]) = k * Total(s)
<1>. DEFINE u == [i \in 1..n |-> k * s[i]]
<1>0. s \in Seq(Int) /\ u \in Seq(Int) /\ Len(s) = n /\ Len(u) = n
  OBVIOUS
<1>1. PICK a \in [0..n -> Int] : /\ a[0] = 0 /\ Total(s) = a[n] /\ \A i \in 1..n : a[i] = a[i - 1] + s[i]
  BY SumOf
<1>. DEFINE c == [i \in 0..n |-> k * a[i]]
<1>3. c[0] = 0 /\ c[n] = k * Total(s)
  BY <1>1
<1>4. ASSUME NEW i \in 1..n PROVE c[i] = c[i - 1] + u[i]
  <2>1. i \in 0..n /\ i - 1 \in 0..n
    OBVIOUS
  <2>2. c[i] = k * a[i] /\ c[i - 1] = k * a[i - 1] /\ u[i] = k * s[i]
    BY <2>1
  <2>3. a[i - 1] \in Int /\ s[i] \in Int /\ a[i] = a[i - 1] + s[i]
    BY <2>1, <1>1
  <2>4. k * (a[i - 1] + s[i]) = k * a[i - 1] + k * s[i]
    BY <2>3
  <2>. QED BY <2>2, <2>3, <2>4
<1>. HIDE DEF c, u
<1>5. Total(u) = c[n]
  BY <1>0, <1>3, <1>4, TotalIs
<1>. QED BY <1>3, <1>5 DEF u

\* As many times the same.
LEMMA TotalSame ==
    ASSUME NEW n \in Nat, NEW k \in Int
    PROVE  Total([i \in 1..n |-> k]) = n * k
<1>. DEFINE u == [i \in 1..n |-> k]
            c == [i \in 0..n |-> i * k]
<1>0. u \in Seq(Int) /\ Len(u) = n
  OBVIOUS
<1>3. c[0] = 0 /\ c[n] = n * k
  OBVIOUS
<1>4. ASSUME NEW i \in 1..n PROVE c[i] = c[i - 1] + u[i]
  <2>1. i \in 0..n /\ i - 1 \in 0..n
    OBVIOUS
  <2>2. c[i] = i * k /\ c[i - 1] = (i - 1) * k /\ u[i] = k
    BY <2>1
  <2>3. (i - 1) * k + k = i * k
    OBVIOUS
  <2>. QED BY <2>2, <2>3
<1>. HIDE DEF c, u
<1>5. Total(u) = c[n]
  BY <1>0, <1>3, <1>4, TotalIs
<1>. QED BY <1>3, <1>5 DEF u

\* A sum of natural numbers is one, and none of its summands exceeds it.
LEMMA TotalNat ==
    ASSUME NEW n \in Nat, NEW s \in [1..n -> Nat]
    PROVE  Total(s) \in Nat /\ \A i \in 1..n : s[i] <= Total(s)
<1>0. s \in [1..n -> Int] /\ s \in Seq(Int) /\ Len(s) = n /\ \A i \in 1..n : s[i] \in Nat
  OBVIOUS
<1>1. Total(s) \in Nat
  BY <1>0, NaturalSum
<1>2. ASSUME NEW i \in 1..n PROVE s[i] <= Total(s)
  <2>1. PICK a \in [0..n -> Int] : /\ a[0] = 0 /\ Total(s) = a[n] /\ \A j \in 1..n : a[j] = a[j - 1] + s[j]
    BY <1>0, TotalSteps
  <2>. DEFINE Good == {k \in 0..n : a[k] >= 0 /\ (k >= i => a[k] >= s[i])}
  <2>2. Good = 0..n
    <3>1. 0 \in Good /\ Good \in SUBSET (0..n)
      BY <1>0, <2>1
    <3>2. ASSUME NEW k \in 0..n - 1, k \in Good PROVE k + 1 \in Good
      <4>1. k + 1 \in 1..n /\ (k + 1) - 1 = k /\ k + 1 \in 0..n /\ k \in 0..n
        OBVIOUS
      <4>2. a[k + 1] = a[k] + s[k + 1] /\ s[k + 1] \in Nat /\ a[k] \in Int /\ s[i] \in Nat
        BY <1>0, <2>1, <4>1
      <4>. QED BY <3>2, <4>1, <4>2
    <3>. HIDE DEF Good
    <3>. QED BY <3>1, <3>2, UpTo
  <2>3. n \in Good
    BY <2>2
  <2>. QED BY <2>1, <2>3
<1>. QED BY <1>1, <1>2

\* Shares that are rounded add up to the whole but for half a unit each.
LEMMA RoundedShares ==
    ASSUME NEW n \in Nat, NEW s \in [1..n -> Nat], NEW k \in Nat, Total(s) > 0,
           NEW p \in [1..n -> Int], \A i \in 1..n : p[i] = Rounded(k * s[i], Total(s))
    PROVE  /\ Total(p) \in Int
           /\ 2 * Total(p) <= 2 * k + n /\ 2 * k <= 2 * Total(p) + n
<1>. DEFINE d == Total(s)
            x == [i \in 1..n |-> (2 * k) * s[i]]
            same == [i \in 1..n |-> d]
            high == [i \in 1..n |-> x[i] + same[i]]
            y == [i \in 1..n |-> (2 * d) * p[i]]
            higher == [i \in 1..n |-> y[i] + same[i]]
<1>0. s \in [1..n -> Int] /\ d \in Nat \ {0} /\ 2 * k \in Int /\ 2 * d \in Int
  <2>1. s \in [1..n -> Int]
    OBVIOUS
  <2>2. d \in Nat
    BY TotalNat
  <2>. QED BY <2>1, <2>2
<1>. HIDE DEF d
<1>1. Total(x) = (2 * k) * d /\ Total(y) = (2 * d) * Total(p) /\ Total(same) = n * d
  <2>1. Total(x) = (2 * k) * d
    BY <1>0, TotalTimes DEF d
  <2>2. Total(y) = (2 * d) * Total(p)
    BY <1>0, TotalTimes
  <2>3. d \in Int
    BY <1>0
  <2>4. Total(same) = n * d
    BY <2>3, TotalSame
  <2>. QED BY <2>1, <2>2, <2>4
<1>2. x \in [1..n -> Int] /\ y \in [1..n -> Int] /\ same \in [1..n -> Int]
  BY <1>0
<1>3. high \in [1..n -> Int] /\ higher \in [1..n -> Int]
  <2>. HIDE DEF x, y, same
  <2>1. \A i \in 1..n : x[i] + same[i] \in Int /\ y[i] + same[i] \in Int
    <3>. TAKE i \in 1..n
    <3>1. x[i] \in Int /\ y[i] \in Int /\ same[i] \in Int
      BY <1>2
    <3>. QED BY <3>1
  <2>. QED BY <2>1
<1>4. Total(high) = Total(x) + Total(same) /\ Total(higher) = Total(y) + Total(same)
  <2>. HIDE DEF x, y, same
  <2>. QED BY <1>2, TotalPlus
<1>5. ASSUME NEW i \in 1..n PROVE y[i] <= high[i] /\ x[i] <= higher[i]
  <2>. DEFINE a == k * s[i]
              r == Rounded(a, d)
  <2>1. a \in Int /\ 2 * a = (2 * k) * s[i] /\ s[i] \in Nat
    OBVIOUS
  <2>2. p[i] = r
    BY DEF d
  <2>3. r \in Int /\ 2 * d * r <= 2 * a + d /\ 2 * a + d < 2 * d * r + 2 * d
    <3>. HIDE DEF a
    <3>. QED BY ONLY <1>0, <2>1, Rounds
  <2>4. x[i] = 2 * a /\ y[i] = 2 * d * r /\ same[i] = d
    BY <2>1, <2>2
  <2>5. high[i] = x[i] + same[i] /\ higher[i] = y[i] + same[i]
    OBVIOUS
  <2>. HIDE DEF x, y, same, high, higher, a, r
  <2>6. 2 * a \in Int /\ 2 * d * r \in Int /\ d \in Int
    BY <1>0, <2>1, <2>3
  <2>. QED BY <2>3, <2>4, <2>5, <2>6
<1>6. Total(y) <= Total(high) /\ Total(x) <= Total(higher)
  <2>. HIDE DEF x, y, high, higher
  <2>. QED BY <1>2, <1>3, <1>5, TotalGrows
<1>7. Total(p) \in Int
  BY SumOf
<1>. HIDE DEF x, y, same, high, higher
<1>. DEFINE t == Total(p)
<1>8. (2 * d) * t <= (2 * k) * d + n * d /\ (2 * k) * d <= (2 * d) * t + n * d
  BY <1>1, <1>4, <1>6
<1>. HIDE DEF t
<1>9. t \in Int
  BY <1>7 DEF t
<1>10. /\ (2 * d) * t = d * (2 * t) /\ (2 * k) * d + n * d = d * (2 * k + n)
       /\ (2 * k) * d = d * (2 * k) /\ (2 * d) * t + n * d = d * (2 * t + n)
  BY <1>0, <1>9
<1>11. ASSUME NEW u \in Int, NEW v \in Int, d * u <= d * v PROVE u <= v
  <2>. SUFFICES ASSUME v + 1 <= u PROVE FALSE
    OBVIOUS
  <2>1. d * (v + 1) <= d * u
    BY <1>0, TimesMonotone
  <2>2. d * (v + 1) = d * v + d
    BY <1>0
  <2>3. d * u \in Int /\ d * v \in Int
    BY <1>0
  <2>. QED BY <1>0, <1>11, <2>1, <2>2, <2>3
<1>12. 2 * t <= 2 * k + n /\ 2 * k <= 2 * t + n
  <2>1. 2 * t \in Int /\ 2 * k + n \in Int /\ 2 * k \in Int /\ 2 * t + n \in Int
    BY <1>9
  <2>2. d * (2 * t) <= d * (2 * k + n) /\ d * (2 * k) <= d * (2 * t + n)
    BY <1>8, <1>10
  <2>. QED BY <1>11, <2>1, <2>2
<1>. QED BY <1>7, <1>12 DEF t

\* How many numbers there are up to one.
LEMMA FirstNumbers ==
    ASSUME NEW k \in Nat
    PROVE  IsFiniteSet(1..k) /\ Cardinality(1..k) = k
<1>. 1 \in Int /\ k \in Int
  OBVIOUS
<1>. QED BY FS_Interval

\* One position further there is one more of a set of positions, or none.
LEMMA CountSteps ==
    ASSUME NEW B, NEW k \in Nat
    PROVE  /\ Cardinality(B \cap 1..k) \in Nat
           /\ Cardinality(B \cap 1..k + 1) = Cardinality(B \cap 1..k) + (IF k + 1 \in B THEN 1 ELSE 0)
           /\ Cardinality(B \cap 1..0) = 0
<1>. DEFINE T == B \cap 1..k
            U == B \cap 1..k + 1
<1>1. IsFiniteSet(1..k) /\ T \in SUBSET (1..k) /\ k + 1 \notin T
  BY FirstNumbers
<1>2. U = IF k + 1 \in B THEN T \cup {k + 1} ELSE T
  OBVIOUS
<1>3. B \cap 1..0 = {} /\ Cardinality({}) = 0
  BY FS_EmptySet
<1>. HIDE DEF T, U
<1>4. IsFiniteSet(T)
  BY <1>1, FS_Subset
<1>5. Cardinality(T) \in Nat /\ Cardinality(T \cup {k + 1}) = Cardinality(T) + 1
  BY <1>1, <1>4, FS_CardinalityType, FS_AddElement
<1>6. Cardinality(U) = Cardinality(T) + (IF k + 1 \in B THEN 1 ELSE 0)
  BY <1>2, <1>5
<1>. QED BY <1>3, <1>5, <1>6 DEF T, U

\* What a set has in common with a greater one is itself.
LEMMA CapOf ==
    ASSUME NEW A, NEW S \in SUBSET A
    PROVE  S \cap A = S
OBVIOUS

-----------------------------------------------------------------------------
(* Costs, first in first out *)

\* The sums of the beginnings of a list.
LEMMA BeginningsOf ==
    ASSUME NEW n \in Nat, NEW s \in [1..n -> Int], NEW k \in 0..n
    PROVE  /\ Total([j \in 1..k |-> s[j]]) \in Int
           /\ k = 0 => Total([j \in 1..k |-> s[j]]) = 0
           /\ k > 0 => Total([j \in 1..k |-> s[j]]) = Total([j \in 1..k - 1 |-> s[j]]) + s[k]
<1>. DEFINE first(m) == [j \in 1..m |-> s[j]]
<1>1. PICK a \in [0..n -> Int] : a[0] = 0 /\ Total(s) = a[n] /\ \A i \in 1..n : a[i] = a[i - 1] + s[i]
  BY SumOf
<1>2. ASSUME NEW m \in 0..n PROVE Total(first(m)) = a[m]
  <2>1. first(m) \in Seq(Int) /\ Len(first(m)) = m
    OBVIOUS
  <2>2. \A i \in 1..m : first(m)[i] = s[i] /\ i \in 1..n
    OBVIOUS
  <2>. HIDE DEF first
  <2>3. \A i \in 1..Len(first(m)) : a[i] = a[i - 1] + first(m)[i]
    BY <1>1, <2>1, <2>2
  <2>4. Total(first(m)) = a[Len(first(m))]
    BY ONLY <1>1, <2>1, <2>3, TotalIs
  <2>. QED BY <2>1, <2>4
<1>. HIDE DEF first
<1>3. k > 0 => k - 1 \in 0..n /\ k \in 1..n
  OBVIOUS
<1>4. /\ Total(first(k)) \in Int
      /\ k = 0 => Total(first(k)) = 0
      /\ k > 0 => Total(first(k)) = Total(first(k - 1)) + s[k]
  BY <1>1, <1>2, <1>3
<1>. QED BY <1>4 DEF first

\* What is left and what it cost after the layers.
FifoRun(layers, sold) ==
    FoldLeft(LAMBDA acc, layer :
                 LET taken == Min({acc.remaining, layer.quantity}) IN
                 [remaining |-> acc.remaining - taken, cost |-> acc.cost + taken * layer.cost],
             [remaining |-> sold, cost |-> 0], layers)

\* The layers are taken from one to the next.
LEMMA FifoSteps ==
    ASSUME NEW layers \in Seq([quantity : Nat, cost : Nat]), NEW sold \in Nat
    PROVE  \E acc \in [0..Len(layers) -> [remaining : Nat, cost : Nat]] :
               /\ acc[0] = [remaining |-> sold, cost |-> 0] /\ FifoRun(layers, sold) = acc[Len(layers)]
               /\ \A i \in 1..Len(layers) : acc[i] = [remaining |-> acc[i - 1].remaining - Min({acc[i - 1].remaining, layers[i].quantity}),
                  cost |-> acc[i - 1].cost + Min({acc[i - 1].remaining, layers[i].quantity}) * layers[i].cost]
<1>. DEFINE n == Len(layers)
            State == [remaining : Nat, cost : Nat]
            start == [remaining |-> sold, cost |-> 0]
            IsFold(g) == g = [T \in SUBSET DOMAIN layers |->
                                  IF T = {} THEN start ELSE [remaining |-> g[T \ {Max(T)}].remaining - Min({g[T \ {Max(T)}].remaining, layers[Max(T)].quantity}),
                  cost |-> g[T \ {Max(T)}].cost + Min({g[T \ {Max(T)}].remaining, layers[Max(T)].quantity}) * layers[Max(T)].cost]]
            fold == CHOOSE g : IsFold(g)
            S == State \cup {fold[T] : T \in SUBSET (1..n)}
            F == [p \in S \X (1..n) |-> [remaining |-> p[1].remaining - Min({p[1].remaining, layers[p[2]].quantity}),
                  cost |-> p[1].cost + Min({p[1].remaining, layers[p[2]].quantity}) * layers[p[2]].cost]]
<1>0. n \in Nat /\ DOMAIN layers = 1..n
  OBVIOUS
<1>1. \A p \in State \X (1..n) : [remaining |-> p[1].remaining - Min({p[1].remaining, layers[p[2]].quantity}),
                  cost |-> p[1].cost + Min({p[1].remaining, layers[p[2]].quantity}) * layers[p[2]].cost] \in State
  <2>. TAKE p \in [remaining : Nat, cost : Nat] \X (1..n)
  <2>. DEFINE L == layers[p[2]]
              R == [quantity : Nat, cost : Nat]
  <2>1. L \in R
    <3>. layers \in Seq(R) /\ p[2] \in 1..n
      OBVIOUS
    <3>. HIDE DEF R
    <3>. QED OBVIOUS
  <2>2. L.quantity \in Nat /\ L.cost \in Nat /\ p[1].remaining \in Nat /\ p[1].cost \in Nat
    BY <2>1
  <2>. DEFINE r == p[1].remaining
              q == L.quantity
              x == p[1].cost
              u == L.cost
              taken == Min({r, q})
  <2>. HIDE DEF r, q, x, u
  <2>3. r \in Nat /\ q \in Nat /\ x \in Nat /\ u \in Nat
    BY <2>2 DEF r, q, x, u
  <2>4. taken \in Nat /\ taken <= r
    <3>1. r \in Int /\ q \in Int
      BY <2>3
    <3>2. taken = IF r <= q THEN r ELSE q
      BY ONLY <3>1, MinOfTwo
    <3>. QED BY <2>3, <3>2
  <2>. HIDE DEF taken
  <2>5. r - taken \in Nat /\ x + taken * u \in Nat
    <3>. DEFINE m == taken * u
    <3>1. m \in Nat
      BY ONLY <2>3, <2>4
    <3>. HIDE DEF m
    <3>2. r - taken \in Nat /\ x + m \in Nat
      BY ONLY <2>3, <2>4, <3>1
    <3>. QED BY <3>2 DEF m
  <2>6. [remaining |-> r - taken, cost |-> x + taken * u] \in [remaining : Nat, cost : Nat]
    BY <2>5
  <2>. QED BY <2>6 DEF r, q, x, u, taken
<1>2. Closed(F, State, start, n)
  BY <1>0, <1>1 DEF Closed
<1>4. \A T \in SUBSET (1..n) : T # {} => Max(T) \in 1..n /\ T \ {Max(T)} \in SUBSET (1..n)
  <2>1. ASSUME NEW T \in SUBSET (1..n), T # {} PROVE Max(T) \in T
    <3>1. T \in SUBSET (0..n)
      BY <1>0
    <3>. HIDE DEF n
    <3>. QED BY <1>0, <2>1, <3>1, MaxOf
  <2>. QED BY <2>1
<1>5. \E g : IsFold(g)
  <2>1. PICK g \in [SUBSET (1..n) -> State] : IsFoldOf(g, F, start, n)
    <3>. HIDE DEF n, F, State, start
    <3>. QED BY <1>0, <1>2, FoldExists
  <2>2. IsFold(g)
    <3>1. ASSUME NEW T \in SUBSET (1..n)
          PROVE g[T] = IF T = {} THEN start ELSE [remaining |-> g[T \ {Max(T)}].remaining - Min({g[T \ {Max(T)}].remaining, layers[Max(T)].quantity}),
                  cost |-> g[T \ {Max(T)}].cost + Min({g[T \ {Max(T)}].remaining, layers[Max(T)].quantity}) * layers[Max(T)].cost]
      <4>1. CASE T = {}
        <5>. HIDE DEF F
        <5>. QED BY <4>1, <2>1 DEF IsFoldOf
      <4>2. CASE T # {}
        <5>1. <<g[T \ {Max(T)}], Max(T)>> \in S \X (1..n)
          BY <2>1, <1>4, <4>2
        <5>2. F[<<g[T \ {Max(T)}], Max(T)>>] = [remaining |-> g[T \ {Max(T)}].remaining - Min({g[T \ {Max(T)}].remaining, layers[Max(T)].quantity}),
                  cost |-> g[T \ {Max(T)}].cost + Min({g[T \ {Max(T)}].remaining, layers[Max(T)].quantity}) * layers[Max(T)].cost]
          BY <5>1
        <5>. HIDE DEF F
        <5>. QED BY <4>2, <5>2, <2>1 DEF IsFoldOf
      <4>. QED BY <4>1, <4>2
    <3>. HIDE DEF F
    <3>. QED BY <3>1, <1>0, <2>1
  <2>. QED BY <2>2
<1>6. IsFold(fold)
  <2>. HIDE DEF IsFold
  <2>. QED BY <1>5
<1>7. IsFoldOf(fold, F, start, n)
  <2>1. ASSUME NEW T \in SUBSET (1..n)
        PROVE fold[T] = IF T = {} THEN start ELSE F[<<fold[T \ {Max(T)}], Max(T)>>]
    <3>1. fold[T] = IF T = {} THEN start ELSE [remaining |-> fold[T \ {Max(T)}].remaining - Min({fold[T \ {Max(T)}].remaining, layers[Max(T)].quantity}),
                  cost |-> fold[T \ {Max(T)}].cost + Min({fold[T \ {Max(T)}].remaining, layers[Max(T)].quantity}) * layers[Max(T)].cost]
      <4>. HIDE DEF fold
      <4>. QED BY <1>6, <1>0
    <3>2. CASE T = {}
      BY <3>1, <3>2
    <3>3. CASE T # {}
      <4>. HIDE DEF fold
      <4>1. <<fold[T \ {Max(T)}], Max(T)>> \in S \X (1..n)
        BY <1>4, <3>3
      <4>2. F[<<fold[T \ {Max(T)}], Max(T)>>] = [remaining |-> fold[T \ {Max(T)}].remaining - Min({fold[T \ {Max(T)}].remaining, layers[Max(T)].quantity}),
                  cost |-> fold[T \ {Max(T)}].cost + Min({fold[T \ {Max(T)}].remaining, layers[Max(T)].quantity}) * layers[Max(T)].cost]
        BY <4>1
      <4>. HIDE DEF F
      <4>. QED BY <3>1, <3>3, <4>2
    <3>. QED BY <3>2, <3>3
  <2>. HIDE DEF F, fold
  <2>. QED BY <2>1 DEF IsFoldOf
<1>. DEFINE acc == RunOf(fold, n)
<1>8. acc \in [0..n -> State] /\ IsRun(acc, F, start, n) /\ fold[1..n] = acc[n]
  <2>. HIDE DEF n, F, fold, S, State, start
  <2>. QED BY <1>0, <1>2, <1>7, FoldSteps
<1>. HIDE DEF acc
<1>9. \A i \in 1..n : acc[i] = [remaining |-> acc[i - 1].remaining - Min({acc[i - 1].remaining, layers[i].quantity}),
                  cost |-> acc[i - 1].cost + Min({acc[i - 1].remaining, layers[i].quantity}) * layers[i].cost]
  <2>1. ASSUME NEW i \in 1..n PROVE acc[i] = [remaining |-> acc[i - 1].remaining - Min({acc[i - 1].remaining, layers[i].quantity}),
                  cost |-> acc[i - 1].cost + Min({acc[i - 1].remaining, layers[i].quantity}) * layers[i].cost]
    <3>1. <<acc[i - 1], i>> \in S \X (1..n)
      <4>1. i - 1 \in 0..n /\ i \in 1..n
        BY <1>0
      <4>. QED BY <4>1, <1>8
    <3>2. F[<<acc[i - 1], i>>] = [remaining |-> acc[i - 1].remaining - Min({acc[i - 1].remaining, layers[i].quantity}),
                  cost |-> acc[i - 1].cost + Min({acc[i - 1].remaining, layers[i].quantity}) * layers[i].cost]
      BY <3>1
    <3>. HIDE DEF F
    <3>. QED BY <1>8, <3>2 DEF IsRun
  <2>. QED BY <2>1
<1>10. FifoRun(layers, sold) = fold[DOMAIN layers]
  BY DEF FifoRun, FoldLeft, MapThenFoldSet
<1>. HIDE DEF fold, F
<1>. QED BY <1>0, <1>8, <1>9, <1>10 DEF IsRun

\* The statements about costs first in first out hold for any batches.
THEOREM FifoHolds ==
    ASSUME NEW c, c.layers \in Seq([quantity : Nat, cost : Nat]), c.sold \in Nat
    PROVE  FifoIsSound(c)
<1>. DEFINE s == c.layers
            n == Len(s)
            sold == c.sold
            q == [i \in 1..n |-> s[i].quantity]
            u == [i \in 1..n |-> s[i].cost]
            before(i) == Total([j \in 1..i - 1 |-> s[j].quantity])
            upTo(k) == Total([j \in 1..k |-> q[j]])
            part == [i \in 1..n |-> Clamp(0, q[i], sold - before(i)) * u[i]]
            left(k) == IF upTo(k) >= sold THEN 0 ELSE sold - upTo(k)
<1>1. n \in Nat /\ DOMAIN s = 1..n /\ sold \in Nat
  OBVIOUS
<1>2. \A i \in 1..n : s[i].quantity \in Nat /\ s[i].cost \in Nat
  <2>. TAKE i \in 1..n
  <2>. DEFINE R == [quantity : Nat, cost : Nat]
  <2>1. s \in Seq(R)
    OBVIOUS
  <2>. HIDE DEF R
  <2>2. s[i] \in R
    BY <2>1
  <2>. QED BY <2>2 DEF R
<1>3. /\ q \in [1..n -> Nat] /\ u \in [1..n -> Nat] /\ q \in [1..n -> Int]
      /\ \A i \in 1..n : q[i] = s[i].quantity /\ u[i] = s[i].cost
  BY <1>2
<1>4. ASSUME NEW k \in 0..n PROVE before(k + 1) = upTo(k)
  <2>1. (k + 1) - 1 = k /\ \A j \in 1..k : j \in 1..n
    OBVIOUS
  <2>2. [j \in 1..k |-> s[j].quantity] = [j \in 1..k |-> q[j]]
    BY <2>1, <1>3
  <2>. QED BY <2>1, <2>2
<1>. HIDE DEF q, u
<1>5. ASSUME NEW k \in 0..n
      PROVE  /\ upTo(k) \in Int /\ (k = 0 => upTo(k) = 0)
             /\ k > 0 => upTo(k) = upTo(k - 1) + q[k]
  <2>. HIDE DEF n
  <2>. QED BY <1>1, <1>3, BeginningsOf
<1>. DEFINE Good == {k \in 0..n : upTo(k) >= 0}
<1>6. Good = 0..n
  <2>1. 0 \in Good /\ Good \in SUBSET (0..n)
    <3>1. 0 \in 0..n
      BY <1>1
    <3>. HIDE DEF upTo
    <3>. QED BY <1>5, <3>1
  <2>2. ASSUME NEW k \in 0..n - 1, k \in Good PROVE k + 1 \in Good
    <3>1. k + 1 \in 0..n /\ k + 1 > 0 /\ (k + 1) - 1 = k /\ k + 1 \in 1..n /\ k \in 0..n
      BY <1>1
    <3>2. upTo(k + 1) = upTo((k + 1) - 1) + q[k + 1]
      BY <1>5, <3>1
    <3>3. q[k + 1] \in Nat /\ upTo(k) \in Int /\ upTo(k) >= 0
      BY <1>3, <1>5, <2>2, <3>1
    <3>. HIDE DEF upTo
    <3>. QED BY <3>1, <3>2, <3>3
  <2>. HIDE DEF Good
  <2>. QED BY <1>1, <2>1, <2>2, UpTo
<1>7. ASSUME NEW k \in 0..n PROVE upTo(k) \in Nat
  <2>1. k \in Good
    <3>. HIDE DEF Good
    <3>. QED BY <1>6
  <2>. HIDE DEF upTo
  <2>. QED BY <1>5, <2>1
<1>. HIDE DEF upTo, before
<1>8. ASSUME NEW i \in 1..n
      PROVE  /\ before(i) = upTo(i - 1) /\ upTo(i - 1) \in Nat /\ q[i] \in Nat /\ u[i] \in Nat
             /\ upTo(i) = upTo(i - 1) + q[i]
             /\ left(i - 1) \in Nat
             /\ Clamp(0, q[i], sold - before(i)) = Min({left(i - 1), q[i]})
             /\ Min({left(i - 1), q[i]}) \in Nat
             /\ left(i) = left(i - 1) - Min({left(i - 1), q[i]})
  <2>1. i - 1 \in 0..n /\ (i - 1) + 1 = i /\ i \in 0..n /\ i > 0
    BY <1>1
  <2>. DEFINE b == upTo(i - 1)
              x == q[i]
  <2>2. before(i) = b /\ b \in Nat /\ x \in Nat /\ u[i] \in Nat /\ upTo(i) = b + x
    BY <1>3, <1>4, <1>5, <1>7, <2>1
  <2>. HIDE DEF b, x
  <2>. DEFINE l == IF b >= sold THEN 0 ELSE sold - b
              m == IF l <= x THEN l ELSE x
              y == Min({x, sold - b})
  <2>3. left(i - 1) = l /\ l \in Nat /\ left(i) = IF b + x >= sold THEN 0 ELSE sold - (b + x)
    BY <1>1, <2>2 DEF b
  <2>4. Min({l, x}) = m
    <3>. l \in Int /\ x \in Int
      BY <2>2, <2>3
    <3>. HIDE DEF l
    <3>. QED BY ONLY l \in Int, x \in Int, MinOfTwo
  <2>5. Clamp(0, x, sold - b) = m
    <3>1. x \in Int /\ sold - b \in Int
      BY <1>1, <2>2
    <3>. DEFINE e == sold - b
    <3>2. y = IF x <= e THEN x ELSE e
      <4>. HIDE DEF e
      <4>1. x \in Int /\ e \in Int
        BY <3>1 DEF e
      <4>2. Min({x, e}) = IF x <= e THEN x ELSE e
        BY ONLY <4>1, MinOfTwo
      <4>. QED BY <4>2 DEF e
    <3>3. y \in Int /\ 0 \in Int
      BY <3>1, <3>2
    <3>. HIDE DEF y
    <3>4. Max({0, y}) = IF 0 >= y THEN 0 ELSE y
      BY ONLY <3>3, MaxOfTwo
    <3>5. Clamp(0, x, sold - b) = Max({0, y})
      BY DEF Clamp, y
    <3>. QED BY <1>1, <2>2, <3>2, <3>4, <3>5
  <2>6. m \in Nat /\ (IF b + x >= sold THEN 0 ELSE sold - (b + x)) = l - m
    BY <1>1, <2>2, SMTT(30)
  <2>. HIDE DEF l, m, left
  <2>. QED BY <2>2, <2>3, <2>4, <2>5, <2>6 DEF b, x
<1>9. PICK acc \in [0..n -> [remaining : Nat, cost : Nat]] :
          /\ acc[0] = [remaining |-> sold, cost |-> 0] /\ FifoRun(s, sold) = acc[n]
          /\ \A i \in 1..n :
                 acc[i] = [remaining |-> acc[i - 1].remaining - Min({acc[i - 1].remaining, s[i].quantity}),
                           cost |-> acc[i - 1].cost
                                    + Min({acc[i - 1].remaining, s[i].quantity}) * s[i].cost]
  BY FifoSteps
<1>17. ASSUME NEW i \in 1..n
       PROVE  LET m == Min({acc[i - 1].remaining, s[i].quantity}) IN
              /\ acc[i].remaining = acc[i - 1].remaining - m
              /\ acc[i].cost = acc[i - 1].cost + m * s[i].cost
  <2>. DEFINE m == Min({acc[i - 1].remaining, s[i].quantity})
              x == acc[i - 1].remaining - m
              y == acc[i - 1].cost + m * s[i].cost
  <2>1. acc[i] = [remaining |-> x, cost |-> y]
    BY <1>9
  <2>. HIDE DEF x, y
  <2>2. acc[i].remaining = x /\ acc[i].cost = y
    BY <2>1
  <2>. QED BY <2>2 DEF x, y
<1>10. part \in Seq(Int) /\ Len(part) = n /\ \A i \in 1..n : part[i] = Min({left(i - 1), q[i]}) * u[i]
  <2>1. ASSUME NEW i \in 1..n PROVE part[i] = Min({left(i - 1), q[i]}) * u[i] /\ part[i] \in Int
    <3>. DEFINE m == Min({left(i - 1), q[i]})
    <3>1. m \in Nat /\ u[i] \in Nat /\ Clamp(0, q[i], sold - before(i)) = m
      BY <1>8
    <3>2. part[i] = Clamp(0, q[i], sold - before(i)) * u[i]
      OBVIOUS
    <3>. HIDE DEF m, part
    <3>3. m * u[i] \in Int
      BY <3>1
    <3>. QED BY <3>1, <3>2, <3>3 DEF m
  <2>2. part = [i \in 1..n |-> part[i]]
    OBVIOUS
  <2>. HIDE DEF part, n
  <2>3. part \in [1..n -> Int]
    BY <2>1, <2>2
  <2>4. part \in Seq(Int) /\ Len(part) = n
    BY <1>1, <2>3
  <2>. QED BY <2>1, <2>4
<1>11. part = [i \in DOMAIN s |-> Clamp(0, s[i].quantity, sold - before(i)) * s[i].cost]
  BY <1>1, <1>3
<1>. HIDE DEF part, left
<1>. DEFINE sum == [k \in 0..n |-> acc[k].cost]
            Fine == {k \in 0..n : acc[k].remaining = left(k)}
<1>12. Fine = 0..n
  <2>1. 0 \in Fine /\ Fine \in SUBSET (0..n)
    <3>1. 0 \in 0..n /\ upTo(0) = 0
      BY <1>1, <1>5
    <3>2. left(0) = sold
      BY <1>1, <3>1 DEF left
    <3>. QED BY <1>9, <3>1, <3>2
  <2>2. ASSUME NEW k \in 0..n - 1, k \in Fine PROVE k + 1 \in Fine
    <3>1. k + 1 \in 0..n /\ (k + 1) - 1 = k /\ k + 1 \in 1..n
      BY <1>1
    <3>2. acc[k + 1].remaining = acc[k].remaining - Min({acc[k].remaining, s[k + 1].quantity})
      <4>1. acc[k + 1].remaining
                = acc[(k + 1) - 1].remaining - Min({acc[(k + 1) - 1].remaining, s[k + 1].quantity})
        BY <1>17, <3>1
      <4>. QED BY <3>1, <4>1
    <3>3. left(k + 1) = left(k) - Min({left(k), q[k + 1]}) /\ q[k + 1] = s[k + 1].quantity
      BY <1>3, <1>8, <3>1
    <3>4. acc[k].remaining = left(k)
      BY <2>2
    <3>. QED BY <3>1, <3>2, <3>3, <3>4
  <2>. HIDE DEF Fine
  <2>. QED BY <1>1, <2>1, <2>2, UpTo
<1>13. sum[0] = 0 /\ \A i \in 1..Len(part) : sum[i] = sum[i - 1] + part[i]
  <2>1. sum[0] = 0
    BY <1>1, <1>9
  <2>2. ASSUME NEW i \in 1..n PROVE sum[i] = sum[i - 1] + part[i]
    <3>1. i - 1 \in 0..n /\ i \in 0..n
      BY <1>1
    <3>2. i - 1 \in Fine
      <4>. HIDE DEF Fine
      <4>. QED BY <1>12, <3>1
    <3>3. acc[i - 1].remaining = left(i - 1)
      BY <3>2
    <3>4. acc[i].cost = acc[i - 1].cost + Min({acc[i - 1].remaining, s[i].quantity}) * s[i].cost
      BY <1>17
    <3>5. part[i] = Min({left(i - 1), q[i]}) * u[i] /\ q[i] = s[i].quantity /\ u[i] = s[i].cost
      BY <1>3, <1>10
    <3>6. sum[i] = acc[i].cost /\ sum[i - 1] = acc[i - 1].cost
      BY <3>1
    <3>. HIDE DEF sum
    <3>. QED BY <3>3, <3>4, <3>5, <3>6
  <2>. HIDE DEF sum
  <2>. QED BY <1>10, <2>1, <2>2
<1>14. Total(part) = sum[n]
  <2>. HIDE DEF sum, n
  <2>1. Total(part) = sum[Len(part)]
    BY <1>10, <1>13, TotalIs
  <2>. QED BY <1>10, <2>1
<1>15. FifoCost(s, sold) = FifoRun(s, sold).cost
  BY DEF FifoCost, FifoRun
<1>16. FifoCost(s, sold) = sum[n]
  <2>. n \in 0..n
    BY <1>1
  <2>. QED BY <1>9, <1>15
<1>. HIDE DEF sum
<1>. QED BY <1>11, <1>14, <1>16 DEF FifoIsSound, before

-----------------------------------------------------------------------------
(* Replenishment *)

\* The statements about the suggested replenishment hold for any stock, sales,
\* supply, safety days and lead time.
LEMMA ReplenishmentHolds ==
    ASSUME NEW c, c.available \in Int, c.sales \in Int, c.supply \in Int, c.safety \in Int, c.lead \in Int
    PROVE  ReplenishmentIsSound(c)
<1>. DEFINE qty == SuggestedQty(c.available, c.sales, c.supply, c.safety, c.lead)
            target == c.sales * (c.supply + c.safety)
            point == c.sales * c.lead + c.sales * c.safety
<1>1. target \in Int /\ point \in Int
  OBVIOUS
<1>2. qty = IF c.sales <= 0 \/ c.available >= point THEN 0
            ELSE IF target - c.available <= 0 THEN 0 ELSE target - c.available
  BY <1>1, MaxOfTwo DEF SuggestedQty
<1>3. c.supply >= c.lead /\ c.sales > 0 => target >= point
  <2>1. SUFFICES ASSUME c.supply >= c.lead, c.sales > 0 PROVE target >= point
    OBVIOUS
  <2>2. c.sales * c.supply >= c.sales * c.lead
    BY <2>1, TimesMonotone
  <2>3. target = c.sales * c.supply + c.sales * c.safety
    OBVIOUS
  <2>. QED BY <2>2, <2>3
<1>4. c.supply >= c.lead => c.sales <= 0 \/ c.available + qty >= point
  BY <1>1, <1>2, <1>3
<1>5. c.supply >= c.lead => SuggestedQty(c.available + qty, c.sales, c.supply, c.safety, c.lead) = 0
  BY <1>4 DEF SuggestedQty
<1>. HIDE DEF qty
<1>6. /\ qty >= 0
      /\ qty > 0 => c.available + qty = target
  BY <1>1, <1>2
<1>. QED BY <1>5, <1>6 DEF ReplenishmentIsSound, qty

-----------------------------------------------------------------------------
(* Freight *)

\* The least number of units that covers a weight, as a quotient.
LEMMA CeilingIs ==
    ASSUME NEW a \in Nat, NEW w \in Nat, NEW u \in Nat \ {0}, a <= w
    PROVE  Min({n \in 0..w : n * u >= a}) = -((-a) \div u)
<1>. DEFINE q == (-a) \div u
            T == {n \in 0..w : n * u >= a}
<1>1. q \in Int /\ u * q <= -a /\ -a < u * q + u
  <2>. -a \in Int
    OBVIOUS
  <2>. QED BY Divides
<1>. HIDE DEF q
<1>2. -q \in 0..w
  <2>1. q <= 0
    <3>1. SUFFICES ASSUME q >= 1 PROVE FALSE
      BY <1>1
    <3>2. u * 1 <= u * q
      BY <3>1, <1>1, TimesMonotone
    <3>. QED BY <3>2, <1>1
  <2>2. -q <= w
    <3>1. SUFFICES ASSUME q <= -w - 1 PROVE FALSE
      BY <1>1
    <3>2. u * q <= u * (-w - 1)
      BY <3>1, <1>1, TimesMonotone
    <3>3. u * (-w - 1) = -(u * w) - u
      OBVIOUS
    <3>4. w * 1 <= w * u
      BY TimesMonotone
    <3>5. u * q \in Int /\ u * w \in Int /\ u * w = w * u /\ w * 1 = w
      BY <1>1
    <3>. QED BY <3>2, <3>3, <3>4, <3>5, <1>1
  <2>. QED BY <2>1, <2>2, <1>1
<1>3. (-q) * u >= a
  <2>. (-q) * u = -(u * q)
    BY <1>1
  <2>. QED BY <1>1
<1>4. -q \in T
  BY <1>2, <1>3
<1>5. ASSUME NEW n \in T PROVE -q <= n
  <2>1. SUFFICES ASSUME n <= -q - 1 PROVE FALSE
    BY <1>1, <1>5
  <2>2. u * n <= u * (-q - 1)
    BY <2>1, <1>1, <1>5, TimesMonotone
  <2>3. u * (-q - 1) = -(u * q) - u /\ n * u = u * n
    BY <1>1, <1>5
  <2>. QED BY <2>2, <2>3, <1>1, <1>5
<1>6. Min(T) = -q
  <2>. T \in SUBSET Nat /\ T # {}
    BY <1>4
  <2>1. Min(T) \in T /\ \A y \in T : Min(T) <= y
    BY MinOf
  <2>2. Min(T) \in Nat
    BY <2>1
  <2>. HIDE DEF T
  <2>. QED BY <1>4, <1>5, <2>1, <2>2, <1>1
<1>. QED BY <1>6 DEF q

\* The statements about freight hold for any weight and any terms.
LEMMA FreightHolds ==
    ASSUME NEW c, c.weight \in Nat, NEW f, c.terms = f, f.first \in Nat, f.firstPrice \in Nat,
           f.unit \in Nat \ {0}, f.unitPrice \in Nat, f.min \in Nat
    PROVE  FreightIsSound(c)
<1>. DEFINE w == c.weight
            q(x) == (f.first - x) \div f.unit
            p(x) == IF x <= f.first THEN f.firstPrice ELSE f.firstPrice - q(x) * f.unitPrice
<1>1. \A x \in Nat : q(x) \in Int
  <2>. TAKE x \in Nat
  <2>. f.first - x \in Int
    OBVIOUS
  <2>. QED BY Divides
<1>2. q(w + 1) <= q(w)
  <2>. f.first - w \in Int /\ f.first - (w + 1) \in Int /\ f.first - (w + 1) <= f.first - w
    OBVIOUS
  <2>. QED BY DivMonotone
<1>3. w + 1 > f.first => q(w + 1) <= 0
  <2>1. SUFFICES ASSUME w + 1 > f.first, q(w + 1) >= 1 PROVE FALSE
    BY <1>1
  <2>2. f.unit * q(w + 1) <= f.first - (w + 1)
    <3>. f.first - (w + 1) \in Int
      OBVIOUS
    <3>. QED BY Divides
  <2>3. q(w + 1) \in Int
    BY <1>1
  <2>. HIDE DEF q
  <2>4. f.unit * 1 <= f.unit * q(w + 1)
    BY <2>1, <2>3, TimesMonotone
  <2>. QED BY <2>1, <2>2, <2>3, <2>4
<1>. HIDE DEF q
<1>4. q(w) \in Int /\ q(w + 1) \in Int
  BY <1>1
<1>5. f.unitPrice * q(w + 1) <= f.unitPrice * q(w)
  BY <1>2, <1>4, TimesMonotone
<1>6. w + 1 > f.first => f.unitPrice * q(w + 1) <= 0
  <2>. SUFFICES ASSUME w + 1 > f.first PROVE f.unitPrice * q(w + 1) <= f.unitPrice * 0
    OBVIOUS
  <2>. QED BY <1>3, <1>4, TimesMonotone
<1>7. /\ q(w) * f.unitPrice = f.unitPrice * q(w) /\ q(w + 1) * f.unitPrice = f.unitPrice * q(w + 1)
      /\ f.unitPrice * q(w) \in Int /\ f.unitPrice * q(w + 1) \in Int
  BY <1>4
<1>8. p(w) <= p(w + 1) /\ p(w) \in Int /\ p(w + 1) \in Int
  BY <1>5, <1>6, <1>7
<1>9. /\ Freight(w, f) = IF w <= 0 THEN 0 ELSE Max({f.min, p(w)})
      /\ Freight(w + 1, f) = IF w + 1 <= 0 THEN 0 ELSE Max({f.min, p(w + 1)})
  BY DEF Freight, q
<1>10. ASSUME w > f.first
       PROVE  Freight(w, f) = Max({f.min, f.firstPrice
                  + Min({n \in 0..w : n * f.unit >= w - f.first}) * f.unitPrice})
  <2>1. Min({n \in 0..w : n * f.unit >= w - f.first}) = -((-(w - f.first)) \div f.unit)
    <3>. w - f.first \in Nat /\ w - f.first <= w
      BY <1>10
    <3>. QED BY CeilingIs, SMTT(30)
  <2>2. -(w - f.first) = f.first - w
    OBVIOUS
  <2>3. Min({n \in 0..w : n * f.unit >= w - f.first}) = -q(w)
    BY <2>1, <2>2 DEF q
  <2>4. f.firstPrice + (-q(w)) * f.unitPrice = p(w)
    BY <1>10, <1>4, <1>7
  <2>. DEFINE units == Min({n \in 0..w : n * f.unit >= w - f.first})
  <2>5. f.firstPrice + units * f.unitPrice = p(w)
    BY <2>3, <2>4
  <2>. HIDE DEF p, units
  <2>6. Freight(w, f) = Max({f.min, p(w)})
    BY <1>9, <1>10
  <2>7. Freight(w, f) = Max({f.min, f.firstPrice + units * f.unitPrice})
    BY <2>5, <2>6
  <2>. QED BY <2>7 DEF units
<1>11. Freight(w, f) <= Freight(w + 1, f)
  <2>. HIDE DEF p
  <2>1. Max({f.min, p(w)}) = (IF f.min >= p(w) THEN f.min ELSE p(w))
        /\ Max({f.min, p(w + 1)}) = (IF f.min >= p(w + 1) THEN f.min ELSE p(w + 1))
    BY <1>8, MaxOfTwo
  <2>. QED BY <2>1, <1>8, <1>9
<1>. QED BY <1>10, <1>11 DEF FreightIsSound

-----------------------------------------------------------------------------
(* The rate of errors of a rollout *)

\* The samples there were and their rate after the outcomes.
RateRun(outcomes) ==
    FoldLeft(LAMBDA acc, isError :
                 [samples |-> acc.samples + 1, rate |-> RateAfter(acc.rate, acc.samples + 1, isError)],
             [samples |-> 0, rate |-> 0], outcomes)

\* A rate of errors stays a number.
LEMMA RateType ==
    ASSUME NEW rate \in Int, NEW samples \in Nat \ {0}, NEW isError
    PROVE  RateAfter(rate, samples, isError) \in Int
<1>. DEFINE x == (rate * (samples - 1)) \div 10000
            errors == x + (IF isError THEN 1 ELSE 0)
<1>1. x \in Int
  <2>. DEFINE y == rate * (samples - 1)
  <2>1. y \in Int
    OBVIOUS
  <2>. HIDE DEF y
  <2>2. y \div 10000 \in Int
    BY <2>1, SMT
  <2>. QED BY <2>2 DEF y
<1>. HIDE DEF x
<1>2. errors \in Int
  BY <1>1
<1>. HIDE DEF errors
<1>3. errors * 10000 \in Int
  BY <1>2, SMT
<1>. DEFINE z == errors * 10000
<1>. HIDE DEF z
<1>4. Rounded(z, samples) \in Int
  BY <1>3, Rounds, SMT DEF z
<1>5. RateAfter(rate, samples, isError) = Rounded(z, samples)
  BY SMT DEF RateAfter, z, errors, x
<1>. QED BY <1>4, <1>5

\* The rate is computed from one outcome to the next.
LEMMA RateSteps ==
    ASSUME NEW outcomes \in Seq(BOOLEAN)
    PROVE  \E acc \in [0..Len(outcomes) -> [samples : Nat, rate : Int]] :
               /\ acc[0] = [samples |-> 0, rate |-> 0] /\ RateRun(outcomes) = acc[Len(outcomes)]
               /\ \A i \in 1..Len(outcomes) : acc[i] = [samples |-> acc[i - 1].samples + 1,
                  rate |-> RateAfter(acc[i - 1].rate, acc[i - 1].samples + 1, outcomes[i])]
<1>. DEFINE n == Len(outcomes)
            State == [samples : Nat, rate : Int]
            start == [samples |-> 0, rate |-> 0]
            IsFold(g) == g = [T \in SUBSET DOMAIN outcomes |->
                                  IF T = {} THEN start ELSE [samples |-> g[T \ {Max(T)}].samples + 1,
                  rate |-> RateAfter(g[T \ {Max(T)}].rate, g[T \ {Max(T)}].samples + 1, outcomes[Max(T)])]]
            fold == CHOOSE g : IsFold(g)
            S == State \cup {fold[T] : T \in SUBSET (1..n)}
            F == [p \in S \X (1..n) |-> [samples |-> p[1].samples + 1,
                  rate |-> RateAfter(p[1].rate, p[1].samples + 1, outcomes[p[2]])]]
<1>0. n \in Nat /\ DOMAIN outcomes = 1..n
  OBVIOUS
<1>1. \A p \in State \X (1..n) : [samples |-> p[1].samples + 1,
                  rate |-> RateAfter(p[1].rate, p[1].samples + 1, outcomes[p[2]])] \in State
  <2>. TAKE p \in [samples : Nat, rate : Int] \X (1..n)
  <2>. DEFINE e == outcomes[p[2]]
              x == p[1].rate
              m == p[1].samples + 1
  <2>1. x \in Int /\ m \in Nat \ {0}
    OBVIOUS
  <2>. HIDE DEF e, x, m
  <2>2. RateAfter(x, m, e) \in Int /\ m \in Nat
    BY <2>1, RateType
  <2>3. [samples |-> m, rate |-> RateAfter(x, m, e)] \in [samples : Nat, rate : Int]
    BY <2>2
  <2>. QED BY <2>3 DEF e, x, m
<1>2. Closed(F, State, start, n)
  BY <1>0, <1>1 DEF Closed
<1>4. \A T \in SUBSET (1..n) : T # {} => Max(T) \in 1..n /\ T \ {Max(T)} \in SUBSET (1..n)
  <2>1. ASSUME NEW T \in SUBSET (1..n), T # {} PROVE Max(T) \in T
    <3>1. T \in SUBSET (0..n)
      BY <1>0
    <3>. HIDE DEF n
    <3>. QED BY <1>0, <2>1, <3>1, MaxOf
  <2>. QED BY <2>1
<1>5. \E g : IsFold(g)
  <2>1. PICK g \in [SUBSET (1..n) -> State] : IsFoldOf(g, F, start, n)
    <3>. HIDE DEF n, F, State, start
    <3>. QED BY <1>0, <1>2, FoldExists
  <2>2. IsFold(g)
    <3>1. ASSUME NEW T \in SUBSET (1..n)
          PROVE g[T] = IF T = {} THEN start ELSE [samples |-> g[T \ {Max(T)}].samples + 1,
                  rate |-> RateAfter(g[T \ {Max(T)}].rate, g[T \ {Max(T)}].samples + 1, outcomes[Max(T)])]
      <4>1. CASE T = {}
        <5>. HIDE DEF F
        <5>. QED BY <4>1, <2>1 DEF IsFoldOf
      <4>2. CASE T # {}
        <5>1. <<g[T \ {Max(T)}], Max(T)>> \in S \X (1..n)
          BY <2>1, <1>4, <4>2
        <5>2. F[<<g[T \ {Max(T)}], Max(T)>>] = [samples |-> g[T \ {Max(T)}].samples + 1,
                  rate |-> RateAfter(g[T \ {Max(T)}].rate, g[T \ {Max(T)}].samples + 1, outcomes[Max(T)])]
          BY <5>1
        <5>. HIDE DEF F
        <5>. QED BY <4>2, <5>2, <2>1 DEF IsFoldOf
      <4>. QED BY <4>1, <4>2
    <3>. HIDE DEF F
    <3>. QED BY <3>1, <1>0, <2>1
  <2>. QED BY <2>2
<1>6. IsFold(fold)
  <2>. HIDE DEF IsFold
  <2>. QED BY <1>5
<1>7. IsFoldOf(fold, F, start, n)
  <2>1. ASSUME NEW T \in SUBSET (1..n)
        PROVE fold[T] = IF T = {} THEN start ELSE F[<<fold[T \ {Max(T)}], Max(T)>>]
    <3>1. fold[T] = IF T = {} THEN start ELSE [samples |-> fold[T \ {Max(T)}].samples + 1,
                  rate |-> RateAfter(fold[T \ {Max(T)}].rate, fold[T \ {Max(T)}].samples + 1, outcomes[Max(T)])]
      <4>. HIDE DEF fold
      <4>. QED BY <1>6, <1>0
    <3>2. CASE T = {}
      BY <3>1, <3>2
    <3>3. CASE T # {}
      <4>. HIDE DEF fold
      <4>1. <<fold[T \ {Max(T)}], Max(T)>> \in S \X (1..n)
        BY <1>4, <3>3
      <4>2. F[<<fold[T \ {Max(T)}], Max(T)>>] = [samples |-> fold[T \ {Max(T)}].samples + 1,
                  rate |-> RateAfter(fold[T \ {Max(T)}].rate, fold[T \ {Max(T)}].samples + 1, outcomes[Max(T)])]
        BY <4>1
      <4>. HIDE DEF F
      <4>. QED BY <3>1, <3>3, <4>2
    <3>. QED BY <3>2, <3>3
  <2>. HIDE DEF F, fold
  <2>. QED BY <2>1 DEF IsFoldOf
<1>. DEFINE acc == RunOf(fold, n)
<1>8. acc \in [0..n -> State] /\ IsRun(acc, F, start, n) /\ fold[1..n] = acc[n]
  <2>. HIDE DEF n, F, fold, S, State, start
  <2>. QED BY <1>0, <1>2, <1>7, FoldSteps
<1>. HIDE DEF acc
<1>9. \A i \in 1..n : acc[i] = [samples |-> acc[i - 1].samples + 1,
                  rate |-> RateAfter(acc[i - 1].rate, acc[i - 1].samples + 1, outcomes[i])]
  <2>1. ASSUME NEW i \in 1..n PROVE acc[i] = [samples |-> acc[i - 1].samples + 1,
                  rate |-> RateAfter(acc[i - 1].rate, acc[i - 1].samples + 1, outcomes[i])]
    <3>1. <<acc[i - 1], i>> \in S \X (1..n)
      <4>1. i - 1 \in 0..n /\ i \in 1..n
        BY <1>0
      <4>. QED BY <4>1, <1>8
    <3>2. F[<<acc[i - 1], i>>] = [samples |-> acc[i - 1].samples + 1,
                  rate |-> RateAfter(acc[i - 1].rate, acc[i - 1].samples + 1, outcomes[i])]
      BY <3>1
    <3>. HIDE DEF F
    <3>. QED BY <1>8, <3>2 DEF IsRun
  <2>. QED BY <2>1
<1>10. RateRun(outcomes) = fold[DOMAIN outcomes]
  BY DEF RateRun, FoldLeft, MapThenFoldSet
<1>. HIDE DEF fold, F
<1>. QED BY <1>0, <1>8, <1>9, <1>10 DEF IsRun

\* A rate that stands for e errors never counts as more of them.
LEMMA RateCounts ==
    ASSUME NEW e \in Nat, NEW k \in Nat \ {0}, k < 20000
    PROVE  (Rounded(e * 10000, k) * k) \div 10000 <= e
<1>. DEFINE r == Rounded(e * 10000, k)
            x == r * k
            y == e * 10000
<1>1. y \in Int
  BY SMT
<1>2. r \in Int /\ 2 * k * r <= 2 * y + k
  <2>. HIDE DEF y
  <2>1. Rounded(y, k) \in Int /\ 2 * k * Rounded(y, k) <= 2 * y + k
    BY ONLY <1>1, k \in Nat \ {0}, Rounds
  <2>. QED BY <2>1 DEF y
<1>. HIDE DEF r
<1>3. x \in Int /\ 2 * k * r = 2 * x
  BY <1>2, SMT
<1>. HIDE DEF x
<1>4. 2 * x < 20000 * e + 20000
  BY <1>2, <1>3, SMT DEF y
<1>5. x \div 10000 <= e
  BY <1>3, <1>4, SMT
<1>. QED BY <1>5 DEF x, r

\* The rate of errors is where its run ends.
LEMMA RateIs ==
    ASSUME NEW outcomes
    PROVE  ErrorRate(outcomes) = RateRun(outcomes).rate
BY DEF ErrorRate, RateRun

\* The statements about rates of errors hold for any list of outcomes that is
\* short enough for the rounding of the smoothed rate.
LEMMA RateHolds ==
    ASSUME NEW c, c.outcomes \in Seq(BOOLEAN), c.outcomes # <<>>, Len(c.outcomes) < 20000
    PROVE  RateIsSound(c)
<1>. DEFINE s == c.outcomes
            n == Len(s)
            B == {i \in 1..n : s[i]}
            count(k) == Cardinality(B \cap 1..k)
            all == B = 1..n
            rate(e, k) == Rounded(e * 10000, k)
<1>1. n \in Nat \ {0} /\ DOMAIN s = 1..n /\ n < 20000
  OBVIOUS
<1>2. PICK acc \in [0..n -> [samples : Nat, rate : Int]] :
          /\ acc[0] = [samples |-> 0, rate |-> 0] /\ RateRun(s) = acc[n]
          /\ \A i \in 1..n :
                 acc[i] = [samples |-> acc[i - 1].samples + 1,
                           rate |-> RateAfter(acc[i - 1].rate, acc[i - 1].samples + 1, s[i])]
  BY RateSteps
<1>3. ASSUME NEW i \in 1..n
      PROVE  /\ acc[i].samples = acc[i - 1].samples + 1
             /\ acc[i].rate = RateAfter(acc[i - 1].rate, acc[i - 1].samples + 1, s[i])
  <2>. DEFINE x == acc[i - 1].samples + 1
              y == RateAfter(acc[i - 1].rate, acc[i - 1].samples + 1, s[i])
  <2>1. acc[i] = [samples |-> x, rate |-> y]
    BY <1>2
  <2>. HIDE DEF x, y
  <2>2. acc[i].samples = x /\ acc[i].rate = y
    BY <2>1
  <2>. QED BY <2>2 DEF x, y
<1>4. acc[0].samples = 0 /\ acc[0].rate = 0
  BY <1>2
<1>18. B \in SUBSET (1..n) /\ \A i \in 1..n : s[i] <=> i \in B
  OBVIOUS
<1>. HIDE DEF s, n, B
<1>5. ASSUME NEW k \in Nat
      PROVE  /\ count(k) \in Nat
             /\ count(k + 1) = count(k) + (IF k + 1 \in B THEN 1 ELSE 0)
             /\ count(0) = 0
  BY CountSteps, SMTT(30)
<1>. HIDE DEF count
<1>. DEFINE Stands(k, e) == e \in 0..count(k) /\ (all => e = k) /\ (k = 0 \/ acc[k].rate = rate(e, k))
            Good == {k \in 0..n : acc[k].samples = k /\ \E e \in Nat : Stands(k, e)}
<1>6. ASSUME NEW k \in 0..n - 1, acc[k].samples = k, NEW e \in Nat, Stands(k, e)
      PROVE  acc[k + 1].samples = k + 1 /\ \E f \in Nat : Stands(k + 1, f)
  <2>. DEFINE one == IF k + 1 \in B THEN 1 ELSE 0
              m == (acc[k].rate * k) \div 10000
  <2>0. k + 1 \in 1..n /\ (k + 1) - 1 = k /\ k \in Nat /\ k \in 0..n /\ acc[k].rate \in Int /\ k + 1 < 20000
    <3>1. k + 1 \in 1..n /\ (k + 1) - 1 = k /\ k \in Nat /\ k \in 0..n /\ k + 1 < 20000
      BY <1>1, SMT
    <3>2. acc[k].rate \in Int
      BY <1>2, <3>1
    <3>. QED BY <3>1, <3>2
  <2>1. acc[k + 1].samples = k + 1 /\ acc[k + 1].rate = RateAfter(acc[k].rate, k + 1, s[k + 1])
    BY <1>3, <1>6, <2>0
  <2>2. count(k) \in Nat /\ count(k + 1) = count(k) + one /\ one \in {0, 1} /\ (all => one = 1)
    <3>1. count(k) \in Nat /\ count(k + 1) = count(k) + one
      BY <1>5, <2>0
    <3>2. all => k + 1 \in B
      BY <2>0
    <3>. QED BY <3>1, <3>2
  <2>. HIDE DEF all, one
  <2>3. m \in Int /\ m <= count(k) /\ (all => m = k)
    <3>1. CASE k = 0
      <4>1. acc[k].rate = 0
        BY <1>4, <3>1
      <4>2. m = 0
        BY <3>1, <4>1, SMT
      <4>. QED BY <2>2, <3>1, <4>2
    <3>2. CASE k # 0
      <4>1. acc[k].rate = rate(e, k) /\ e \in 0..count(k) /\ (all => e = k)
        BY <1>6, <3>2
      <4>2. m <= e
        <5>1. k \in Nat \ {0} /\ k < 20000
          BY <2>0, <3>2, SMT
        <5>2. (rate(e, k) * k) \div 10000 <= e
          BY <5>1, RateCounts
        <5>. HIDE DEF rate
        <5>. QED BY <4>1, <5>2
      <4>3. m \in Int
        <5>. DEFINE y == acc[k].rate * k
        <5>1. y \in Int
          BY <2>0
        <5>. HIDE DEF y
        <5>2. y \div 10000 \in Int
          BY <5>1, SMT
        <5>. QED BY <5>2 DEF y
      <4>4. all => m = k
        <5>. SUFFICES ASSUME all PROVE m = k
          OBVIOUS
        <5>1. rate(e, k) = 10000
          <6>1. e = k /\ k \in Nat \ {0}
            BY <2>0, <3>2, <4>1
          <6>2. 2 * (k * 10000) + k \in Int /\ 2 * k \in Nat \ {0} /\ 2 * k * 10000 = 2 * (k * 10000)
            BY <6>1, SMT
          <6>. DEFINE t == 2 * (k * 10000) + k
                      d == 2 * k
          <6>3. t \in Int /\ d \in Nat \ {0} /\ d * 10000 <= t /\ t < d * 10000 + d
            BY <6>1, <6>2, SMT
          <6>. HIDE DEF t, d
          <6>4. t \div d = 10000
            <7>. DEFINE ten == 10000
            <7>1. ten \in Int /\ d * ten <= t /\ t < d * ten + d
              BY <6>3, SMT
            <7>. HIDE DEF ten
            <7>2. t \div d = ten
              BY ONLY <6>3, <7>1, DivIs, SMT
            <7>. QED BY <7>2, SMT DEF ten
          <6>. QED BY <6>1, <6>4, SMT DEF t, d, Rounded
        <5>2. m = (10000 * k) \div 10000
          BY <4>1, <5>1, SMT
        <5>. QED BY <2>0, <5>2, SMT
      <4>5. e <= count(k) /\ e \in Int /\ count(k) \in Int
        BY <2>2, <4>1
      <4>. HIDE DEF m
      <4>. QED BY <4>2, <4>3, <4>4, <4>5
    <3>. QED BY <3>1, <3>2
  <2>. DEFINE f == m + one
  <2>4. acc[k + 1].rate = rate(f, k + 1)
    <3>1. RateAfter(acc[k].rate, k + 1, s[k + 1]) = rate(f, k + 1)
      <4>1. s[k + 1] <=> k + 1 \in B
        BY <1>18, <2>0
      <4>2. RateAfter(acc[k].rate, k + 1, s[k + 1])
                = Rounded(((acc[k].rate * ((k + 1) - 1)) \div 10000 + (IF s[k + 1] THEN 1 ELSE 0)) * 10000, k + 1)
        BY SMT DEF RateAfter
      <4>3. (IF s[k + 1] THEN 1 ELSE 0) = one
        BY <4>1 DEF one
      <4>. QED BY <2>0, <4>2, <4>3, SMT
    <3>. QED BY <2>1, <3>1
  <2>5. m >= 0
    <3>1. CASE k = 0
      <4>1. acc[k].rate = 0
        BY <1>4, <3>1
      <4>. QED BY <3>1, <4>1, SMT
    <3>2. CASE k # 0
      <4>1. acc[k].rate = rate(e, k) /\ k \in Nat \ {0}
        BY <1>6, <2>0, <3>2
      <4>. DEFINE y == e * 10000
                  r == Rounded(y, k)
                  x == r * k
      <4>2. y \in Int /\ k * 0 <= y /\ 0 \in Int
        BY <4>1, SMT
      <4>. HIDE DEF y
      <4>3. 0 <= r /\ r \in Int
        <5>1. k \in Nat \ {0}
          BY <4>1
        <5>. DEFINE zero == 0
        <5>2. zero \in Int /\ k * zero <= y
          BY <4>2
        <5>. HIDE DEF zero
        <5>3. zero <= Rounded(y, k) /\ Rounded(y, k) \in Int
          BY ONLY <4>2, <5>1, <5>2, RoundedBounds, Rounds
        <5>. QED BY <5>3 DEF zero
      <4>. HIDE DEF r
      <4>4. x >= 0 /\ x \in Int
        BY <4>1, <4>3, SMT
      <4>. HIDE DEF x
      <4>5. x \div 10000 >= 0
        BY <4>4, SMT
      <4>6. m = x \div 10000
        BY <4>1, SMT DEF x, r, y
      <4>. HIDE DEF m
      <4>. QED BY <4>5, <4>6
    <3>. QED BY <3>1, <3>2
  <2>. HIDE DEF m
  <2>6. f \in Nat /\ f \in 0..count(k + 1) /\ (all => f = k + 1)
    BY <2>0, <2>2, <2>3, <2>5
  <2>. HIDE DEF f, rate
  <2>7. Stands(k + 1, f)
    BY <2>4, <2>6
  <2>. HIDE DEF Stands
  <2>. QED BY <2>1, <2>6, <2>7
<1>7. Good = 0..n
  <2>1. 0 \in Good /\ Good \in SUBSET (0..n)
    <3>3. 0 \in Nat /\ 0 \in 0..n /\ n # 0
      BY <1>1
    <3>4. count(0) = 0
      BY <1>5, <3>3
    <3>1. count(0) = 0 /\ 0 \in Nat /\ 0 \in 0..n /\ 0 \in 0..count(0)
      BY <3>3, <3>4
    <3>2. Stands(0, 0)
      BY <3>1
    <3>. HIDE DEF Stands
    <3>. QED BY <1>4, <3>1, <3>2
  <2>2. ASSUME NEW k \in 0..n - 1, k \in Good PROVE k + 1 \in Good
    <3>1. k + 1 \in 0..n
      BY <1>1
    <3>2. PICK e \in Nat : acc[k].samples = k /\ Stands(k, e)
      BY <2>2
    <3>3. acc[k + 1].samples = k + 1 /\ \E f \in Nat : Stands(k + 1, f)
      <4>. HIDE DEF Stands
      <4>. QED BY <1>6, <3>2
    <3>. HIDE DEF Stands
    <3>. QED BY <3>1, <3>3
  <2>. HIDE DEF Good
  <2>3. n \in Nat
    BY <1>1
  <2>. QED BY ONLY <2>1, <2>2, <2>3, UpTo
<1>8. PICK e \in Nat : e \in 0..count(n) /\ (all => e = n) /\ acc[n].rate = rate(e, n)
  <2>1. n \in Good
    <3>. HIDE DEF Good
    <3>. QED BY <1>1, <1>7
  <2>. QED BY <1>1, <2>1
<1>9. ErrorRate(s) = rate(e, n)
  <2>1. ErrorRate(s) = RateRun(s).rate
    BY RateIs
  <2>. QED BY <1>2, <1>8, <2>1
<1>10. rate(e, n) <= rate(count(n), n)
  <2>. DEFINE x == e * 10000
              y == count(n) * 10000
  <2>1. count(n) \in Nat
    BY <1>1, <1>5
  <2>2. x \in Int /\ y \in Int /\ x <= y
    BY <1>8, <2>1, SMT
  <2>. HIDE DEF x, y
  <2>3. Rounded(x, n) <= Rounded(y, n)
    BY ONLY <1>1, <2>2, RoundedMonotone
  <2>. QED BY <2>3 DEF x, y
<1>11. count(n) = n => rate(e, n) = 10000
  <2>. SUFFICES ASSUME count(n) = n PROVE rate(e, n) = 10000
    OBVIOUS
  <2>6. n \in Nat
    BY <1>1
  <2>7. B \cap 1..n = B
    BY ONLY <1>18, CapOf
  <2>8. IsFiniteSet(1..n) /\ Cardinality(1..n) = n
    BY <2>6, FirstNumbers
  <2>9. count(n) = Cardinality(B)
    <3>1. count(n) = Cardinality(B \cap 1..n)
      BY DEF count
    <3>. QED BY ONLY <2>7, <3>1
  <2>1. IsFiniteSet(1..n) /\ Cardinality(B) = Cardinality(1..n)
    BY <2>8, <2>9
  <2>2. all
    <3>1. B \in SUBSET (1..n)
      BY <1>18
    <3>2. 1..n = B
      BY ONLY <2>1, <3>1, FS_Subset
    <3>. QED BY <3>2 DEF all
  <2>3. e = n
    BY <1>8, <2>2
  <2>. DEFINE t == 2 * (n * 10000) + n
              d == 2 * n
              ten == 10000
  <2>4. t \in Int /\ d \in Nat \ {0} /\ ten \in Int /\ d * ten <= t /\ t < d * ten + d
    BY <1>1, SMT
  <2>5. t \div d = ten
    <3>. HIDE DEF t, d, ten
    <3>. QED BY ONLY <2>4, DivIs, SMT
  <2>. QED BY <2>3, <2>5, SMT DEF Rounded
<1>12. count(n) = Cardinality({i \in DOMAIN s : s[i]})
  <2>1. B \cap 1..n = B
    BY ONLY <1>18, CapOf
  <2>2. B = {i \in DOMAIN s : s[i]}
    BY <1>1 DEF B
  <2>3. count(n) = Cardinality(B)
    <3>1. count(n) = Cardinality(B \cap 1..n)
      BY DEF count
    <3>. QED BY ONLY <2>1, <3>1
  <2>. QED BY <2>2, <2>3
<1>. HIDE DEF rate
<1>13. ErrorRate(s) <= rate(count(n), n) /\ (count(n) = n => ErrorRate(s) = 10000)
  BY <1>9, <1>10, <1>11
<1>. QED BY <1>12, <1>13 DEF RateIsSound, rate, s, n

-----------------------------------------------------------------------------
(* Levels of approval *)

\* How many of the amounts are exceeded.
Exceeded(amount) == Cardinality({i \in DOMAIN Thresholds : amount > Thresholds[i]})

\* Which of the limits of an amount it exceeds.
LEMMA ExceededIs ==
    ASSUME NEW n \in Int
    PROVE  Exceeded(n) = IF n > 100000 THEN 3 ELSE IF n > 10000 THEN 2 ELSE IF n > 1000 THEN 1 ELSE 0
<1>. DEFINE T == {i \in DOMAIN Thresholds : n > Thresholds[i]}
<1>1. T = {i \in 1..3 : n > IF i = 1 THEN 1000 ELSE IF i = 2 THEN 10000 ELSE 100000}
  BY DEF Thresholds
<1>2. T = IF n > 100000 THEN 1..3 ELSE IF n > 10000 THEN 1..2 ELSE IF n > 1000 THEN 1..1 ELSE 1..0
  BY <1>1
<1>. HIDE DEF T
<1>3. Cardinality(T) = IF n > 100000 THEN 3 ELSE IF n > 10000 THEN 2 ELSE IF n > 1000 THEN 1 ELSE 0
  BY <1>2, Counts
<1>. QED BY <1>3 DEF Exceeded, T

\* The level of an approval, without its names.
LEMMA LevelNumberIs ==
    ASSUME NEW amount \in Int, NEW jit \in BOOLEAN, NEW rating \in Int
    PROVE  LevelNumber(amount, jit, rating) =
               LET base == Exceeded(amount) + 1
                   raised == IF jit /\ base = 1 THEN 2 ELSE base
                   lowered == IF rating >= 90 /\ raised \in {2, 3} THEN raised - 1 ELSE raised
               IN  IF rating = 0 /\ lowered = 1 THEN 2 ELSE lowered
<1>. DEFINE base == Exceeded(amount) + 1
            raised == IF jit /\ base = 1 THEN 2 ELSE base
            lowered == IF rating >= 90 /\ raised \in {2, 3} THEN raised - 1 ELSE raised
            k == IF rating = 0 /\ lowered = 1 THEN 2 ELSE lowered
            T == {i \in 1..Len(Levels) : Levels[i] = DetermineApprovalLevel(amount, jit, rating)}
<1>1. base \in 1..4
  BY ExceededIs
<1>2. LevelOfAmount(amount) = Levels[base]
  BY DEF LevelOfAmount, Exceeded
<1>. HIDE DEF base
<1>3. k \in 1..4
  BY <1>1
<1>4. DetermineApprovalLevel(amount, jit, rating) = Levels[k]
  BY <1>1, <1>2 DEF DetermineApprovalLevel, Levels
<1>5. T = {k}
  <2>. HIDE DEF k
  <2>. QED BY <1>3, <1>4 DEF Levels
<1>6. LevelNumber(amount, jit, rating) = k
  <2>. HIDE DEF k
  <2>1. LevelNumber(amount, jit, rating) = IF T # {} THEN Min(T) ELSE 0
    BY DEF LevelNumber, SelectInSeq
  <2>2. Min({k}) = k
    BY <1>3 DEF Min
  <2>. QED BY <1>5, <2>1, <2>2
<1>. QED BY <1>6 DEF base

\* The statements about levels of approval hold for any amount and rating.
LEMMA LevelHolds ==
    ASSUME NEW c, c.amount \in Int, c.jit \in BOOLEAN, c.rating \in Int
    PROVE  LevelIsSound(c)
<1>. DEFINE num(a) == LevelNumber(a, c.jit, c.rating)
<1>1. \A a \in Int : Exceeded(a) \in 0..3 /\ (a <= c.amount => Exceeded(a) <= Exceeded(c.amount))
  BY ExceededIs
<1>2. ASSUME NEW a \in Int
      PROVE  num(a) = LET base == Exceeded(a) + 1
                          raised == IF c.jit /\ base = 1 THEN 2 ELSE base
                          lowered == IF c.rating >= 90 /\ raised \in {2, 3} THEN raised - 1 ELSE raised
                      IN  IF c.rating = 0 /\ lowered = 1 THEN 2 ELSE lowered
  BY LevelNumberIs
<1>. HIDE DEF num
<1>3. num(c.amount) \in 1..4 /\ Exceeded(c.amount) + 1 - num(c.amount) \in -1..1
      /\ (c.rating = 0 => num(c.amount) > 1)
  BY <1>1, <1>2
<1>4. ASSUME NEW a \in Int, a <= c.amount PROVE num(a) <= num(c.amount)
  <2>1. Exceeded(a) \in 0..3 /\ Exceeded(c.amount) \in 0..3 /\ Exceeded(a) <= Exceeded(c.amount)
    BY <1>1, <1>4
  <2>. QED BY <1>2, <2>1
<1>5. \A p \in Purchases : p.amount \in Int
  BY DEF Purchases
<1>6. \A p \in Purchases : p.jit = c.jit /\ p.rating = c.rating /\ p.amount <= c.amount
                               => LevelNumber(p.amount, p.jit, p.rating) <= num(c.amount)
  BY <1>4, <1>5 DEF num
<1>. QED BY <1>3, <1>6 DEF LevelIsSound, Exceeded, num

-----------------------------------------------------------------------------
(* Rules of declarations *)

\* The first rule of a kind that applies, 0 for none.
FirstRule(rules, goods, type) ==
    SelectInSeq(rules, LAMBDA rule : rule.type = type /\ Applies(rule, goods))

\* The first rule of a type that applies.
LEMMA FirstRuleIs ==
    ASSUME NEW A, NEW rules \in Seq(A), NEW goods, NEW type
    PROVE  LET I == {i \in 1..Len(rules) : rules[i].type = type /\ Applies(rules[i], goods)}
               first == FirstRule(rules, goods, type)
           IN  /\ first \in 0..Len(rules)
               /\ first = 0 <=> I = {}
               /\ first # 0 => first \in I /\ \A i \in I : first <= i
<1>. DEFINE I == {i \in 1..Len(rules) : rules[i].type = type /\ Applies(rules[i], goods)}
            n == Len(rules)
<1>1. FirstRule(rules, goods, type) = IF I # {} THEN Min(I) ELSE 0
  BY DEF FirstRule, SelectInSeq
<1>2. I \in SUBSET (1..n) /\ n \in Nat
  OBVIOUS
<1>. HIDE DEF I, n
<1>3. I # {} => Min(I) \in I /\ \A i \in I : Min(I) <= i
  <2>1. I \in SUBSET Nat
    BY <1>2
  <2>. QED BY <2>1, MinOf
<1>. DEFINE first == FirstRule(rules, goods, type)
<1>4. first \in 0..n /\ (first = 0 <=> I = {}) /\ (first # 0 => first \in I /\ \A i \in I : first <= i)
  <2>1. CASE I = {}
    BY <1>1, <1>2, <2>1
  <2>2. CASE I # {}
    <3>. DEFINE m == Min(I)
    <3>. HIDE DEF m
    <3>1. first = m /\ m \in I /\ \A i \in I : m <= i
      BY <1>1, <1>3, <2>2 DEF m
    <3>2. m \in 1..n
      BY <1>2, <3>1
    <3>3. m \in 0..n /\ m # 0
      BY <1>2, <3>2
    <3>. HIDE DEF first
    <3>. QED BY <2>2, <3>1, <3>3
  <2>. QED BY <2>1, <2>2
<1>. QED BY <1>4 DEF I, n

MatchAlong(rules, goods, kinds) ==
    FoldLeft(LAMBDA found, type : IF found # 0 THEN found ELSE FirstRule(rules, goods, type), 0, kinds)

\* The rule of a declaration, along the kinds of declarations.
LEMMA MatchIs ==
    ASSUME NEW rules, NEW goods
    PROVE  MatchDeclarationRule(rules, goods) = MatchAlong(rules, goods, Declarations)
BY DEF MatchDeclarationRule, MatchAlong, FirstRule

\* The kinds of rules are tried one after another.
LEMMA MatchSteps ==
    ASSUME NEW A, NEW rules \in Seq(A), NEW goods, NEW B, NEW kinds \in Seq(B)
    PROVE  \E acc \in [0..Len(kinds) -> (0..Len(rules))] :
               /\ acc[0] = 0 /\ MatchAlong(rules, goods, kinds) = acc[Len(kinds)]
               /\ \A i \in 1..Len(kinds) : acc[i] = (IF acc[i - 1] # 0 THEN acc[i - 1] ELSE FirstRule(rules, goods, kinds[i]))
<1>. DEFINE n == Len(kinds)
            State == (0..Len(rules))
            start == 0
            IsFold(g) == g = [T \in SUBSET DOMAIN kinds |->
                                  IF T = {} THEN start ELSE (IF g[T \ {Max(T)}] # 0 THEN g[T \ {Max(T)}] ELSE FirstRule(rules, goods, kinds[Max(T)]))]
            fold == CHOOSE g : IsFold(g)
            S == State \cup {fold[T] : T \in SUBSET (1..n)}
            F == [p \in S \X (1..n) |-> (IF p[1] # 0 THEN p[1] ELSE FirstRule(rules, goods, kinds[p[2]]))]
<1>0. n \in Nat /\ DOMAIN kinds = 1..n
  OBVIOUS
<1>1. \A p \in State \X (1..n) : (IF p[1] # 0 THEN p[1] ELSE FirstRule(rules, goods, kinds[p[2]])) \in State
  <2>1. \A type : FirstRule(rules, goods, type) \in 0..Len(rules)
    BY FirstRuleIs
  <2>. QED BY <2>1
<1>11. start \in State
  <2>1. Len(rules) \in Nat
    OBVIOUS
  <2>. QED BY <2>1
<1>2. Closed(F, State, start, n)
  BY <1>0, <1>1, <1>11 DEF Closed
<1>4. \A T \in SUBSET (1..n) : T # {} => Max(T) \in 1..n /\ T \ {Max(T)} \in SUBSET (1..n)
  <2>1. ASSUME NEW T \in SUBSET (1..n), T # {} PROVE Max(T) \in T
    <3>1. T \in SUBSET (0..n)
      BY <1>0
    <3>. HIDE DEF n
    <3>. QED BY <1>0, <2>1, <3>1, MaxOf
  <2>. QED BY <2>1
<1>5. \E g : IsFold(g)
  <2>1. PICK g \in [SUBSET (1..n) -> State] : IsFoldOf(g, F, start, n)
    <3>. HIDE DEF n, F, State, start
    <3>. QED BY <1>0, <1>2, FoldExists
  <2>2. IsFold(g)
    <3>1. ASSUME NEW T \in SUBSET (1..n)
          PROVE g[T] = IF T = {} THEN start ELSE (IF g[T \ {Max(T)}] # 0 THEN g[T \ {Max(T)}] ELSE FirstRule(rules, goods, kinds[Max(T)]))
      <4>1. CASE T = {}
        <5>. HIDE DEF F
        <5>. QED BY <4>1, <2>1 DEF IsFoldOf
      <4>2. CASE T # {}
        <5>1. <<g[T \ {Max(T)}], Max(T)>> \in S \X (1..n)
          BY <2>1, <1>4, <4>2
        <5>2. F[<<g[T \ {Max(T)}], Max(T)>>] = (IF g[T \ {Max(T)}] # 0 THEN g[T \ {Max(T)}] ELSE FirstRule(rules, goods, kinds[Max(T)]))
          BY <5>1
        <5>. HIDE DEF F
        <5>. QED BY <4>2, <5>2, <2>1 DEF IsFoldOf
      <4>. QED BY <4>1, <4>2
    <3>. HIDE DEF F
    <3>. QED BY <3>1, <1>0, <2>1
  <2>. QED BY <2>2
<1>6. IsFold(fold)
  <2>. HIDE DEF IsFold
  <2>. QED BY <1>5
<1>7. IsFoldOf(fold, F, start, n)
  <2>1. ASSUME NEW T \in SUBSET (1..n)
        PROVE fold[T] = IF T = {} THEN start ELSE F[<<fold[T \ {Max(T)}], Max(T)>>]
    <3>1. fold[T] = IF T = {} THEN start ELSE (IF fold[T \ {Max(T)}] # 0 THEN fold[T \ {Max(T)}] ELSE FirstRule(rules, goods, kinds[Max(T)]))
      <4>. HIDE DEF fold
      <4>. QED BY <1>6, <1>0
    <3>2. CASE T = {}
      BY <3>1, <3>2
    <3>3. CASE T # {}
      <4>. HIDE DEF fold
      <4>1. <<fold[T \ {Max(T)}], Max(T)>> \in S \X (1..n)
        BY <1>4, <3>3
      <4>2. F[<<fold[T \ {Max(T)}], Max(T)>>] = (IF fold[T \ {Max(T)}] # 0 THEN fold[T \ {Max(T)}] ELSE FirstRule(rules, goods, kinds[Max(T)]))
        BY <4>1
      <4>. HIDE DEF F
      <4>. QED BY <3>1, <3>3, <4>2
    <3>. QED BY <3>2, <3>3
  <2>. HIDE DEF F, fold
  <2>. QED BY <2>1 DEF IsFoldOf
<1>. DEFINE acc == RunOf(fold, n)
<1>8. acc \in [0..n -> State] /\ IsRun(acc, F, start, n) /\ fold[1..n] = acc[n]
  <2>. HIDE DEF n, F, fold, S, State, start
  <2>. QED BY <1>0, <1>2, <1>7, FoldSteps
<1>. HIDE DEF acc
<1>9. \A i \in 1..n : acc[i] = (IF acc[i - 1] # 0 THEN acc[i - 1] ELSE FirstRule(rules, goods, kinds[i]))
  <2>1. ASSUME NEW i \in 1..n PROVE acc[i] = (IF acc[i - 1] # 0 THEN acc[i - 1] ELSE FirstRule(rules, goods, kinds[i]))
    <3>1. <<acc[i - 1], i>> \in S \X (1..n)
      <4>1. i - 1 \in 0..n /\ i \in 1..n
        BY <1>0
      <4>. QED BY <4>1, <1>8
    <3>2. F[<<acc[i - 1], i>>] = (IF acc[i - 1] # 0 THEN acc[i - 1] ELSE FirstRule(rules, goods, kinds[i]))
      BY <3>1
    <3>. HIDE DEF F
    <3>. QED BY <1>8, <3>2 DEF IsRun
  <2>. QED BY <2>1
<1>10. MatchAlong(rules, goods, kinds) = fold[DOMAIN kinds]
  BY DEF MatchAlong, FoldLeft, MapThenFoldSet
<1>. HIDE DEF fold, F
<1>. QED BY <1>0, <1>8, <1>9, <1>10 DEF IsRun

Kinds == {"country_channel", "country_category", "country_weight", "country_default", "global_default"}

Kind(type) == SelectInSeq(Declarations, LAMBDA d : d = type)

\* Every kind of declaration has its place.
LEMMA KindIs ==
    ASSUME NEW type \in Kinds
    PROVE  Kind(type) \in 1..5 /\ Declarations[Kind(type)] = type
<1>. DEFINE I == {i \in 1..Len(Declarations) : Declarations[i] = type}
<1>1. Kind(type) = IF I # {} THEN Min(I) ELSE 0
  BY DEF Kind, SelectInSeq
<1>2. I \in SUBSET Nat /\ I \in SUBSET (1..5)
  BY DEF Declarations
<1>3. I # {}
  <2>1. \E i \in 1..5 : Declarations[i] = type
    <3>1. type = Declarations[1] \/ type = Declarations[2] \/ type = Declarations[3]
          \/ type = Declarations[4] \/ type = Declarations[5]
      BY DEF Kinds, Declarations
    <3>. QED BY <3>1
  <2>2. Len(Declarations) = 5
    BY DEF Declarations
  <2>. QED BY <2>1, <2>2
<1>4. \A i \in I : Declarations[i] = type
  OBVIOUS
<1>. HIDE DEF I
<1>5. Min(I) \in I
  BY <1>2, <1>3, MinOf
<1>. QED BY <1>1, <1>2, <1>3, <1>4, <1>5

\* And no two have the same.
LEMMA KindsDiffer ==
    ASSUME NEW i \in 1..5, NEW type, Declarations[i] = type
    PROVE  Kind(type) = i
<1>1. type \in Kinds
  BY DEF Kinds, Declarations
<1>. DEFINE k == Kind(type)
<1>2. k \in 1..5 /\ Declarations[k] = Declarations[i]
  BY <1>1, KindIs
<1>. HIDE DEF k
<1>3. k = i
  BY <1>2 DEF Declarations
<1>. QED BY <1>3 DEF k

\* The first kind of which a rule applies decides.
LEMMA MatchFinds ==
    ASSUME NEW A, NEW rules \in Seq(A), NEW goods
    PROVE  LET found == MatchDeclarationRule(rules, goods)
               first(k) == FirstRule(rules, goods, Declarations[k])
           IN  \/ found = 0 /\ \A k \in 1..5 : first(k) = 0
               \/ \E k \in 1..5 : found = first(k) /\ first(k) # 0 /\ \A j \in 1..k - 1 : first(j) = 0
<1>. DEFINE found == MatchDeclarationRule(rules, goods)
            first(k) == FirstRule(rules, goods, Declarations[k])
<1>1. Declarations \in Seq(Kinds) /\ Len(Declarations) = 5
  BY DEF Declarations, Kinds
<1>2. PICK acc \in [0..5 -> 0..Len(rules)] :
          /\ acc[0] = 0 /\ found = acc[5]
          /\ \A i \in 1..5 : acc[i] = IF acc[i - 1] # 0 THEN acc[i - 1] ELSE first(i)
  <2>1. found = MatchAlong(rules, goods, Declarations)
    BY MatchIs
  <2>. HIDE DEF found
  <2>. DEFINE B == Kinds
  <2>2. Declarations \in Seq(B)
    BY <1>1
  <2>. HIDE DEF B
  <2>3. PICK acc \in [0..Len(Declarations) -> (0..Len(rules))] :
            /\ acc[0] = 0 /\ MatchAlong(rules, goods, Declarations) = acc[Len(Declarations)]
            /\ \A i \in 1..Len(Declarations) :
                   acc[i] = (IF acc[i - 1] # 0 THEN acc[i - 1] ELSE FirstRule(rules, goods, Declarations[i]))
    BY <2>2, MatchSteps
  <2>4. acc \in [0..5 -> 0..Len(rules)] /\ acc[0] = 0 /\ found = acc[5]
    BY <1>1, <2>1, <2>3
  <2>5. \A i \in 1..5 : acc[i] = IF acc[i - 1] # 0 THEN acc[i - 1] ELSE first(i)
    BY <1>1, <2>3
  <2>. HIDE DEF first
  <2>. QED BY <2>4, <2>5
<1>. HIDE DEF found, first
<1>. DEFINE Stands(k) == \/ acc[k] = 0 /\ \A j \in 1..k : first(j) = 0
                         \/ \E i \in 1..k : acc[k] = first(i) /\ first(i) # 0 /\ \A j \in 1..i - 1 : first(j) = 0
            Good == {k \in 0..5 : Stands(k)}
<1>3. Good = 0..5
  <2>1. 0 \in Good /\ Good \in SUBSET (0..5)
    BY <1>2
  <2>2. ASSUME NEW k \in 0..5 - 1, k \in Good PROVE k + 1 \in Good
    <3>1. k + 1 \in 1..5 /\ (k + 1) - 1 = k /\ k + 1 \in 0..5 /\ k \in Nat
      OBVIOUS
    <3>2. acc[k + 1] = IF acc[k] # 0 THEN acc[k] ELSE first(k + 1)
      BY <1>2, <3>1
    <3>3. Stands(k)
      BY <2>2
    <3>4. Stands(k + 1)
      <4>1. CASE acc[k] = 0 /\ \A j \in 1..k : first(j) = 0
        <5>1. acc[k + 1] = first(k + 1)
          BY <3>2, <4>1
        <5>2. CASE first(k + 1) = 0
          <6>1. \A j \in 1..k + 1 : first(j) = 0
            BY <3>1, <4>1, <5>2
          <6>. QED BY <5>1, <5>2, <6>1
        <5>3. CASE first(k + 1) # 0
          <6>1. \A j \in 1..(k + 1) - 1 : first(j) = 0
            BY <3>1, <4>1
          <6>2. k + 1 \in 1..k + 1
            BY <3>1
          <6>. QED BY <5>1, <5>3, <6>1, <6>2
        <5>. QED BY <5>2, <5>3
      <4>2. CASE \E i \in 1..k : acc[k] = first(i) /\ first(i) # 0 /\ \A j \in 1..i - 1 : first(j) = 0
        <5>1. PICK i \in 1..k : acc[k] = first(i) /\ first(i) # 0 /\ \A j \in 1..i - 1 : first(j) = 0
          BY <4>2
        <5>2. acc[k + 1] = first(i)
          BY <3>2, <5>1
        <5>3. i \in 1..k + 1
          BY <3>1
        <5>. QED BY <5>1, <5>2, <5>3
      <4>. QED BY <3>3, <4>1, <4>2
    <3>. HIDE DEF Stands
    <3>. QED BY <3>1, <3>4
  <2>. HIDE DEF Good
  <2>3. 5 \in Nat
    OBVIOUS
  <2>. QED BY <2>1, <2>2, <2>3, UpTo
<1>4. Stands(5)
  <2>1. 5 \in Good
    <3>. HIDE DEF Good
    <3>. QED BY <1>3
  <2>. QED BY <2>1
<1>5. \/ found = 0 /\ \A k \in 1..5 : first(k) = 0
      \/ \E k \in 1..5 : found = first(k) /\ first(k) # 0 /\ \A j \in 1..k - 1 : first(j) = 0
  BY <1>2, <1>4
<1>. QED BY <1>5 DEF found, first

\* The statements about the rules of declarations hold for any rules.
LEMMA DeclarationHolds ==
    ASSUME NEW A, NEW c, c.rules \in Seq(A), \A rule \in A : rule.type \in Kinds
    PROVE  DeclarationIsSound(c)
<1>. DEFINE rules == c.rules
            goods == c.goods
            n == Len(rules)
            found == MatchDeclarationRule(rules, goods)
            first(k) == FirstRule(rules, goods, Declarations[k])
            applying == {i \in 1..n : Applies(rules[i], goods)}
            kind(i) == Kind(rules[i].type)
<1>1. rules \in Seq(A) /\ n \in Nat /\ DOMAIN rules = 1..n /\ \A i \in 1..n : rules[i].type \in Kinds
  OBVIOUS
<1>. HIDE DEF rules, goods
<1>2. \/ found = 0 /\ \A k \in 1..5 : first(k) = 0
      \/ \E k \in 1..5 : found = first(k) /\ first(k) # 0 /\ \A j \in 1..k - 1 : first(j) = 0
  BY <1>1, MatchFinds
<1>3. ASSUME NEW k \in 1..5
      PROVE  /\ first(k) = 0 => \A i \in applying : kind(i) # k
             /\ first(k) # 0 => /\ first(k) \in applying /\ kind(first(k)) = k
                                /\ \A i \in applying : kind(i) = k => first(k) <= i
  <2>. DEFINE I == {i \in 1..n : rules[i].type = Declarations[k] /\ Applies(rules[i], goods)}
  <2>1. /\ first(k) \in 0..n /\ (first(k) = 0 <=> I = {})
        /\ first(k) # 0 => first(k) \in I /\ \A i \in I : first(k) <= i
    BY <1>1, FirstRuleIs
  <2>2. ASSUME NEW i \in applying PROVE i \in I <=> kind(i) = k
    <3>1. i \in 1..n /\ rules[i].type \in Kinds
      BY <1>1
    <3>2. rules[i].type = Declarations[k] => kind(i) = k
      BY KindsDiffer
    <3>3. kind(i) = k => rules[i].type = Declarations[k]
      BY <3>1, KindIs
    <3>. HIDE DEF kind
    <3>. QED BY <3>1, <3>2, <3>3
  <2>3. I \in SUBSET applying
    OBVIOUS
  <2>. HIDE DEF I, first, applying, kind
  <2>. QED BY <2>1, <2>2, <2>3
<1>4. \A i \in applying : kind(i) \in 1..5 /\ i \in 1..n
  BY <1>1, KindIs
<1>5. \A i \in applying : rules[i].type # "global_default" => rules[i].country = goods.country
  BY DEF Applies
<1>. HIDE DEF first, kind, applying, found
<1>6. found = 0 <=> applying = {}
  <2>1. ASSUME found = 0 PROVE applying = {}
    BY <1>2, <1>3, <1>4, <2>1
  <2>2. ASSUME found # 0 PROVE applying # {}
    BY <1>2, <1>3, <2>2
  <2>. QED BY <2>1, <2>2
<1>7. ASSUME found # 0
      PROVE  /\ found \in applying
             /\ rules[found].type # "global_default" => rules[found].country = goods.country
             /\ \A i \in applying : kind(found) < kind(i) \/ (kind(found) = kind(i) /\ found <= i)
  <2>1. PICK k \in 1..5 : found = first(k) /\ first(k) # 0 /\ \A j \in 1..k - 1 : first(j) = 0
    BY <1>2, <1>7
  <2>2. found \in applying /\ kind(found) = k /\ \A i \in applying : kind(i) = k => found <= i
    BY <1>3, <2>1
  <2>3. ASSUME NEW i \in applying PROVE k < kind(i) \/ (k = kind(i) /\ found <= i)
    <3>1. kind(i) \in 1..5
      BY <1>4
    <3>2. ~(kind(i) \in 1..k - 1)
      BY <1>3, <2>1
    <3>. DEFINE m == kind(i)
    <3>3. m = k \/ k < m
      <4>. HIDE DEF m
      <4>1. m \in 1..5 /\ ~(m \in 1..k - 1)
        BY <3>1, <3>2 DEF m
      <4>. QED BY <4>1
    <3>. QED BY <2>2, <3>3
  <2>. QED BY <1>5, <2>2, <2>3
<1>8. applying = {i \in DOMAIN rules : Applies(rules[i], goods)}
  BY <1>1 DEF applying
<1>. QED BY <1>6, <1>7, <1>8 DEF DeclarationIsSound, SelectInSeq, Kind, kind, rules, goods, found

-----------------------------------------------------------------------------
(* Bids *)

\* A number kept between two others.
LEMMA ClampIs ==
    ASSUME NEW low \in Int, NEW high \in Int, NEW x \in Int, low <= high
    PROVE  Clamp(low, high, x) = IF x <= low THEN low ELSE IF x >= high THEN high ELSE x
<1>1. Min({high, x}) = IF high <= x THEN high ELSE x
  BY MinOfTwo
<1>2. Max({low, Min({high, x})}) = IF low >= Min({high, x}) THEN low ELSE Min({high, x})
  BY <1>1, MaxOfTwo
<1>. QED BY <1>1, <1>2 DEF Clamp

\* A bid that is reduced keeps at least half of its value.
LEMMA ReducedIs ==
    ASSUME NEW k, k.bid \in Nat, k.target \in Nat, k.acos \in Nat, k.acos > k.target
    PROVE  Reduced(k) \in Nat /\ Reduced(k) <= k.bid /\ 2 * Reduced(k) >= k.bid
<1>. DEFINE half == Rounded(k.bid, 2)
            part == Rounded(k.bid * k.target, k.acos)
<1>1. half \in Int /\ 2 * half >= k.bid /\ half <= k.bid
  BY DEF Rounded
<1>2. part \in Int /\ part <= k.bid
  <2>1. k.bid * k.target \in Int /\ k.acos \in Nat \ {0} /\ k.bid \in Int
    OBVIOUS
  <2>2. k.bid * k.target <= k.bid * k.acos
    BY TimesMonotone
  <2>3. k.bid * k.target <= k.acos * k.bid
    BY <2>2
  <2>4. part \in Int
    BY ONLY <2>1, Rounds
  <2>5. part <= k.bid
    BY ONLY <2>1, <2>3, RoundedBounds
  <2>. QED BY <2>4, <2>5
<1>. HIDE DEF half, part
<1>3. Max({half, part}) = IF half >= part THEN half ELSE part
  BY <1>1, <1>2, MaxOfTwo
<1>4. Reduced(k) = Max({half, part})
  BY DEF Reduced, half, part
<1>. QED BY <1>1, <1>2, <1>3, <1>4

\* The statements about suggested bids hold for any bid, cost of sales, target
\* and conversion, and whatever a rule suggests.
LEMMA BidHolds ==
    ASSUME NEW c, c.bid \in 0..1000, c.acos \in Nat, c.target \in Nat, c.conversion \in Nat, c.ruled \in Nat
    PROVE  BidIsSound(c)
<1>. DEFINE red == Reduced(c)
            up12 == Rounded(c.bid * 12, 10)
            up13 == Rounded(c.bid * 13, 10)
            earned == Rounded(c.conversion * c.target, 100)
            suggested ==
                CASE c.strategy = "target_acos" ->
                         IF c.acos > c.target THEN red
                         ELSE IF 10 * c.acos < 8 * c.target THEN up12 ELSE earned
                  [] c.strategy \in {"dynamic_down", "dynamic_up_down"} ->
                         IF c.acos > c.target THEN red
                         ELSE IF c.strategy = "dynamic_up_down" /\ 10 * c.acos < 7 * c.target THEN up13
                         ELSE c.bid
                  [] OTHER -> c.ruled
<1>1. c.acos > c.target => red \in Int /\ red <= c.bid /\ 2 * red >= c.bid
  BY ReducedIs, SMTT(30)
<1>2. up12 \in Int /\ up13 \in Int /\ up13 >= c.bid
  <2>1. up12 \in Int
    BY SMTT(30) DEF Rounded
  <2>2. up13 \in Int /\ up13 >= c.bid
    BY SMTT(30) DEF Rounded
  <2>. QED BY <2>1, <2>2
<1>3. earned \in Int
  <2>. c.conversion * c.target \in Int /\ 100 \in Nat \ {0}
    OBVIOUS
  <2>. QED BY Rounds
<1>4. CalculateBid(c) = IF \/ c.strategy = "fixed"
                           \/ c.strategy = "target_acos" /\ (c.acos <= 0 \/ c.conversion <= 0)
                        THEN c.bid ELSE Clamp(10, 1000, suggested)
  BY DEF CalculateBid
<1>. HIDE DEF red, up12, up13, earned
<1>5. suggested \in Int
  BY <1>1, <1>2, <1>3
<1>6. Clamp(10, 1000, suggested) = IF suggested <= 10 THEN 10 ELSE IF suggested >= 1000 THEN 1000 ELSE suggested
  <2>. HIDE DEF suggested
  <2>. QED BY <1>5, ClampIs
<1>7. CalculateBid(c) # c.bid => CalculateBid(c) \in 10..1000
  <2>. HIDE DEF suggested
  <2>. QED BY <1>4, <1>5, <1>6
<1>8. Max({10, c.bid}) = (IF 10 >= c.bid THEN 10 ELSE c.bid)
      /\ Min({c.bid, 1000}) = (IF c.bid <= 1000 THEN c.bid ELSE 1000)
  <2>1. c.bid \in Int /\ 10 \in Int /\ 1000 \in Int
    OBVIOUS
  <2>. QED BY ONLY <2>1, MaxOfTwo, MinOfTwo
<1>9. ASSUME c.strategy \in {"dynamic_down", "dynamic_up_down"}
      PROVE  /\ CalculateBid(c) \in 10..1000
             /\ c.acos > c.target => CalculateBid(c) <= Max({10, c.bid}) /\ 2 * CalculateBid(c) >= Min({c.bid, 1000})
             /\ c.acos <= c.target => CalculateBid(c) >= c.bid
  <2>1. suggested = IF c.acos > c.target THEN red
                    ELSE IF c.strategy = "dynamic_up_down" /\ 10 * c.acos < 7 * c.target THEN up13 ELSE c.bid
    BY <1>9
  <2>2. CalculateBid(c) = Clamp(10, 1000, suggested)
    BY <1>9, <1>4
  <2>. DEFINE new == CalculateBid(c)
  <2>3. new = IF suggested <= 10 THEN 10 ELSE IF suggested >= 1000 THEN 1000 ELSE suggested
    BY <2>2, <1>6
  <2>. HIDE DEF suggested, new
  <2>4. new \in 10..1000
    BY <2>3, <1>5
  <2>5. c.acos > c.target => new <= Max({10, c.bid}) /\ 2 * new >= Min({c.bid, 1000})
    BY <1>1, <1>5, <1>8, <2>1, <2>3, SMTT(30)
  <2>6. c.acos <= c.target => new >= c.bid
    BY <1>2, <1>5, <2>1, <2>3, SMTT(30)
  <2>. QED BY <2>4, <2>5, <2>6 DEF new
<1>. QED BY <1>7, <1>9 DEF BidIsSound

-----------------------------------------------------------------------------
(* Discounts *)

\* The statements about discounts hold for any amount and promotion.
LEMMA DiscountHolds ==
    ASSUME NEW c, NEW a, NEW p, c.amount = a, c.promo = p,
           a \in Nat, p.value \in Nat, p.type = "percentage" => p.value <= 100, p.minimum \in Nat, p.maximum \in Nat
    PROVE  DiscountIsSound(c)
<1>. DEFINE v == IF p.type = "percentage" THEN p.value ELSE 0
            r(x) == Rounded(x * v, 100)
            d(x) == CASE p.type = "percentage" -> r(x) [] p.type = "fixed_amount" -> p.value [] OTHER -> 0
<1>0. v \in 0..100 /\ (p.type = "percentage" => v = p.value)
  OBVIOUS
<1>. HIDE DEF v
<1>1. a * v \in Nat /\ (a + 1) * v = a * v + v
  BY <1>0
<1>2. r(a) \in Int /\ r(a + 1) \in Int /\ r(a) <= r(a + 1) /\ 0 <= r(a)
  <2>0. a * v \in Int /\ (a + 1) * v \in Int /\ a * v <= (a + 1) * v
        /\ 100 \in Nat \ {0}
    BY <1>0, <1>1
  <2>1. r(a) \in Int /\ r(a + 1) \in Int
    BY ONLY <2>0, Rounds
  <2>2. r(a) <= r(a + 1)
    BY ONLY <2>0, RoundedMonotone
  <2>3. 0 <= r(a)
    <3>. 100 * 0 <= a * v
      BY <1>0, <1>1
    <3>. QED BY <1>0, <1>1, RoundedBounds
  <2>. QED BY <2>1, <2>2, <2>3
<1>3. r(a) <= a
  <2>1. a * v <= a * 100
    BY <1>0, TimesMonotone
  <2>. a * v <= 100 * a
    BY <2>1, <1>1
  <2>. QED BY <1>0, <1>1, RoundedBounds
<1>. HIDE DEF r
<1>4. d(a) \in Nat /\ d(a + 1) \in Nat /\ d(a) <= d(a + 1) /\ (p.type = "percentage" => d(a) <= a)
  BY <1>2, <1>3
<1>5. \A x \in {a, a + 1} :
          CalculateDiscount(p, x) =
              IF x < p.minimum THEN 0
              ELSE IF p.maximum > 0 THEN (IF d(x) <= p.maximum THEN d(x) ELSE p.maximum) ELSE d(x)
  <2>1. \A x \in {a, a + 1} : CalculateDiscount(p, x) =
              IF x < p.minimum THEN 0 ELSE IF p.maximum > 0 THEN Min({d(x), p.maximum}) ELSE d(x)
    BY <1>0 DEF CalculateDiscount, r
  <2>. HIDE DEF d
  <2>2. \A x \in {a, a + 1} : Min({d(x), p.maximum}) = IF d(x) <= p.maximum THEN d(x) ELSE p.maximum
    BY <1>4, MinOfTwo
  <2>. QED BY <2>1, <2>2
<1>. HIDE DEF d
<1>. QED BY <1>4, <1>5 DEF DiscountIsSound

-----------------------------------------------------------------------------
(* Shares of a budget *)

\* The statements about the shares of a budget hold for every call.
LEMMA BudgetHolds ==
    ASSUME NEW c, c.total \in Nat, c.campaigns \in Seq([weight : Nat \ {0}, least : Nat]), c.campaigns # <<>>
    PROVE  BudgetIsSound(c)
<1>. DEFINE s == c.campaigns
            n == Len(s)
            total == c.total
            w == [i \in 1..n |-> s[i].weight]
            weights == Total(w)
            raised == [i \in 1..n |-> Max({s[i].least, Rounded(total * w[i], weights)})]
            sum == Total(raised)
            scaled == [i \in 1..n |-> Rounded(raised[i] * total, sum)]
            given == AllocateBudget(total, s)
<1>1. n \in Nat \ {0} /\ DOMAIN s = 1..n /\ total \in Nat
  OBVIOUS
<1>2. \A i \in 1..n : s[i].weight \in Nat \ {0} /\ s[i].least \in Nat
  <2>. TAKE i \in 1..n
  <2>. DEFINE R == [weight : Nat \ {0}, least : Nat]
  <2>1. s \in Seq(R)
    OBVIOUS
  <2>. HIDE DEF R
  <2>2. s[i] \in R
    BY <2>1
  <2>. QED BY <2>2 DEF R
<1>3. given = IF sum > total THEN scaled ELSE raised
  BY <1>1 DEF AllocateBudget
<1>4. w \in [1..n -> Nat] /\ \A i \in 1..n : w[i] = s[i].weight /\ w[i] > 0
  BY <1>2, SMTT(30)
<1>. HIDE DEF w
<1>5. weights \in Nat \ {0}
  <2>1. weights \in Nat /\ w[1] <= weights /\ 1 \in 1..n
    <3>. HIDE DEF n
    <3>. QED BY <1>1, <1>4, TotalNat
  <2>. QED BY <1>4, <2>1
<1>. HIDE DEF weights
<1>6. ASSUME NEW i \in 1..n
      PROVE  /\ raised[i] \in Nat
             /\ raised[i] = IF s[i].least >= Rounded(total * w[i], weights) THEN s[i].least
                            ELSE Rounded(total * w[i], weights)
  <2>. DEFINE r == Rounded(total * w[i], weights)
  <2>1. total * w[i] \in Int /\ s[i].least \in Nat
    BY <1>1, <1>2, <1>4, SMTT(30)
  <2>2. r \in Int
    BY <1>5, <2>1, Rounds
  <2>. HIDE DEF r
  <2>3. Max({s[i].least, r}) = IF s[i].least >= r THEN s[i].least ELSE r
    <3>. DEFINE l == s[i].least
    <3>1. l \in Int
      BY <2>1
    <3>. HIDE DEF l
    <3>2. Max({l, r}) = IF l >= r THEN l ELSE r
      BY <3>1, <2>2, MaxOfTwo
    <3>. QED BY <3>2 DEF l
  <2>4. raised[i] = Max({s[i].least, r})
    BY DEF r
  <2>. HIDE DEF raised
  <2>. QED BY <2>1, <2>2, <2>3, <2>4 DEF r
<1>7. ASSUME NEW i \in 1..n, NEW j \in 1..n, s[i].weight <= s[j].weight, s[i].least <= s[j].least
      PROVE  raised[i] <= raised[j]
  <2>. DEFINE x == total * w[i]
              y == total * w[j]
  <2>1. x \in Int /\ y \in Int /\ x <= y
    <3>. DEFINE a == w[i]
                b == w[j]
    <3>1. a \in Nat /\ b \in Nat
      BY <1>4
    <3>0. a = s[i].weight /\ b = s[j].weight
      BY <1>4
    <3>. HIDE DEF a, b, total
    <3>2. a <= b /\ a \in Int /\ b \in Int /\ total \in Nat
      BY <1>1, <1>7, <3>0, <3>1
    <3>3. total * a <= total * b
      BY ONLY <3>2, TimesMonotone
    <3>4. total * a \in Int /\ total * b \in Int
      BY ONLY <3>2
    <3>. QED BY <3>3, <3>4 DEF a, b
  <2>. HIDE DEF x, y
  <2>2. Rounded(x, weights) <= Rounded(y, weights) /\ Rounded(x, weights) \in Int /\ Rounded(y, weights) \in Int
    BY ONLY <1>5, <2>1, RoundedMonotone, Rounds
  <2>3. /\ raised[i] = IF s[i].least >= Rounded(x, weights) THEN s[i].least ELSE Rounded(x, weights)
        /\ raised[j] = IF s[j].least >= Rounded(y, weights) THEN s[j].least ELSE Rounded(y, weights)
    BY <1>6 DEF x, y
  <2>4. s[i].least \in Int /\ s[j].least \in Int
    BY <1>2
  <2>. HIDE DEF raised
  <2>. QED BY ONLY <1>7, <2>2, <2>3, <2>4
<1>8. raised \in [1..n -> Nat] /\ raised \in [1..n -> Int]
  <2>1. raised = [i \in 1..n |-> raised[i]]
    OBVIOUS
  <2>. HIDE DEF raised, n
  <2>2. raised \in [1..n -> Nat]
    BY <1>6, <2>1
  <2>. QED BY <2>2
<1>. HIDE DEF raised
<1>9. sum \in Nat
  <2>. HIDE DEF n
  <2>. QED BY <1>1, <1>8, TotalNat
<1>10. CASE sum > total
  <2>1. given = scaled
    BY <1>3, <1>10
  <2>2. ASSUME NEW i \in 1..n PROVE scaled[i] = Rounded(raised[i] * total, sum) /\ scaled[i] \in Int
                                    /\ raised[i] * total = total * raised[i] /\ raised[i] * total \in Int
    <3>1. raised[i] * total \in Int /\ sum \in Nat \ {0} /\ raised[i] * total = total * raised[i]
      BY <1>1, <1>8, <1>9, <1>10
    <3>. HIDE DEF sum
    <3>. QED BY <3>1, Rounds
  <2>3. scaled \in [1..n -> Int] /\ DOMAIN scaled = 1..n /\ Len(scaled) = n
    <3>1. scaled = [i \in 1..n |-> scaled[i]] /\ DOMAIN scaled = 1..n /\ Len(scaled) = n
      BY <1>1
    <3>. HIDE DEF scaled
    <3>. QED BY <2>2, <3>1
  <2>. HIDE DEF scaled
  <2>4. 2 * Total(scaled) <= 2 * total + n
    <3>1. \A i \in 1..n : scaled[i] = Rounded(total * raised[i], sum)
      BY <2>2
    <3>. HIDE DEF n, total
    <3>2. n \in Nat /\ total \in Nat /\ sum > 0
      BY <1>1, <1>9, <1>10
    <3>. QED BY <1>8, <2>3, <3>1, <3>2, RoundedShares
  <2>5. ASSUME NEW i \in 1..n, NEW j \in 1..n, s[i].weight <= s[j].weight, s[i].least <= s[j].least
        PROVE  scaled[i] <= scaled[j]
    <3>1. raised[i] <= raised[j] /\ raised[i] \in Int /\ raised[j] \in Int
      BY <1>7, <1>8, <2>5
    <3>2. total * raised[i] <= total * raised[j]
      BY <1>1, <3>1, TimesMonotone
    <3>. DEFINE x == raised[i] * total
                y == raised[j] * total
    <3>3. x \in Int /\ y \in Int /\ x <= y /\ sum \in Nat \ {0}
      BY <1>9, <1>10, <2>2, <3>2
    <3>. HIDE DEF x, y, sum
    <3>4. Rounded(x, sum) <= Rounded(y, sum)
      BY ONLY <3>3, RoundedMonotone
    <3>5. scaled[i] = Rounded(x, sum) /\ scaled[j] = Rounded(y, sum)
      BY <2>2 DEF x, y
    <3>. QED BY <3>4, <3>5
  <2>. HIDE DEF given
  <2>6. 2 * Total(given) <= 2 * c.total + Len(given)
    BY <2>1, <2>3, <2>4
  <2>7. \A i, j \in DOMAIN given :
            c.campaigns[i].weight <= c.campaigns[j].weight
            /\ c.campaigns[i].least <= c.campaigns[j].least => given[i] <= given[j]
    BY <2>1, <2>3, <2>5
  <2>. QED BY ONLY <2>6, <2>7 DEF BudgetIsSound, given, total, s
<1>11. CASE ~(sum > total)
  <2>1. given = raised
    BY <1>3, <1>11
  <2>2. DOMAIN raised = 1..n /\ Len(raised) = n
    BY <1>1, <1>8
  <2>. HIDE DEF given
  <2>3. 2 * Total(given) <= 2 * c.total + Len(given)
    <3>. HIDE DEF n
    <3>. QED BY <1>1, <1>9, <1>11, <2>1, <2>2
  <2>4. \A i, j \in DOMAIN given :
            c.campaigns[i].weight <= c.campaigns[j].weight
            /\ c.campaigns[i].least <= c.campaigns[j].least => given[i] <= given[j]
    BY <2>1, <2>2, <1>7
  <2>. QED BY ONLY <2>3, <2>4 DEF BudgetIsSound, given, total, s
<1>. QED BY <1>10, <1>11

-----------------------------------------------------------------------------
(* Content of listings *)

\* A better title scores no less, the best one everything.
LEMMA TitleHolds ==
    ASSUME NEW w \in Titles, NEW b \in Titles
    PROVE  /\ Improves(w, b) => ScoreTitle(w) <= ScoreTitle(b)
           /\ ScoreTitle(w) \in 0..100
           /\ (\A t \in Titles : Improves(t, w)) => ScoreTitle(w) = 100
<1>1. /\ w.length \in {"none", "short", "fits", "long"} /\ b.length \in {"none", "short", "fits", "long"}
      /\ w.words \in {1, 3, 5} /\ b.words \in {1, 3, 5}
      /\ w.oneCase \in BOOLEAN /\ w.special \in BOOLEAN /\ w.dense \in BOOLEAN /\ w.promises \in BOOLEAN
      /\ b.oneCase \in BOOLEAN /\ b.special \in BOOLEAN /\ b.dense \in BOOLEAN /\ b.promises \in BOOLEAN
  BY DEF Titles
<1>2. \A t, u \in Titles : Improves(t, u) =>
          /\ u.length \in {t.length, "fits"} \/ t.length = "none"
          /\ u.words >= t.words
          /\ (u.oneCase => t.oneCase) /\ (u.special => t.special)
          /\ (u.dense => t.dense) /\ (u.promises => t.promises)
  <2>. TAKE t, u \in Titles
  <2>. HAVE Improves(t, u)
  <2>1. DOMAIN t = {"length", "words", "oneCase", "special", "dense", "promises"}
    BY DEF Titles
  <2>2. \A f \in {"length", "words", "oneCase", "special", "dense", "promises"} :
            CASE f = "length" -> u[f] \in {t[f], "fits"} \/ t[f] = "none"
              [] f \in {"words", "count"} -> u[f] >= t[f]
              [] OTHER -> u[f] => t[f]
    BY <2>1 DEF Improves
  <2>. QED BY <2>2
<1>3. Improves(w, b) => ScoreTitle(w) <= ScoreTitle(b)
  BY <1>1, <1>2 DEF ScoreTitle, WordPoints, Points
<1>4. ScoreTitle(w) \in 0..100
  BY <1>1 DEF ScoreTitle, WordPoints, Points
<1>5. ASSUME \A t \in Titles : Improves(t, w) PROVE ScoreTitle(w) = 100
  <2>. DEFINE best == [length |-> "fits", words |-> 5, oneCase |-> FALSE, special |-> FALSE,
                       dense |-> FALSE, promises |-> FALSE]
  <2>1. best \in Titles
    BY DEF Titles
  <2>2. /\ best.length = "fits" /\ best.words = 5 /\ ~best.oneCase /\ ~best.special
        /\ ~best.dense /\ ~best.promises
    OBVIOUS
  <2>. HIDE DEF best
  <2>3. w.length = "fits" /\ w.words >= 5 /\ ~w.oneCase /\ ~w.special /\ ~w.dense /\ ~w.promises
    BY <1>2, <1>5, <2>1, <2>2
  <2>. QED BY <1>1, <2>3 DEF ScoreTitle, WordPoints, Points
<1>. QED BY <1>3, <1>4, <1>5

\* Better keywords score no less, the best ones everything.
LEMMA KeywordHolds ==
    ASSUME NEW w \in Keywords, NEW b \in Keywords
    PROVE  /\ Improves(w, b) => ScoreKeywords(w) <= ScoreKeywords(b)
           /\ ScoreKeywords(w) \in 0..100
           /\ (\A t \in Keywords : Improves(t, w)) => ScoreKeywords(w) = 100
<1>1. /\ w.length \in {"none", "short", "fits"} /\ b.length \in {"none", "short", "fits"}
      /\ w.words \in {0, 3, 5} /\ b.words \in {0, 3, 5}
      /\ w.oneCase \in BOOLEAN /\ w.inTitle \in BOOLEAN /\ w.inBullets \in BOOLEAN
      /\ b.oneCase \in BOOLEAN /\ b.inTitle \in BOOLEAN /\ b.inBullets \in BOOLEAN
  BY DEF Keywords
<1>2. \A t, u \in Keywords : Improves(t, u) =>
          /\ u.length \in {t.length, "fits"} \/ t.length = "none"
          /\ u.words >= t.words
          /\ (u.oneCase => t.oneCase) /\ (u.inTitle => t.inTitle) /\ (u.inBullets => t.inBullets)
  <2>. TAKE t, u \in Keywords
  <2>. HAVE Improves(t, u)
  <2>1. DOMAIN t = {"length", "words", "oneCase", "inTitle", "inBullets"}
    BY DEF Keywords
  <2>2. \A f \in {"length", "words", "oneCase", "inTitle", "inBullets"} :
            CASE f = "length" -> u[f] \in {t[f], "fits"} \/ t[f] = "none"
              [] f \in {"words", "count"} -> u[f] >= t[f]
              [] OTHER -> u[f] => t[f]
    BY <2>1 DEF Improves
  <2>. QED BY <2>2
<1>3. Improves(w, b) => ScoreKeywords(w) <= ScoreKeywords(b)
  BY <1>1, <1>2 DEF ScoreKeywords, WordPoints, Points
<1>4. ScoreKeywords(w) \in 0..100
  BY <1>1 DEF ScoreKeywords, WordPoints, Points
<1>5. ASSUME \A t \in Keywords : Improves(t, w) PROVE ScoreKeywords(w) = 100
  <2>. DEFINE best == [length |-> "fits", words |-> 5, inTitle |-> FALSE, inBullets |-> FALSE,
                       oneCase |-> FALSE]
  <2>1. best \in Keywords
    BY DEF Keywords
  <2>2. best.length = "fits" /\ best.words = 5 /\ ~best.oneCase /\ ~best.inTitle /\ ~best.inBullets
    OBVIOUS
  <2>. HIDE DEF best
  <2>3. w.length = "fits" /\ w.words >= 5 /\ ~w.oneCase /\ ~w.inTitle /\ ~w.inBullets
    BY <1>2, <1>5, <2>1, <2>2
  <2>. QED BY <1>1, <2>3 DEF ScoreKeywords, WordPoints, Points
<1>. QED BY <1>3, <1>4, <1>5

\* Better bullets score no less, the best ones everything.
LEMMA BulletHolds ==
    ASSUME NEW w \in BulletLists, NEW b \in BulletLists
    PROVE  /\ Improves(w, b) => ScoreBullets(w) <= ScoreBullets(b)
           /\ ScoreBullets(w) \in 0..100
           /\ (\A t \in BulletLists : Improves(t, w)) => ScoreBullets(w) = 100
<1>1. /\ w.count \in {0, 4, 5} /\ b.count \in {0, 4, 5}
      /\ w.oneCase \in BOOLEAN /\ w.short \in BOOLEAN /\ w.long \in BOOLEAN /\ w.promises \in BOOLEAN
      /\ b.oneCase \in BOOLEAN /\ b.short \in BOOLEAN /\ b.long \in BOOLEAN /\ b.promises \in BOOLEAN
  BY DEF BulletLists
<1>2. \A t, u \in BulletLists : Improves(t, u) =>
          /\ u.count >= t.count
          /\ (u.oneCase => t.oneCase) /\ (u.short => t.short) /\ (u.long => t.long)
          /\ (u.promises => t.promises)
  <2>. TAKE t, u \in BulletLists
  <2>. HAVE Improves(t, u)
  <2>1. DOMAIN t = {"count", "oneCase", "short", "long", "promises"}
    BY DEF BulletLists
  <2>2. \A f \in {"count", "oneCase", "short", "long", "promises"} :
            CASE f = "length" -> u[f] \in {t[f], "fits"} \/ t[f] = "none"
              [] f \in {"words", "count"} -> u[f] >= t[f]
              [] OTHER -> u[f] => t[f]
    BY <2>1 DEF Improves
  <2>. QED BY <2>2
<1>3. Improves(w, b) => ScoreBullets(w) <= ScoreBullets(b)
  BY <1>1, <1>2 DEF ScoreBullets, Points
<1>4. ScoreBullets(w) \in 0..100
  BY <1>1 DEF ScoreBullets, Points
<1>5. ASSUME \A t \in BulletLists : Improves(t, w) PROVE ScoreBullets(w) = 100
  <2>. DEFINE best == [count |-> 5, short |-> FALSE, long |-> FALSE, oneCase |-> FALSE, promises |-> FALSE]
  <2>1. best \in BulletLists
    BY DEF BulletLists
  <2>2. best.count = 5 /\ ~best.oneCase /\ ~best.short /\ ~best.long /\ ~best.promises
    OBVIOUS
  <2>. HIDE DEF best
  <2>3. w.count >= 5 /\ ~w.oneCase /\ ~w.short /\ ~w.long /\ ~w.promises
    BY <1>2, <1>5, <2>1, <2>2
  <2>. QED BY <1>1, <2>3 DEF ScoreBullets, Points
<1>. QED BY <1>3, <1>4, <1>5

\* The statements about scores of content hold.
LEMMA ContentHolds == ASSUME NEW c \in Contents PROVE ContentIsSound(c)
<1>1. CASE c.part = "title" /\ c.text \in Titles
  <2>1. \A t \in Titles : Improves(c.text, t) => ScoreTitle(c.text) <= ScoreTitle(t)
    BY <1>1, TitleHolds
  <2>2. ScoreTitle(c.text) \in 0..100 /\ ((\A t \in Titles : Improves(t, c.text)) => ScoreTitle(c.text) = 100)
    BY <1>1, TitleHolds
  <2>. QED BY <1>1, <2>1, <2>2 DEF ContentIsSound, ContentScore
<1>2. CASE c.part = "keyword" /\ c.text \in Keywords
  <2>1. \A t \in Keywords : Improves(c.text, t) => ScoreKeywords(c.text) <= ScoreKeywords(t)
    BY <1>2, KeywordHolds
  <2>2. ScoreKeywords(c.text) \in 0..100
        /\ ((\A t \in Keywords : Improves(t, c.text)) => ScoreKeywords(c.text) = 100)
    BY <1>2, KeywordHolds
  <2>. QED BY <1>2, <2>1, <2>2 DEF ContentIsSound, ContentScore
<1>3. CASE c.part = "bullet" /\ c.text \in BulletLists
  <2>1. \A t \in BulletLists : Improves(c.text, t) => ScoreBullets(c.text) <= ScoreBullets(t)
    BY <1>3, BulletHolds
  <2>2. ScoreBullets(c.text) \in 0..100
        /\ ((\A t \in BulletLists : Improves(t, c.text)) => ScoreBullets(c.text) = 100)
    BY <1>3, BulletHolds
  <2>. QED BY <1>3, <2>1, <2>2 DEF ContentIsSound, ContentScore
<1>. QED BY <1>1, <1>2, <1>3 DEF Contents

-----------------------------------------------------------------------------
(* The overall score of a listing *)

\* All four lie between two bounds.
Bounded(a, b, d, e, least, most) ==
    /\ {a, b, d, e, least, most} \in SUBSET (0..100)
    /\ least <= a /\ least <= b /\ least <= d /\ least <= e
    /\ a <= most /\ b <= most /\ d <= most /\ e <= most

\* A weighted score lies between the least and the greatest of its parts.
LEMMA WeightedBetween ==
    ASSUME NEW a, NEW b, NEW d, NEW e, NEW least, NEW most, Bounded(a, b, d, e, least, most)
    PROVE  30 * a + 25 * b + 25 * d + 20 * e \in 100 * least..100 * most
<1>1. a \in 0..100 /\ b \in 0..100 /\ d \in 0..100 /\ e \in 0..100 /\ least \in 0..100 /\ most \in 0..100
  BY DEF Bounded
<1>. QED BY <1>1 DEF Bounded

\* The statements about the overall score of a listing hold for any scores.
LEMMA OverallHolds ==
    ASSUME NEW c, c.title \in 0..100, c.keyword \in 0..100, c.image \in 0..100, c.bullet \in 0..100
    PROVE  OverallIsSound(c)
<1>. DEFINE T == {c.title, c.keyword, c.image, c.bullet}
<1>1. Min(T) \in T /\ \A y \in T : Min(T) <= y
  <2>. T \in SUBSET Nat /\ T # {}
    OBVIOUS
  <2>. QED BY MinOf
<1>2. Max(T) \in T /\ \A y \in T : y <= Max(T)
  <2>. T \in SUBSET (0..100) /\ T # {} /\ 100 \in Nat
    OBVIOUS
  <2>. QED BY MaxOf
<1>3. Min(T) \in 0..100 /\ Max(T) \in 0..100
  BY <1>1, <1>2
<1>4. /\ Min(T) <= c.title /\ Min(T) <= c.keyword /\ Min(T) <= c.image /\ Min(T) <= c.bullet
      /\ c.title <= Max(T) /\ c.keyword <= Max(T) /\ c.image <= Max(T) /\ c.bullet <= Max(T)
  BY <1>1, <1>2
<1>5. Bounded(c.title, c.keyword, c.image, c.bullet, Min(T), Max(T))
  BY <1>3, <1>4 DEF Bounded
<1>. HIDE DEF T
<1>6. ComputeOverallScore(c) \in 100 * Min(T)..100 * Max(T)
  BY <1>3, <1>5, WeightedBetween DEF ComputeOverallScore
<1>. QED BY <1>6 DEF OverallIsSound, T

-----------------------------------------------------------------------------
(* Pictures *)

\* A list has finitely many elements.
LEMMA ToSetFinite ==
    ASSUME NEW A, NEW s \in Seq(A)
    PROVE  /\ ToSet(s) \in SUBSET A /\ IsFiniteSet(ToSet(s)) /\ Cardinality(ToSet(s)) \in 0..Len(s)
<1>1. Len(s) \in Nat /\ DOMAIN s = 1..Len(s)
  OBVIOUS
<1>2. IsFiniteSet(1..Len(s)) /\ Cardinality(1..Len(s)) = Len(s)
  BY <1>1, FS_Interval
<1>3. ToSet(s) = {s[i] : i \in 1..Len(s)}
  BY <1>1 DEF ToSet
<1>4. [i \in 1..Len(s) |-> s[i]] \in Surjection(1..Len(s), ToSet(s))
  BY <1>3 DEF Surjection
<1>5. IsFiniteSet(ToSet(s)) /\ Cardinality(ToSet(s)) <= Len(s)
  BY <1>2, <1>4, FS_Surjection
<1>6. Cardinality(ToSet(s)) \in Nat
  BY <1>5, FS_CardinalityType
<1>. QED BY <1>1, <1>3, <1>5, <1>6

\* Whatever the pictures are.
LEMMA ImagesHolds ==
    ASSUME NEW A, NEW c, c.images \in Seq(A), c.main \in A, Pictures \in SUBSET A
    PROVE  ImagesAreSound(c)
<1>. DEFINE all(main, images) == IF main = "none" THEN images ELSE <<main>> \o images
            score(n, main, set) ==
                IF n = 0 THEN 0
                ELSE Points(20, n >= 3) + Points(15, n >= 5) + Points(25, main # "none")
                     + Points(15, Cardinality(set) = n) + Points(15, n >= 5 /\ "scene" \in set)
                     + Points(10, n >= 2 /\ "chart" \in set)
            n == Len(all(c.main, c.images))
            set == ToSet(all(c.main, c.images))
            images == c.images
<1>1. \A main, list : ScoreImages(main, list) = score(Len(all(main, list)), main, ToSet(all(main, list)))
  BY DEF ScoreImages
<1>2. images \in Seq(A) /\ all(c.main, images) \in Seq(A) /\ n \in Nat /\ Len(images) \in Nat
      /\ n = (IF c.main = "none" THEN Len(images) ELSE Len(images) + 1)
  OBVIOUS
<1>3. IsFiniteSet(set) /\ Cardinality(set) \in 0..n
  BY <1>2, ToSetFinite
<1>4. score(n, c.main, set) <= 100
  BY <1>2, <1>3 DEF Points
<1>5. ASSUME NEW p \in Pictures, p \notin ToSet(images) \cup {c.main}
      PROVE  ScoreImages(c.main, images) <= ScoreImages(c.main, Append(images, p))
  <2>1. all(c.main, Append(images, p)) = Append(all(c.main, images), p)
    <3>1. p \in A
      BY <1>5
    <3>. QED BY <1>2, <3>1
  <2>2. p \notin set
    <3>1. c.main # "none" => set = {c.main} \cup ToSet(images)
      <4>1. SUFFICES ASSUME c.main # "none" PROVE ToSet(<<c.main>> \o images) = {c.main} \cup ToSet(images)
        OBVIOUS
      <4>2. DOMAIN (<<c.main>> \o images) = 1..Len(images) + 1 /\ DOMAIN images = 1..Len(images)
        BY <1>2
      <4>3. (<<c.main>> \o images)[1] = c.main /\ \A i \in 1..Len(images) : (<<c.main>> \o images)[i + 1] = images[i]
        BY <1>2
      <4>4. \A i \in 1..Len(images) + 1 : i = 1 \/ (i - 1 \in 1..Len(images) /\ (i - 1) + 1 = i)
        BY <1>2
      <4>5. \A i \in 1..Len(images) : i + 1 \in 1..Len(images) + 1
        BY <1>2
      <4>6. 1 \in 1..Len(images) + 1
        BY <1>2
      <4>. DEFINE joined == <<c.main>> \o images
      <4>7. ASSUME NEW x \in ToSet(joined) PROVE x \in {c.main} \cup ToSet(images)
        <5>1. PICK i \in 1..Len(images) + 1 : x = joined[i]
          BY <4>2, <4>7 DEF ToSet
        <5>2. i = 1 \/ x = images[i - 1]
          <6>. HIDE DEF images
          <6>. QED BY <5>1, <4>3, <4>4
        <5>. QED BY <5>1, <5>2, <4>2, <4>3, <4>4 DEF ToSet
      <4>8. c.main \in ToSet(joined)
        BY <4>2, <4>3, <4>6 DEF ToSet
      <4>9. ASSUME NEW x \in ToSet(images) PROVE x \in ToSet(joined)
        BY <4>2, <4>3, <4>5 DEF ToSet
      <4>. QED BY <4>7, <4>8, <4>9
    <3>. QED BY <1>5, <3>1
  <2>3. ToSet(all(c.main, Append(images, p))) = set \cup {p} /\ Len(all(c.main, Append(images, p))) = n + 1
    <3>1. p \in A
      BY <1>5
    <3>. HIDE DEF all
    <3>. QED BY <1>2, <2>1, <3>1, ToSetAppend
  <2>4. Cardinality(set \cup {p}) = Cardinality(set) + 1
    BY <1>3, <2>2, FS_AddElement
  <2>5. ScoreImages(c.main, Append(images, p)) = score(n + 1, c.main, set \cup {p})
    BY <1>1, <2>3, ZenonT(30)
  <2>6. ScoreImages(c.main, images) = score(n, c.main, set)
    BY <1>1
  <2>. HIDE DEF n, set, images
  <2>7. score(n, c.main, set) <= score(n + 1, c.main, set \cup {p})
    BY <1>2, <1>3, <2>4 DEF Points
  <2>. QED BY <2>5, <2>6, <2>7
<1>6. ScoreImages("none", images) <= ScoreImages(c.main, images)
  <2>1. CASE c.main = "none"
    <3>1. ScoreImages("none", images) \in Int
      <4>1. ScoreImages(c.main, images) = score(n, c.main, set)
        BY <1>1
      <4>. HIDE DEF n, set
      <4>. QED BY <4>1, <2>1, <1>2, <1>3 DEF Points
    <3>. QED BY <2>1, <3>1
  <2>2. CASE c.main # "none"
    <3>1. ScoreImages("none", images) = score(Len(images), "none", ToSet(images))
      BY <1>1
    <3>2. ScoreImages(c.main, images) = score(Len(images) + 1, c.main, set)
      BY <1>1, <1>2, <2>2
    <3>3. ToSet(images) \in SUBSET set
      <4>1. \A i \in DOMAIN images : i + 1 \in DOMAIN (<<c.main>> \o images)
                                     /\ (<<c.main>> \o images)[i + 1] = images[i]
        BY <1>2
      <4>. QED BY <2>2, <4>1 DEF ToSet
    <3>4. score(Len(images), "none", ToSet(images)) <= score(Len(images) + 1, c.main, set)
      <4>. HIDE DEF set, images
      <4>. QED BY <1>2, <2>2, <3>3 DEF Points
    <3>. QED BY <3>1, <3>2, <3>4
  <2>. QED BY <2>1, <2>2
<1>7. ScoreImages(c.main, images) <= 100
  BY <1>1, <1>4
<1>. QED BY <1>5, <1>6, <1>7 DEF ImagesAreSound

-----------------------------------------------------------------------------
(* The health of listings *)

\* Which of four steps a number reached.
LEMMA Reached4 ==
    ASSUME NEW n \in Int, NEW a \in Int, NEW b \in Int, NEW d \in Int, NEW e \in Int,
           a <= b, b <= d, d <= e
    PROVE  Reached(n, <<a, b, d, e>>) =
               IF n >= e THEN 5 ELSE IF n >= d THEN 4 ELSE IF n >= b THEN 3 ELSE IF n >= a THEN 2 ELSE 1
<1>. DEFINE T == {i \in DOMAIN <<a, b, d, e>> : n >= <<a, b, d, e>>[i]}
<1>1. T = {i \in 1..4 : n >= IF i = 1 THEN a ELSE IF i = 2 THEN b ELSE IF i = 3 THEN d ELSE e}
  OBVIOUS
<1>2. T = IF n >= e THEN 1..4 ELSE IF n >= d THEN 1..3 ELSE IF n >= b THEN 1..2
          ELSE IF n >= a THEN 1..1 ELSE 1..0
  BY <1>1
<1>. HIDE DEF T
<1>3. Cardinality(T) = IF n >= e THEN 4 ELSE IF n >= d THEN 3 ELSE IF n >= b THEN 2
                       ELSE IF n >= a THEN 1 ELSE 0
  BY <1>2, Counts
<1>. QED BY <1>3 DEF Reached, T

\* Where a value stands in a list.
PositionOf(list, value) ==
    LET T == {i \in 1..Len(list) : list[i] = value} IN IF T # {} THEN Min(T) ELSE 0

\* The place of a level of health is its number.
LEMMA HealthRank ==
    ASSUME NEW level, NEW k \in 1..5, level = HealthLevels[k]
    PROVE  PositionOf(HealthLevels, level) = k
<1>. DEFINE T == {i \in 1..Len(HealthLevels) : HealthLevels[i] = level}
<1>1. T = {k}
  BY DEF HealthLevels
<1>2. Min({k}) = k
  BY DEF Min
<1>. QED BY <1>1, <1>2 DEF PositionOf

HealthCalls ==
    [of : {"health"}, title : {"blank", "short", "fits", "long"}, english : BOOLEAN,
     bullets : BOOLEAN, main : BOOLEAN, images : Nat, price : Int, msrp : Int,
     sale : Int, quantity : Int, onPlatform : {"active", "inactive", "suppressed"},
     status : {"draft", "published"}]

\* The rank of the level of a listing.
HealthReached(s) == IF s >= 9000 THEN 5 ELSE IF s >= 7500 THEN 4 ELSE IF s >= 6000 THEN 3
                    ELSE IF s >= 4000 THEN 2 ELSE 1

\* The level of health is the step its score reaches.
LEMMA HealthLevelIs ==
    ASSUME NEW h \in HealthCalls
    PROVE  /\ HealthScore(h) \in Int
           /\ HealthReached(HealthScore(h)) \in 1..5
           /\ HealthLevel(h) = HealthLevels[HealthReached(HealthScore(h))]
<1>1. HealthScore(h) \in Int
  BY DEF HealthCalls, HealthScore, HealthParts, Points
<1>2. Reached(HealthScore(h), <<4000, 6000, 7500, 9000>>) = HealthReached(HealthScore(h))
  BY <1>1, Reached4 DEF HealthReached
<1>. QED BY <1>1, <1>2 DEF HealthLevel, HealthReached

\* The score as the sum of its parts, within their least values.
HealthSum(t, i, p, v, u, s) ==
    /\ t \in 25..100 /\ i \in 30..100 /\ p \in 40..100 /\ v \in 40..100 /\ u \in 20..100
    /\ s = 25 * t + 20 * i + 20 * p + 20 * v + 15 * u

\* A score below forty has no full part, one above ninety no lapse.
LEMMA HealthSums ==
    ASSUME NEW t \in Int, NEW i \in Int, NEW p \in Int, NEW v \in Int, NEW u \in Int,
           NEW s, HealthSum(t, i, p, v, u, s)
    PROVE  /\ s \in Int
           /\ s < 4000 => t < 100 /\ i < 100 /\ p < 100 /\ v < 100 /\ u < 100
           /\ v = 40 => s < 9000
BY DEF HealthSum

\* A score of health grows with the part of violations.
LEMMA HealthGrows ==
    ASSUME NEW t, NEW i, NEW p, NEW v, NEW u, NEW s, NEW w, NEW r,
           HealthSum(t, i, p, v, u, s), HealthSum(t, i, p, w, u, r), w >= v
    PROVE  r >= s
<1>. t \in Int /\ i \in Int /\ p \in Int /\ v \in Int /\ w \in Int /\ u \in Int
  BY DEF HealthSum
<1>. QED BY DEF HealthSum

\* The statements about the health of an account hold for every call.
LEMMA HealthHolds ==
    ASSUME NEW h \in HealthCalls
    PROVE  HealthIsSound(h)
<1>. DEFINE p == HealthParts(h)
            s == HealthScore(h)
<1>1. s = 25 * p.title + 20 * p.images + 20 * p.price + 20 * p.inventory + 15 * p.status
  BY DEF HealthScore
<1>2. /\ p.title \in 25..100 /\ p.images \in 30..100 /\ p.price \in 40..100
      /\ p.inventory \in 40..100 /\ p.status \in 20..100
      /\ h.quantity <= 0 => p.inventory = 40
  BY DEF HealthParts, Points, HealthCalls
<1>3. DOMAIN p = {"title", "images", "price", "inventory", "status"}
  BY DEF HealthParts
<1>. HIDE DEF p, s
<1>11. HealthSum(p.title, p.images, p.price, p.inventory, p.status, s)
       /\ p.title \in Int /\ p.images \in Int /\ p.price \in Int /\ p.inventory \in Int /\ p.status \in Int
  BY <1>1, <1>2 DEF HealthSum
<1>4. s < 4000 => p.title < 100 /\ p.images < 100 /\ p.price < 100 /\ p.inventory < 100 /\ p.status < 100
  BY <1>2, <1>11, HealthSums
<1>5. h.quantity <= 0 => s < 9000
  BY <1>2, <1>11, HealthSums
<1>6. HealthLevel(h) = HealthLevels[HealthReached(s)] /\ s \in Int
  BY HealthLevelIs DEF s
<1>7. HealthLevel(h) = "critical" => s < 4000
  BY <1>6 DEF HealthLevels, HealthReached
<1>8. h.quantity <= 0 => HealthLevel(h) # "excellent"
  BY <1>5, <1>6 DEF HealthLevels, HealthReached
<1>9. HealthLevel(h) = "critical" => \A part \in DOMAIN HealthParts(h) : HealthParts(h)[part] < 100
  BY <1>3, <1>4, <1>7 DEF p
<1>10. ASSUME NEW q \in Nat, q >= h.quantity
       PROVE  PositionOf(HealthLevels, HealthLevel([h EXCEPT !.quantity = q]))
                  >= PositionOf(HealthLevels, HealthLevel(h))
  <2>. DEFINE g == [h EXCEPT !.quantity = q]
  <2>1. g \in HealthCalls
    BY DEF HealthCalls
  <2>2. HealthScore(g) >= s
    <3>1. /\ g.title = h.title /\ g.english = h.english /\ g.bullets = h.bullets /\ g.main = h.main
          /\ g.images = h.images /\ g.price = h.price /\ g.msrp = h.msrp /\ g.sale = h.sale
          /\ g.onPlatform = h.onPlatform /\ g.status = h.status /\ g.quantity = q /\ h.quantity \in Int
      BY DEF HealthCalls
    <3>. HIDE DEF g
    <3>2. /\ HealthParts(g).title = p.title /\ HealthParts(g).images = p.images
          /\ HealthParts(g).price = p.price /\ HealthParts(g).status = p.status
      BY <3>1 DEF HealthParts, p
    <3>3. HealthParts(g).inventory \in p.inventory..100
      BY <3>1, <1>10 DEF HealthParts, p
    <3>4. HealthScore(g) = 25 * HealthParts(g).title + 20 * HealthParts(g).images + 20 * HealthParts(g).price
                           + 20 * HealthParts(g).inventory + 15 * HealthParts(g).status
      BY DEF HealthScore
    <3>5. HealthParts(g).inventory >= p.inventory
      BY <1>2, <3>3
    <3>6. HealthSum(p.title, p.images, p.price, HealthParts(g).inventory, p.status, HealthScore(g))
      BY <1>2, <3>2, <3>3, <3>4 DEF HealthSum
    <3>. QED BY <1>11, <3>5, <3>6, HealthGrows
  <2>. HIDE DEF g
  <2>3. /\ HealthLevel(g) = HealthLevels[HealthReached(HealthScore(g))]
        /\ HealthReached(HealthScore(g)) \in 1..5 /\ HealthScore(g) \in Int
        /\ HealthReached(s) \in 1..5
    BY <2>1, HealthLevelIs DEF s
  <2>4. HealthReached(HealthScore(g)) >= HealthReached(s)
    BY <2>2, <2>3, <1>6 DEF HealthReached
  <2>5. PositionOf(HealthLevels, HealthLevel(g)) = HealthReached(HealthScore(g))
    BY <2>3, HealthRank
  <2>6. PositionOf(HealthLevels, HealthLevel(h)) = HealthReached(s)
    BY <2>3, <1>6, HealthRank
  <2>. QED BY <2>4, <2>5, <2>6 DEF g
<1>. QED BY <1>8, <1>9, <1>10, ZenonT(30) DEF HealthIsSound, SelectInSeq, PositionOf

-----------------------------------------------------------------------------
(* Customers *)

\* How recent a purchase counts, without its steps.
LEMMA RecencyIs ==
    ASSUME NEW n \in Int
    PROVE  Recency(n) = IF n > 180 THEN 1 ELSE IF n > 90 THEN 2 ELSE IF n > 60 THEN 3 ELSE IF n > 30 THEN 4 ELSE 5
<1>. DEFINE T == {i \in 1..4 : n > <<30, 60, 90, 180>>[i]}
<1>1. T = {i \in 1..4 : n > IF i = 1 THEN 30 ELSE IF i = 2 THEN 60 ELSE IF i = 3 THEN 90 ELSE 180}
  OBVIOUS
<1>2. T = IF n > 180 THEN 1..4 ELSE IF n > 90 THEN 1..3 ELSE IF n > 60 THEN 1..2
          ELSE IF n > 30 THEN 1..1 ELSE 1..0
  BY <1>1
<1>. HIDE DEF T
<1>3. Cardinality(T) = IF n > 180 THEN 4 ELSE IF n > 90 THEN 3 ELSE IF n > 60 THEN 2 ELSE IF n > 30 THEN 1 ELSE 0
  BY <1>2, Counts
<1>. QED BY <1>3 DEF Recency, T

CustomerCalls == [of : {"customer"}, orders : Nat, amount : Nat, silence : Nat, gap : Nat, tickets : Nat]

\* The statements about the segments of customers hold for every call.
LEMMA CustomerHolds ==
    ASSUME NEW c \in CustomerCalls
    PROVE  CustomerIsSound(c)
<1>. DEFINE list == <<"churned", "at_risk", "active", "loyal">>
            rank(o, s, g) == IF s <= 90 /\ g <= 30 THEN 4 ELSE IF s <= 90 THEN 3 ELSE IF s <= 180 THEN 2 ELSE 1
            warmth(d) == SelectInSeq(list, LAMBDA s : s = EvaluateLifecycle(d))
            churn(o, s, t) ==
                (IF o = 0 THEN 0 ELSE Points(10, s > 60) + Points(15, s > 90) + Points(15, s > 180))
                + Points(5, t >= 1) + Points(15, t >= 3) + Points(15, o = 1)
<1>1. c.orders \in Nat /\ c.amount \in Nat /\ c.silence \in Nat /\ c.gap \in Nat /\ c.tickets \in Nat
  BY DEF CustomerCalls
<1>2. LifecycleRfm(c).r = RfmScores(c).r
  BY DEF LifecycleRfm, RfmScores
<1>3. c.orders >= 2 =>
          \A s \in {"at_risk", "churned"} : EvaluateLifecycle(c) = s <=> IdentifyStage(c) = s
  BY <1>1 DEF EvaluateLifecycle, IdentifyStage
<1>4. ASSUME NEW d \in CustomerCalls, d.orders >= 2
      PROVE  warmth(d) = rank(d.orders, d.silence, d.gap)
  <2>. DEFINE k == rank(d.orders, d.silence, d.gap)
              T == {i \in 1..Len(list) : list[i] = EvaluateLifecycle(d)}
  <2>1. d.orders \in Nat /\ d.silence \in Nat /\ d.gap \in Nat
    BY DEF CustomerCalls
  <2>2. EvaluateLifecycle(d) = list[k] /\ k \in 1..4
    BY <2>1, <1>4 DEF EvaluateLifecycle
  <2>3. T = {k}
    <3>. HIDE DEF k
    <3>. QED BY <2>2
  <2>4. warmth(d) = IF T # {} THEN Min(T) ELSE 0
    BY DEF SelectInSeq
  <2>5. Min({k}) = k
    BY <2>2 DEF Min
  <2>. QED BY <2>3, <2>4, <2>5
<1>5. ASSUME NEW s \in Nat, s >= c.silence
      PROVE  /\ c.orders >= 2 => warmth([c EXCEPT !.silence = s]) <= warmth(c)
             /\ ChurnScore([c EXCEPT !.silence = s]) >= ChurnScore(c)
  <2>. DEFINE d == [c EXCEPT !.silence = s]
  <2>1. d \in CustomerCalls /\ d.silence = s /\ d.orders = c.orders /\ d.gap = c.gap /\ d.tickets = c.tickets
    BY DEF CustomerCalls
  <2>. HIDE DEF d
  <2>2. ChurnScore(d) = churn(c.orders, s, c.tickets) /\ ChurnScore(c) = churn(c.orders, c.silence, c.tickets)
    BY <2>1 DEF ChurnScore
  <2>3. churn(c.orders, s, c.tickets) >= churn(c.orders, c.silence, c.tickets)
    BY <1>1, <1>5 DEF Points
  <2>4. c.orders >= 2 => warmth(d) <= warmth(c)
    <3>. HIDE DEF warmth
    <3>1. SUFFICES ASSUME c.orders >= 2 PROVE warmth(d) <= warmth(c)
      OBVIOUS
    <3>2. warmth(d) = rank(c.orders, s, c.gap) /\ warmth(c) = rank(c.orders, c.silence, c.gap)
      BY <1>4, <2>1, <3>1
    <3>. QED BY <3>2, <1>1, <1>5
  <2>. HIDE DEF warmth, churn
  <2>. QED BY <2>2, <2>3, <2>4 DEF d
<1>6. ClassifySegment(RfmScores(c)) \in {"vip", "high_value", "new_potential"} => c.silence <= 90
  <2>. DEFINE s == RfmScores(c)
  <2>1. s.r = Recency(c.silence)
    BY DEF RfmScores
  <2>2. s.r \in Int /\ (s.r >= 3 => c.silence <= 90)
    BY <1>1, <2>1, RecencyIs
  <2>. HIDE DEF s
  <2>3. s.r \in Int => (ClassifySegment(s) \in {"vip", "high_value", "new_potential"} => s.r >= 3)
    BY <2>2 DEF ClassifySegment
  <2>. QED BY <2>2, <2>3 DEF s
<1>7. ChurnRisk(c) = "critical" => c.orders = 1 /\ c.silence > 180 /\ c.tickets >= 3
  <2>. DEFINE n == ChurnScore(c)
  <2>1. n = churn(c.orders, c.silence, c.tickets)
    BY DEF ChurnScore
  <2>2. n \in Int /\ (n >= 70 => c.orders = 1 /\ c.silence > 180 /\ c.tickets >= 3)
    BY <1>1, <2>1 DEF Points
  <2>3. ChurnRisk(c) = <<"low", "medium", "high", "critical">>[Reached(n, <<30, 50, 70>>)]
    BY DEF ChurnRisk
  <2>. HIDE DEF n
  <2>4. Reached(n, <<30, 50, 70>>) = IF n >= 70 THEN 4 ELSE IF n >= 50 THEN 3 ELSE IF n >= 30 THEN 2 ELSE 1
    BY <2>2, Reached3
  <2>5. Reached(n, <<30, 50, 70>>) \in 1..4
    BY <2>4
  <2>. QED BY <2>2, <2>3, <2>4, <2>5
<1>8. Silences \in SUBSET Nat
  BY DEF Silences
<1>. HIDE DEF rank, churn
<1>. QED BY <1>2, <1>3, <1>5, <1>6, <1>7, <1>8 DEF CustomerIsSound

-----------------------------------------------------------------------------
(* The risk of an order *)

RemarkNames == {"high_amount", "high_quantity", "suspicious_email", "risky_country", "high_frequency_buyer",
                "previous_fraud_history", "different_billing_shipping", "ip_country_mismatch"}

\* What remarks weigh together.
Weight(T) ==
    (IF "high_amount" \in T THEN 30 ELSE 0) + (IF "high_quantity" \in T THEN 20 ELSE 0)
    + (IF "suspicious_email" \in T THEN 15 ELSE 0) + (IF "risky_country" \in T THEN 25 ELSE 0)
    + (IF "high_frequency_buyer" \in T THEN 20 ELSE 0) + (IF "previous_fraud_history" \in T THEN 35 ELSE 0)
    + (IF "different_billing_shipping" \in T THEN 5 ELSE 0) + (IF "ip_country_mismatch" \in T THEN 15 ELSE 0)

\* The remarks of a risk and their weights.
LEMMA RemarksAre ==
    /\ DOMAIN Remarks = RemarkNames
    /\ Remarks["high_amount"] = 30 /\ Remarks["high_quantity"] = 20 /\ Remarks["suspicious_email"] = 15
    /\ Remarks["risky_country"] = 25 /\ Remarks["high_frequency_buyer"] = 20
    /\ Remarks["previous_fraud_history"] = 35 /\ Remarks["different_billing_shipping"] = 5
    /\ Remarks["ip_country_mismatch"] = 15
BY DEF Remarks, RemarkNames

\* One remark adds its own weight.
LEMMA WeightOfOne ==
    ASSUME NEW T, NEW x \in RemarkNames, x \in T
    PROVE  Weight(T) = Remarks[x] + Weight(T \ {x}) /\ Weight(T \ {x}) \in Nat
<1>. DEFINE L == T \ {x}
<1>1. \A y : y # x => (y \in L <=> y \in T)
  OBVIOUS
<1>2. x \notin L /\ x \in T
  OBVIOUS
<1>. HIDE DEF L
<1>3. CASE x = "high_amount"
  BY <1>1, <1>2, <1>3, RemarksAre, SMT DEF Weight, L
<1>4. CASE x = "high_quantity"
  BY <1>1, <1>2, <1>4, RemarksAre, SMT DEF Weight, L
<1>5. CASE x = "suspicious_email"
  BY <1>1, <1>2, <1>5, RemarksAre, SMT DEF Weight, L
<1>6. CASE x = "risky_country"
  BY <1>1, <1>2, <1>6, RemarksAre, SMT DEF Weight, L
<1>7. CASE x = "high_frequency_buyer"
  BY <1>1, <1>2, <1>7, RemarksAre, SMT DEF Weight, L
<1>8. CASE x = "previous_fraud_history"
  BY <1>1, <1>2, <1>8, RemarksAre, SMT DEF Weight, L
<1>9. CASE x = "different_billing_shipping"
  BY <1>1, <1>2, <1>9, RemarksAre, SMT DEF Weight, L
<1>10. CASE x = "ip_country_mismatch"
  BY <1>1, <1>2, <1>10, RemarksAre, SMT DEF Weight, L
<1>. QED
  <2>1. x = "high_amount" \/ x = "high_quantity" \/ x = "suspicious_email" \/ x = "risky_country"
        \/ x = "high_frequency_buyer" \/ x = "previous_fraud_history"
        \/ x = "different_billing_shipping" \/ x = "ip_country_mismatch"
    BY DEF RemarkNames
  <2>. QED BY <2>1, <1>3, <1>4, <1>5, <1>6, <1>7, <1>8, <1>9, <1>10, Zenon

\* No remark weighs nothing.
LEMMA WeightOfNone == Weight({}) = 0
BY SMT DEF Weight

\* There are finitely many remarks.
LEMMA NamesAreFinite == IsFiniteSet(RemarkNames)
<1>0. IsFiniteSet({})
  BY FS_EmptySet
<1>1. IsFiniteSet({"high_amount"})
  <2>1. {"high_amount"} = {} \cup {"high_amount"}
    OBVIOUS
  <2>. QED BY ONLY <1>0, <2>1, FS_AddElement
<1>2. IsFiniteSet({"high_amount", "high_quantity"})
  <2>1. {"high_amount", "high_quantity"} = {"high_amount"} \cup {"high_quantity"}
    OBVIOUS
  <2>. QED BY ONLY <1>1, <2>1, FS_AddElement
<1>3. IsFiniteSet({"high_amount", "high_quantity", "suspicious_email"})
  <2>1. {"high_amount", "high_quantity", "suspicious_email"} = {"high_amount", "high_quantity"} \cup {"suspicious_email"}
    OBVIOUS
  <2>. QED BY ONLY <1>2, <2>1, FS_AddElement
<1>4. IsFiniteSet({"high_amount", "high_quantity", "suspicious_email", "risky_country"})
  <2>1. {"high_amount", "high_quantity", "suspicious_email", "risky_country"} = {"high_amount", "high_quantity", "suspicious_email"} \cup {"risky_country"}
    OBVIOUS
  <2>. QED BY ONLY <1>3, <2>1, FS_AddElement
<1>5. IsFiniteSet({"high_amount", "high_quantity", "suspicious_email", "risky_country", "high_frequency_buyer"})
  <2>1. {"high_amount", "high_quantity", "suspicious_email", "risky_country", "high_frequency_buyer"} = {"high_amount", "high_quantity", "suspicious_email", "risky_country"} \cup {"high_frequency_buyer"}
    OBVIOUS
  <2>. QED BY ONLY <1>4, <2>1, FS_AddElement
<1>6. IsFiniteSet({"high_amount", "high_quantity", "suspicious_email", "risky_country", "high_frequency_buyer", "previous_fraud_history"})
  <2>1. {"high_amount", "high_quantity", "suspicious_email", "risky_country", "high_frequency_buyer", "previous_fraud_history"} = {"high_amount", "high_quantity", "suspicious_email", "risky_country", "high_frequency_buyer"} \cup {"previous_fraud_history"}
    OBVIOUS
  <2>. QED BY ONLY <1>5, <2>1, FS_AddElement
<1>7. IsFiniteSet({"high_amount", "high_quantity", "suspicious_email", "risky_country", "high_frequency_buyer", "previous_fraud_history", "different_billing_shipping"})
  <2>1. {"high_amount", "high_quantity", "suspicious_email", "risky_country", "high_frequency_buyer", "previous_fraud_history", "different_billing_shipping"} = {"high_amount", "high_quantity", "suspicious_email", "risky_country", "high_frequency_buyer", "previous_fraud_history"} \cup {"different_billing_shipping"}
    OBVIOUS
  <2>. QED BY ONLY <1>6, <2>1, FS_AddElement
<1>8. IsFiniteSet({"high_amount", "high_quantity", "suspicious_email", "risky_country", "high_frequency_buyer", "previous_fraud_history", "different_billing_shipping", "ip_country_mismatch"})
  <2>1. {"high_amount", "high_quantity", "suspicious_email", "risky_country", "high_frequency_buyer", "previous_fraud_history", "different_billing_shipping", "ip_country_mismatch"} = {"high_amount", "high_quantity", "suspicious_email", "risky_country", "high_frequency_buyer", "previous_fraud_history", "different_billing_shipping"} \cup {"ip_country_mismatch"}
    OBVIOUS
  <2>. QED BY ONLY <1>7, <2>1, FS_AddElement
<1>. QED BY <1>8 DEF RemarkNames

\* The order in which the remarks are added does not matter.
LEMMA ScoreIs ==
    ASSUME NEW flags \in SUBSET RemarkNames
    PROVE  MapThenSumSet(LAMBDA flag : Remarks[flag], flags) = Weight(flags)
<1>. DEFINE some(T) == CHOOSE x \in T : TRUE
            IsFold(g) == g = [T \in SUBSET flags |-> IF T = {} THEN 0 ELSE Remarks[some(T)] + g[T \ {some(T)}]]
            fold == CHOOSE g : IsFold(g)
            sums == [T \in SUBSET flags |-> Weight(T)]
<1>1. ASSUME NEW T \in SUBSET flags, T # {}
      PROVE  /\ some(T) \in T /\ some(T) \in RemarkNames /\ T \ {some(T)} \in SUBSET flags
             /\ Weight(T) = Remarks[some(T)] + Weight(T \ {some(T)})
  <2>1. some(T) \in T
    BY <1>1
  <2>. HIDE DEF some
  <2>. QED BY <2>1, WeightOfOne
<1>2. IsFold(sums)
  <2>1. ASSUME NEW T \in SUBSET flags
        PROVE  sums[T] = IF T = {} THEN 0 ELSE Remarks[some(T)] + sums[T \ {some(T)}]
    <3>. HIDE DEF some
    <3>1. CASE T = {}
      BY <3>1, WeightOfNone
    <3>2. CASE T # {}
      BY <3>2, <1>1
    <3>. QED BY <3>1, <3>2
  <2>2. sums = [T \in SUBSET flags |-> sums[T]]
    OBVIOUS
  <2>. HIDE DEF sums, some
  <2>. QED BY <2>1, <2>2
<1>3. IsFold(fold)
  <2>. HIDE DEF IsFold, sums
  <2>. QED BY <1>2
<1>4. ASSUME NEW T \in SUBSET flags
      PROVE  fold[T] = IF T = {} THEN 0 ELSE Remarks[some(T)] + fold[T \ {some(T)}]
  <2>. HIDE DEF fold, some
  <2>. QED BY <1>3
<1>. HIDE DEF fold
<1>. DEFINE Wrong == {T \in SUBSET flags : fold[T] # Weight(T)}
            Sizes == {Cardinality(T) : T \in Wrong}
<1>5. IsFiniteSet(flags)
  <2>1. IsFiniteSet(RemarkNames)
    BY NamesAreFinite
  <2>. QED BY <2>1, FS_Subset
<1>6. \A T \in SUBSET flags : IsFiniteSet(T) /\ Cardinality(T) \in Nat
  BY <1>5, FS_Subset, FS_CardinalityType
<1>7. Wrong = {}
  <2>1. SUFFICES ASSUME Wrong # {} PROVE FALSE
    OBVIOUS
  <2>2. Sizes \in SUBSET Nat /\ Sizes # {}
    BY <1>6, <2>1
  <2>3. PICK n \in Sizes : \A m \in Sizes : n <= m
    <3>. HIDE DEF Sizes
    <3>. QED BY <2>2, Smallest
  <2>4. PICK T \in Wrong : n = Cardinality(T)
    BY <2>3
  <2>5. T # {}
    BY <1>4, WeightOfNone
  <2>. DEFINE L == T \ {some(T)}
  <2>6. /\ some(T) \in T /\ L \in SUBSET flags /\ Weight(T) = Remarks[some(T)] + Weight(L)
        /\ fold[T] = Remarks[some(T)] + fold[L]
    BY <1>1, <1>4, <2>5
  <2>7. fold[L] # Weight(L)
    <3>. HIDE DEF some, L
    <3>. QED BY <2>6
  <2>8. Cardinality(L) \in Sizes
    <3>1. L \in Wrong
      BY <2>6, <2>7
    <3>. HIDE DEF Wrong, L
    <3>. QED BY <3>1
  <2>9. Cardinality(L) = Cardinality(T) - 1
    <3>1. IsFiniteSet(T)
      BY <1>6
    <3>. HIDE DEF some
    <3>. QED BY <2>6, <3>1, FS_RemoveElement
  <2>10. n <= Cardinality(L) /\ n \in Nat
    <3>. HIDE DEF L, Sizes
    <3>. QED BY <2>2, <2>3, <2>8
  <2>. HIDE DEF L
  <2>. QED BY <2>4, <2>9, <2>10, SMT
<1>8. fold[flags] = Weight(flags)
  BY <1>7
<1>9. MapThenSumSet(LAMBDA flag : Remarks[flag], flags) = fold[flags]
  BY DEF MapThenSumSet, MapThenFoldSet, fold
<1>. QED BY <1>8, <1>9

\* Whatever is remarkable about an order, the statements about its risk hold.
LEMMA RiskHolds ==
    ASSUME NEW c, c.flags \in SUBSET RemarkNames
    PROVE  RiskIsSound(c)
<1>. DEFINE T == c.flags
            grave == {"high_amount", "previous_fraud_history"}
<1>1. Weight(T) \in Nat
  <2>1. CASE T = {}
    BY <2>1, WeightOfNone
  <2>2. CASE T # {}
    <3>1. PICK x \in T : x \in RemarkNames
      BY <2>2
    <3>2. Remarks[x] \in Nat
      BY <3>1, RemarksAre DEF RemarkNames
    <3>3. Weight(T) = Remarks[x] + Weight(T \ {x}) /\ Weight(T \ {x}) \in Nat
      BY <3>1, WeightOfOne
    <3>. HIDE DEF T
    <3>. QED BY <3>2, <3>3, SMT
  <2>. QED BY <2>1, <2>2
<1>2. RiskCheck(T) = <<"low", "medium", "high">>[IF Weight(T) >= 50 THEN 3 ELSE IF Weight(T) >= 25 THEN 2 ELSE 1]
  <2>1. Reached(Weight(T), <<25, 50>>) = IF Weight(T) >= 50 THEN 3 ELSE IF Weight(T) >= 25 THEN 2 ELSE 1
    BY <1>1, Reached2
  <2>2. RiskCheck(T) = <<"low", "medium", "high">>[Reached(Weight(T), <<25, 50>>)]
    BY ScoreIs DEF RiskCheck
  <2>. QED BY <2>1, <2>2
<1>3. (RiskCheck(T) = "high" => Weight(T) >= 50) /\ (Weight(T) >= 25 => RiskCheck(T) # "low")
  <2>1. <<"low", "medium", "high">>[1] = "low" /\ <<"low", "medium", "high">>[2] = "medium"
        /\ <<"low", "medium", "high">>[3] = "high"
    OBVIOUS
  <2>. QED BY <1>1, <1>2, <2>1, SMT
<1>4. IsFiniteSet(T) /\ Cardinality(T) \in Nat
  <2>1. IsFiniteSet(RemarkNames)
    BY NamesAreFinite
  <2>. QED BY <2>1, FS_Subset, FS_CardinalityType
<1>5. \A x \in RemarkNames : Weight({x}) = Remarks[x] /\ Remarks[x] \in 0..35
  <2>. TAKE x \in RemarkNames
  <2>1. {x} \ {x} = {} /\ x \in {x}
    OBVIOUS
  <2>2. Weight({x}) = Remarks[x] + 0
    BY <2>1, WeightOfOne, WeightOfNone
  <2>3. Remarks[x] \in 0..35
    BY RemarksAre, SMT DEF RemarkNames
  <2>. QED BY <2>2, <2>3
<1>6. \A x \in T : /\ Cardinality(T) = 1 => T = {x}
                   /\ Cardinality(T \ {x}) = Cardinality(T) - 1 /\ IsFiniteSet(T \ {x})
                   /\ Cardinality(T) = 2 => \E y \in T \ {x} : T \ {x} = {y}
  <2>. TAKE x \in T
  <2>1. Cardinality(T \ {x}) = Cardinality(T) - 1 /\ IsFiniteSet(T \ {x})
    BY <1>4, FS_RemoveElement
  <2>2. ASSUME Cardinality(T) = 1 PROVE T = {x}
    <3>1. Cardinality(T \ {x}) = 0
      BY <2>1, <2>2, SMT
    <3>2. T \ {x} = {}
      BY <2>1, <3>1, FS_EmptySet
    <3>. QED BY <3>2
  <2>3. ASSUME Cardinality(T) = 2 PROVE \E y \in T \ {x} : T \ {x} = {y}
    <3>1. Cardinality(T \ {x}) = 1
      BY <2>1, <2>3, SMT
    <3>. QED BY <2>1, <3>1, FS_Singleton
  <2>. QED BY <2>1, <2>2, <2>3
<1>7. Weight(T) >= 50 => Cardinality(T) >= 2
  <2>1. ASSUME Cardinality(T) = 0 PROVE Weight(T) = 0
    <3>1. T = {}
      BY <1>4, <2>1, FS_EmptySet
    <3>. QED BY <3>1, WeightOfNone
  <2>2. ASSUME Cardinality(T) = 1 PROVE Weight(T) <= 35
    <3>1. T # {}
      BY <2>2, FS_EmptySet
    <3>2. PICK x \in T : T = {x} /\ x \in RemarkNames
      BY <1>6, <2>2, <3>1
    <3>. QED BY <3>2, <1>5
  <2>. HIDE DEF T
  <2>. QED BY <1>1, <1>4, <2>1, <2>2, SMT
<1>8. Cardinality(T) = 2 /\ T \cap grave = {} => Weight(T) < 50
  <2>1. SUFFICES ASSUME Cardinality(T) = 2, T \cap grave = {} PROVE Weight(T) < 50
    OBVIOUS
  <2>2. T # {}
    BY <2>1, FS_EmptySet
  <2>3. PICK x \in T, y \in T : x # y /\ T \ {x} = {y} /\ x \in RemarkNames /\ y \in RemarkNames
    BY <1>6, <2>1, <2>2
  <2>4. x \notin grave /\ y \notin grave
    BY <2>1
  <2>5. Weight(T) = Remarks[x] + Remarks[y]
    <3>1. Weight(T) = Remarks[x] + Weight(T \ {x})
      BY <2>3, WeightOfOne
    <3>2. Weight({y}) = Remarks[y]
      BY <1>5, <2>3
    <3>. HIDE DEF T
    <3>. QED BY <2>3, <3>1, <3>2
  <2>6. \A z \in RemarkNames \ grave : Remarks[z] \in 0..25 /\ (z # "risky_country" => Remarks[z] <= 20)
    BY RemarksAre, SMT DEF RemarkNames
  <2>7. Remarks[x] + Remarks[y] <= 45
    BY <2>3, <2>4, <2>6, SMT
  <2>. HIDE DEF T
  <2>. QED BY <1>1, <2>5, <2>7, SMT
<1>9. "previous_fraud_history" \in T => Weight(T) >= 25
  <2>1. "previous_fraud_history" \in RemarkNames
    BY DEF RemarkNames
  <2>2. ASSUME "previous_fraud_history" \in T PROVE Weight(T) = 35 + Weight(T \ {"previous_fraud_history"})
                                                    /\ Weight(T \ {"previous_fraud_history"}) \in Nat
    BY <2>1, <2>2, WeightOfOne, RemarksAre
  <2>. HIDE DEF T
  <2>. QED BY <1>1, <2>2, SMT
<1>10. Weight(T) >= 50 /\ Cardinality(T) = 2 => T \cap grave # {}
  <2>. HIDE DEF T, grave
  <2>. QED BY <1>1, <1>8, SMT
<1>. QED BY <1>3, <1>7, <1>9, <1>10 DEF RiskIsSound

-----------------------------------------------------------------------------
(* The evaluation of orders *)

\* The statements about the evaluation of orders hold for any order.
LEMMA EvaluationHolds ==
    ASSUME NEW o, o.large \in BOOLEAN, o.many \in BOOLEAN, o.buyer \in {"known", "unknown"}, o.others \in Nat
    PROVE  EvaluationIsSound(o)
<1>. DEFINE score == Points(25, o.large) + Points(10, o.many) + Points(15, o.buyer = "unknown")
                 + Points(15, o.buyer # "unknown" /\ o.others >= 3)
<1>1. score \in Int /\ (score >= 40 => o.large) /\ (o.large => score >= 25)
  BY DEF Points
<1>2. EvaluateRisk(o) = <<"low", "medium", "high", "critical">>[Reached(score, <<10, 25, 40>>)]
  BY DEF EvaluateRisk
<1>. HIDE DEF score
<1>3. Reached(score, <<10, 25, 40>>) =
          IF score >= 40 THEN 4 ELSE IF score >= 25 THEN 3 ELSE IF score >= 10 THEN 2 ELSE 1
  BY <1>1, Reached3
<1>. QED BY <1>1, <1>2, <1>3 DEF EvaluationIsSound

-----------------------------------------------------------------------------
(* Purchase proposals *)

PurchasingCalls ==
    [of : {"purchasing"}, daily : Nat, stock : Nat, inbound : Nat, safety : Nat,
     lead : Nat, cycle : Nat, maxDays : Nat, least : Nat]

\* The statements about purchase proposals hold for every call.
LEMMA PurchasingHolds ==
    ASSUME NEW c \in PurchasingCalls
    PROVE  PurchasingIsSound(c)
<1>. DEFINE point == c.daily * (c.lead + c.cycle) + c.daily * c.safety
            bound == c.daily * c.maxDays
            qtyOf(inbound) ==
                LET need == point - c.stock - inbound
                    room == IF bound - c.stock > 0 THEN bound - c.stock ELSE 0
                    gap == IF c.maxDays > 0 THEN (IF need <= room THEN need ELSE room) ELSE need
                IN  IF c.daily <= 0 \/ gap <= 0 THEN 0 ELSE IF gap >= c.least THEN gap ELSE c.least
<1>1. /\ c.daily \in Nat /\ c.stock \in Nat /\ c.inbound \in Nat /\ c.safety \in Nat /\ c.lead \in Nat
      /\ c.cycle \in Nat /\ c.maxDays \in Nat /\ c.least \in Nat
  BY DEF PurchasingCalls
<1>2. point \in Nat /\ bound \in Nat /\ c.daily * (c.lead + c.cycle + c.safety) = point
  BY <1>1
<1>3. ASSUME NEW d \in PurchasingCalls, NEW inbound \in Int, d.inbound = inbound, d.daily = c.daily,
             d.stock = c.stock, d.safety = c.safety, d.lead = c.lead, d.cycle = c.cycle,
             d.maxDays = c.maxDays, d.least = c.least
      PROVE  CalculateReplenishQty(d) = qtyOf(inbound)
  <2>. DEFINE need == point - c.stock - inbound
              room == Max({0, bound - c.stock})
              gap == IF c.maxDays > 0 THEN Min({need, room}) ELSE need
  <2>1. CalculateReplenishQty(d) = IF c.daily <= 0 \/ gap <= 0 THEN 0 ELSE Max({gap, c.least})
    BY <1>3 DEF CalculateReplenishQty
  <2>2. need \in Int /\ bound - c.stock \in Int
    BY <1>1, <1>2
  <2>. HIDE DEF need, bound
  <2>3. room = IF bound - c.stock > 0 THEN bound - c.stock ELSE 0
    BY <2>2, MaxOfTwo
  <2>4. room \in Int
    BY <2>2, <2>3
  <2>. HIDE DEF room
  <2>5. Min({need, room}) = IF need <= room THEN need ELSE room
    BY <2>2, <2>4, MinOfTwo
  <2>6. gap \in Int
    BY <2>2, <2>4, <2>5
  <2>7. gap = IF c.maxDays > 0 THEN (IF need <= room THEN need ELSE room) ELSE need
    BY <2>5
  <2>. HIDE DEF gap
  <2>8. Max({gap, c.least}) = IF gap >= c.least THEN gap ELSE c.least
    BY <2>6, <1>1, MaxOfTwo
  <2>. QED BY <2>1, <2>3, <2>7, <2>8 DEF need
<1>. DEFINE qty == CalculateReplenishQty(c)
<1>4. qty = qtyOf(c.inbound)
  BY <1>1, <1>3
<1>. HIDE DEF qty, point, bound
<1>5. qty \in Nat
  BY <1>1, <1>2, <1>4
<1>6. CalculateReplenishQty([c EXCEPT !.inbound = @ + qty]) = qtyOf(c.inbound + qty)
  <2>. DEFINE d == [c EXCEPT !.inbound = @ + qty]
  <2>1. /\ d \in PurchasingCalls /\ d.inbound = c.inbound + qty /\ d.daily = c.daily
        /\ d.stock = c.stock /\ d.safety = c.safety /\ d.lead = c.lead /\ d.cycle = c.cycle
        /\ d.maxDays = c.maxDays /\ d.least = c.least
    BY <1>1, <1>5 DEF PurchasingCalls
  <2>2. c.inbound + qty \in Int
    BY <1>1, <1>5
  <2>. HIDE DEF d, qtyOf
  <2>3. CalculateReplenishQty(d) = qtyOf(c.inbound + qty)
    BY <1>3, <2>1, <2>2
  <2>. QED BY <2>3 DEF d
<1>7. qty > 0 =>
          /\ c.stock + c.inbound < point
          /\ qty > c.least => c.stock + c.inbound + qty <= point
          /\ c.maxDays > 0 /\ qty > c.least => c.stock + qty <= bound
          /\ c.maxDays = 0 => qtyOf(c.inbound + qty) = 0
  BY <1>1, <1>2, <1>4, <1>5
<1>. HIDE DEF qtyOf
<1>. QED BY <1>2, <1>6, <1>7 DEF PurchasingIsSound, qty, bound

-----------------------------------------------------------------------------
(* Clearance *)

\* The statements about clearance hold for any stock, cost, price and sales.
LEMMA ClearanceHolds ==
    ASSUME NEW c, c.stock \in Nat, c.sales \in Int, c.cost \in Nat, c.price \in Nat
    PROVE  ClearanceIsSound(c)
<1>. DEFINE days(stock) == IF c.sales <= 0 THEN 999 ELSE Rounded(30 * stock, c.sales)
            share(stock) == IF stock <= 10 THEN 70 ELSE IF stock <= 50 THEN 60 ELSE 50
            asked(stock) == Rounded(c.price * share(stock), 100)
            paid == Rounded(c.cost * 80, 100)
            price(stock) == SuggestClearancePrice(c.cost, c.price, stock)
            rank(stock) == IF days(stock) >= 180 THEN 1 ELSE IF days(stock) >= 90 THEN 2 ELSE 3
            pace(stock) == SelectInSeq(<<"slow_moving", "warning", "normal">>,
                                       LAMBDA m : m = ClassifyMovement(stock, c.sales))
<1>1. ASSUME NEW a \in Nat, NEW b \in Nat, a <= b PROVE days(a) \in Int /\ days(a) <= days(b)
  <2>1. CASE c.sales <= 0
    BY <2>1
  <2>2. CASE c.sales > 0
    <3>1. 30 * a \in Int /\ 30 * b \in Int /\ 30 * a <= 30 * b /\ c.sales \in Nat \ {0}
      BY <1>1, <2>2
    <3>2. Rounded(30 * a, c.sales) \in Int
      BY ONLY <3>1, Rounds
    <3>3. Rounded(30 * a, c.sales) <= Rounded(30 * b, c.sales)
      BY ONLY <3>1, RoundedMonotone
    <3>. QED BY <3>2, <3>3, <2>2
  <2>. QED BY <2>1, <2>2
<1>2. ASSUME NEW a \in Nat, NEW b \in Nat, a <= b PROVE asked(a) \in Int /\ asked(a) >= asked(b)
  <2>1. c.price * share(a) \in Int /\ c.price * share(b) \in Int /\ 100 \in Nat \ {0}
    OBVIOUS
  <2>2. c.price * share(b) <= c.price * share(a)
    <3>. share(b) <= share(a) /\ share(a) \in Int /\ share(b) \in Int
      BY <1>2
    <3>. HIDE DEF share
    <3>. QED BY TimesMonotone
  <2>. HIDE DEF share
  <2>3. Rounded(c.price * share(a), 100) \in Int
    BY ONLY <2>1, Rounds
  <2>4. Rounded(c.price * share(b), 100) <= Rounded(c.price * share(a), 100)
    BY ONLY <2>1, <2>2, RoundedMonotone
  <2>5. Rounded(c.price * share(b), 100) \in Int
    BY ONLY <2>1, Rounds
  <2>. QED BY <2>3, <2>4, <2>5
<1>3. paid \in Int /\ 100 * paid >= 80 * c.cost - 50
  BY DEF Rounded
<1>. HIDE DEF paid, asked, days
<1>4. ASSUME NEW a \in Nat \ {0}
      PROVE  price(a) = IF asked(a) >= paid THEN asked(a) ELSE paid
  <2>1. price(a) = Max({asked(a), paid})
    BY <1>4 DEF SuggestClearancePrice, asked, paid
  <2>2. asked(a) \in Int
    BY <1>2
  <2>. QED BY <2>1, <2>2, <1>3, MaxOfTwo
<1>5. ASSUME NEW a \in Nat \ {0}
      PROVE  pace(a) = rank(a)
  <2>. DEFINE list == <<"slow_moving", "warning", "normal">>
              T == {i \in 1..Len(list) : list[i] = ClassifyMovement(a, c.sales)}
  <2>1. ClassifyMovement(a, c.sales) = IF days(a) >= 180 THEN "slow_moving"
                                       ELSE IF days(a) >= 90 THEN "warning" ELSE "normal"
    BY <1>5 DEF ClassifyMovement, days
  <2>2. pace(a) = IF T # {} THEN Min(T) ELSE 0
    BY DEF SelectInSeq
  <2>3. ClassifyMovement(a, c.sales) = list[rank(a)] /\ rank(a) \in 1..3
    BY <2>1
  <2>4. T = {rank(a)}
    <3>. HIDE DEF rank
    <3>. QED BY <2>3
  <2>5. Min({rank(a)}) = rank(a)
    BY <2>3 DEF Min
  <2>. QED BY <2>2, <2>4, <2>5
<1>. HIDE DEF price, pace, rank
<1>6. ASSUME c.stock > 0, NEW stock \in Nat, stock >= c.stock
      PROVE  pace(stock) <= pace(c.stock) /\ price(stock) <= price(c.stock)
  <2>1. stock \in Nat \ {0} /\ c.stock \in Nat \ {0} /\ c.stock <= stock
    BY <1>6
  <2>2. asked(c.stock) \in Int /\ asked(stock) \in Int /\ asked(c.stock) >= asked(stock)
    BY <2>1, <1>2
  <2>3. days(c.stock) \in Int /\ days(stock) \in Int /\ days(c.stock) <= days(stock)
    BY <2>1, <1>1
  <2>4. rank(stock) <= rank(c.stock)
    BY <2>3 DEF rank
  <2>. QED BY <2>1, <2>2, <2>4, <1>3, <1>4, <1>5
<1>7. c.stock > 0 => 100 * price(c.stock) >= 80 * c.cost - 50
  <2>. SUFFICES ASSUME c.stock > 0 PROVE 100 * price(c.stock) >= 80 * c.cost - 50
    OBVIOUS
  <2>1. c.stock \in Nat \ {0} /\ asked(c.stock) \in Int
    BY <1>2
  <2>2. price(c.stock) \in Int /\ price(c.stock) >= paid
    BY <2>1, <1>3, <1>4
  <2>. QED BY <2>2, <1>3
<1>8. {10, 11, 50, 51, 300} \in SUBSET Nat
  OBVIOUS
<1>. QED BY <1>6, <1>7, <1>8 DEF ClearanceIsSound, pace, price

-----------------------------------------------------------------------------
(* Aggregation *)

\* A list of as many values as it is long has none twice.
LEMMA Distinct ==
    ASSUME NEW S, NEW s \in Seq(S), Cardinality(ToSet(s)) = Len(s)
    PROVE  \A i, j \in 1..Len(s) : s[i] = s[j] => i = j
<1>. DEFINE n == Len(s)
            T == ToSet(s)
<1>1. n \in Nat /\ DOMAIN s = 1..n /\ s \in [1..n -> S]
  OBVIOUS
<1>2. IsFiniteSet(1..n) /\ Cardinality(1..n) = n
  <2>. HIDE DEF n
  <2>. QED BY <1>1, FS_Interval
<1>3. s \in Surjection(1..n, T)
  <2>1. s = [i \in 1..n |-> s[i]]
    BY <1>1
  <2>2. \A i \in 1..n : s[i] \in T
    BY <1>1 DEF ToSet
  <2>3. s \in [1..n -> T]
    BY <2>1, <2>2
  <2>4. \A t \in T : \E i \in 1..n : s[i] = t
    BY <1>1 DEF ToSet
  <2>. QED BY <2>3, <2>4 DEF Surjection
<1>4. s \in Injection(1..n, T)
  <2>1. Cardinality(1..n) = Cardinality(T)
    BY <1>2
  <2>. HIDE DEF n, T
  <2>. QED BY <1>2, <1>3, <2>1, FS_SurjSameCardinalityImpliesInj
<1>. QED BY <1>1, <1>4 DEF Injection, IsInjective

\* The statements about aggregated sales hold for every call.
LEMMA AggregationHolds ==
    ASSUME NEW D, NEW c, c.hours \in Seq([day : D, value : Nat]), c.runs \in Seq(D)
    PROVE  AggregationIsSound(c)
<1>. DEFINE n == Len(c.hours)
            m == Len(c.runs)
            v == [i \in 1..n |-> c.hours[i].value]
            day == [i \in 1..n |-> c.hours[i].day]
            share(S) == [i \in 1..n |-> IF day[i] \in S THEN v[i] ELSE 0]
            part(S) == Total(share(S))
            daily(d) == Total([i \in DOMAIN c.hours |-> Points(c.hours[i].value, c.hours[i].day = d)])
            w == [r \in 1..m |-> daily(c.runs[r])]
            first(k) == {c.runs[r] : r \in 1..k}
            single == \A i, j \in 1..m : c.runs[i] = c.runs[j] => i = j
<1>1. n \in Nat /\ m \in Nat /\ DOMAIN c.hours = 1..n /\ DOMAIN c.runs = 1..m
  OBVIOUS
<1>2. v \in [1..n -> Nat]
  <2>1. ASSUME NEW i \in 1..n PROVE c.hours[i].value \in Nat
    <3>. DEFINE R == [day : D, value : Nat]
    <3>1. c.hours[i] \in R
      <4>. c.hours \in Seq(R)
        OBVIOUS
      <4>. HIDE DEF R
      <4>. QED OBVIOUS
    <3>. QED BY <3>1
  <2>. QED BY <2>1
<1>3. ASSUME NEW d PROVE daily(d) = part({d})
  BY <1>1 DEF Points
<1>4. Total([i \in DOMAIN c.hours |-> c.hours[i].value]) = Total(v)
  BY <1>1
<1>5. AggregateToMonthly(c.hours, c.runs) = Total(w)
  BY <1>1 DEF AggregateToMonthly
<1>. HIDE DEF v, day, daily
<1>21. ASSUME NEW S, NEW i \in 1..n PROVE share(S)[i] = (IF day[i] \in S THEN v[i] ELSE 0) /\ v[i] \in Nat
  BY <1>2
<1>6. ASSUME NEW S PROVE share(S) \in [1..n -> Int] /\ part(S) \in Int
  <2>1. share(S) \in [1..n -> Int]
    BY <1>2
  <2>. HIDE DEF share
  <2>. QED BY <1>1, <2>1, SumOf
<1>7. part({}) = 0
  <2>1. share({}) = [i \in 1..n |-> 0]
    OBVIOUS
  <2>2. Total([i \in 1..n |-> 0]) = 0
    <3>. HIDE DEF n
    <3>1. Total([i \in 1..n |-> 0]) = n * 0
        <4>. 0 \in Int
        OBVIOUS
      <4>. QED BY <1>1, TotalSame
    <3>. QED BY <1>1, <3>1
  <2>. QED BY <2>1, <2>2
<1>8. ASSUME NEW S, NEW d
      PROVE  /\ part(S \cup {d}) <= part(S) + part({d})
             /\ d \notin S => part(S \cup {d}) = part(S) + part({d})
  <2>. DEFINE s == share(S)
              t == share({d})
              u == share(S \cup {d})
              z == [i \in 1..n |-> s[i] + t[i]]
  <2>1. s \in [1..n -> Int] /\ t \in [1..n -> Int] /\ u \in [1..n -> Int]
    BY <1>6
  <2>2. z \in [1..n -> Int]
    BY <2>1
  <2>3. ASSUME NEW i \in 1..n PROVE u[i] <= z[i] /\ (d \notin S => u[i] = z[i])
    <3>1. /\ s[i] = (IF day[i] \in S THEN v[i] ELSE 0)
          /\ t[i] = (IF day[i] \in {d} THEN v[i] ELSE 0)
          /\ u[i] = (IF day[i] \in S \cup {d} THEN v[i] ELSE 0)
          /\ v[i] \in Nat
      BY <1>21
    <3>2. z[i] = s[i] + t[i]
      OBVIOUS
    <3>. HIDE DEF s, t, u, z
    <3>. QED BY <3>1, <3>2
  <2>4. d \notin S => u = z
    <3>. HIDE DEF s, t
    <3>1. u = [i \in 1..n |-> u[i]] /\ z = [i \in 1..n |-> z[i]]
      BY <2>1, <2>2
    <3>. HIDE DEF u, z
    <3>. QED BY <2>3, <3>1
  <2>5. Total(z) = Total(s) + Total(t)
    <3>. HIDE DEF n, s, t
    <3>. QED BY <1>1, <2>1, TotalPlus
  <2>. HIDE DEF u, z, n, s, t
  <2>6. Total(u) <= Total(z)
    BY <1>1, <2>1, <2>2, <2>3, TotalGrows
  <2>7. part(S) = Total(s) /\ part({d}) = Total(t) /\ part(S \cup {d}) = Total(u)
    BY DEF s, t, u
  <2>. HIDE DEF part
  <2>. QED BY <2>4, <2>5, <2>6, <2>7
<1>9. ASSUME NEW S PROVE part(S) <= Total(v)
  <2>. DEFINE s == share(S)
  <2>1. s \in [1..n -> Int] /\ v \in [1..n -> Int] /\ \A i \in 1..n : s[i] <= v[i]
    <3>1. s \in [1..n -> Int] /\ v \in [1..n -> Int]
      BY <1>2, <1>6
    <3>2. ASSUME NEW i \in 1..n PROVE s[i] <= v[i]
      <4>1. s[i] = (IF day[i] \in S THEN v[i] ELSE 0) /\ v[i] \in Nat
        BY <1>21
      <4>. HIDE DEF s
      <4>. QED BY <4>1
    <3>. HIDE DEF s, n
    <3>. QED BY <3>1, <3>2
  <2>. HIDE DEF s, n
  <2>2. Total(s) <= Total(v)
    BY <1>1, <2>1, TotalGrows
  <2>. QED BY <2>2 DEF s, n
<1>10. ASSUME NEW S, \A i \in 1..n : day[i] \in S PROVE part(S) = Total(v)
  <2>. share(S) = v
    BY <1>2, <1>10
  <2>. QED OBVIOUS
<1>. HIDE DEF part, share
<1>11. w \in [1..m -> Int]
  BY <1>3, <1>6
<1>12. PICK a \in [0..m -> Int] : /\ a[0] = 0 /\ Total(w) = a[m]
                                  /\ \A i \in 1..m : a[i] = a[i - 1] + w[i]
  <2>. HIDE DEF w, m
  <2>. QED BY <1>1, <1>11, SumOf
<1>. DEFINE Good == {k \in 0..m : part(first(k)) <= a[k] /\ (single => part(first(k)) = a[k])}
<1>13. Good = 0..m
  <2>1. 0 \in Good /\ Good \in SUBSET (0..m)
    <3>1. first(0) = {} /\ 0 \in 0..m
      BY <1>1
    <3>2. part(first(0)) = 0
      BY <1>7, <3>1
    <3>. HIDE DEF first, single, w
    <3>3. part(first(0)) <= a[0] /\ part(first(0)) = a[0]
      BY <1>12, <3>2
    <3>. QED BY <3>1, <3>3
  <2>2. ASSUME NEW k \in 0..m - 1, k \in Good PROVE k + 1 \in Good
    <3>1. k + 1 \in 1..m /\ (k + 1) - 1 = k /\ k + 1 \in 0..m /\ k \in 0..m
      BY <1>1
    <3>. DEFINE d == c.runs[k + 1]
                S == first(k)
    <3>2. first(k + 1) = S \cup {d}
      BY <3>1
    <3>3. single => d \notin S
      <4>. SUFFICES ASSUME single, d \in S PROVE FALSE
        OBVIOUS
      <4>1. PICK r \in 1..k : c.runs[r] = d
        OBVIOUS
      <4>2. r \in 1..m /\ r # k + 1
        BY <3>1
      <4>. QED BY <3>1, <4>1, <4>2
    <3>4. a[k + 1] = a[k] + w[k + 1] /\ w[k + 1] = part({d}) /\ a[k] \in Int
      BY <1>3, <1>12, <3>1
    <3>5. part(S) <= a[k] /\ (single => part(S) = a[k])
      BY <2>2
    <3>6. part(S) \in Int /\ part({d}) \in Int /\ part(S \cup {d}) \in Int
      BY <1>6
    <3>7. /\ part(S \cup {d}) <= part(S) + part({d})
          /\ d \notin S => part(S \cup {d}) = part(S) + part({d})
      BY <1>8
    <3>. HIDE DEF S, d, single, w
    <3>8. part(S \cup {d}) <= a[k + 1] /\ (single => part(S \cup {d}) = a[k + 1])
      BY <3>3, <3>4, <3>5, <3>6, <3>7
    <3>. QED BY <3>1, <3>2, <3>8
  <2>. HIDE DEF Good
  <2>. QED BY <1>1, <2>1, <2>2, UpTo
<1>14. part(first(m)) <= Total(w) /\ (single => part(first(m)) = Total(w))
  <2>. HIDE DEF first, single, w
  <2>1. m \in Good
    <3>. HIDE DEF Good
    <3>. QED BY <1>1, <1>13
  <2>. QED BY <1>12, <2>1
<1>15. ToSet(c.runs) = first(m)
  BY <1>1 DEF ToSet
<1>16. {c.hours[i].day : i \in DOMAIN c.hours} \subseteq ToSet(c.runs) => part(first(m)) = Total(v)
  <2>. SUFFICES ASSUME {c.hours[i].day : i \in DOMAIN c.hours} \subseteq ToSet(c.runs)
                PROVE  part(first(m)) = Total(v)
    OBVIOUS
  <2>1. \A i \in 1..n : day[i] \in first(m)
    BY <1>1, <1>15 DEF day
  <2>. HIDE DEF first
  <2>. QED BY <1>10, <2>1
<1>17. Cardinality(ToSet(c.runs)) = Len(c.runs) => single
  BY Distinct
<1>18. part(first(m)) <= Total(v)
  BY <1>9
<1>19. part(first(m)) \in Int /\ Total(v) \in Int /\ Total(w) \in Int
  <2>1. Total(w) \in Int
    BY <1>1, <1>12
  <2>2. Total(v) \in Int
    <3>. v \in [1..n -> Int]
      BY <1>2
    <3>. HIDE DEF n
    <3>. QED BY <1>1, SumOf
  <2>. QED BY <1>6, <2>1, <2>2
<1>. HIDE DEF w, single, first
<1>20. /\ {c.hours[i].day : i \in DOMAIN c.hours} \subseteq ToSet(c.runs) => Total(w) >= Total(v)
       /\ Cardinality(ToSet(c.runs)) = Len(c.runs) => Total(w) <= Total(v)
  BY <1>14, <1>16, <1>17, <1>18, <1>19
<1>. QED BY <1>4, <1>5, <1>20 DEF AggregationIsSound

-----------------------------------------------------------------------------
(* Fees *)

\* The first position of those that are chosen, 0 when none is.
LEMMA FirstOf ==
    ASSUME NEW n \in Nat, NEW I \in SUBSET (1..n), NEW first, first = IF I # {} THEN Min(I) ELSE 0
    PROVE  /\ first \in 0..n
           /\ first = 0 <=> I = {}
           /\ first # 0 => first \in I /\ \A i \in I : first <= i
<1>1. CASE I = {}
  BY <1>1
<1>2. CASE I # {}
  <2>1. I \in SUBSET Nat
    OBVIOUS
  <2>2. first \in I /\ \A i \in I : first <= i
    BY <1>2, <2>1, MinOf
  <2>. QED BY <1>2, <2>2
<1>. QED BY <1>1, <1>2

Charges == {"fee", "rate", "fee_per_kg", "rate_per_unit_per_day"}

Measures == {"amount", "weight", "days"}

Tier == [by : Measures, charge : Charges, min : Nat, max : Nat, n : Nat]

\* Three tiers, each beginning where the one before it ends.
AdjoiningTiers ==
    {tiers \in Tier \X Tier \X Tier :
        /\ tiers[1].by = tiers[2].by /\ tiers[2].by = tiers[3].by
        /\ tiers[1].min = 0 /\ 0 < tiers[1].max
        /\ tiers[2].min = tiers[1].max /\ tiers[2].min < tiers[2].max
        /\ tiers[3].min = tiers[2].max /\ tiers[3].max = 0}

FeeStrategySet(K) ==
    {s \in [method : {"tiered"}, tiers : AdjoiningTiers, inForce : BOOLEAN, platform : K, least : Nat, most : Nat]
           \cup [method : {"percentage", "fixed", "formula"}, n : Nat, inForce : BOOLEAN, platform : K,
                 least : Nat, most : Nat] :
        s.least <= s.most \/ s.most = 0}

FeeCallSet(K) == [platform : K, amount : Nat, weight : Nat, days : Nat, quantity : Nat]

\* The first tier that a call falls into, 0 for none.
FirstTier(tiers, call) == SelectInSeq(tiers, LAMBDA tier : MatchTier(tier, call))

\* Exactly one of the tiers is for a call, and which one it is does not depend
\* on the order in which they are listed.
LEMMA OneTier ==
    ASSUME NEW K, NEW tiers \in AdjoiningTiers, NEW call \in FeeCallSet(K)
    PROVE  \E k \in 1..3 :
               /\ \A j \in 1..3 : MatchTier(tiers[j], call) <=> j = k
               /\ FirstTier(tiers, call) = k
               /\ FirstTier(Reverse(tiers), call) = 4 - k
               /\ Reverse(tiers)[4 - k] = tiers[k]
<1>. DEFINE by == tiers[1].by
            v == call[by]
            a == tiers[1].max
            b == tiers[2].max
            k == IF v < a THEN 1 ELSE IF v < b THEN 2 ELSE 3
            back == Reverse(tiers)
<1>1. /\ tiers[1] \in Tier /\ tiers[2] \in Tier /\ tiers[3] \in Tier
      /\ tiers[2].by = by /\ tiers[3].by = by
      /\ tiers[1].min = 0 /\ 0 < a /\ tiers[2].min = a /\ a < b /\ tiers[3].min = b /\ tiers[3].max = 0
  BY DEF AdjoiningTiers
<1>2. v \in Nat /\ a \in Nat /\ b \in Nat
  <2>1. by \in Measures /\ a \in Nat /\ b \in Nat
    BY <1>1 DEF Tier
  <2>2. by = "amount" \/ by = "weight" \/ by = "days"
    BY <2>1 DEF Measures
  <2>3. call.amount \in Nat /\ call.weight \in Nat /\ call.days \in Nat
    BY DEF FeeCallSet
  <2>. HIDE DEF by
  <2>. QED BY <2>1, <2>2, <2>3
<1>3. \A j \in 1..3 : MatchTier(tiers[j], call) <=> j = k
  <2>1. /\ MatchTier(tiers[1], call) <=> v < a
        /\ MatchTier(tiers[2], call) <=> a <= v /\ v < b
        /\ MatchTier(tiers[3], call) <=> b <= v
    <3>1. /\ MatchTier(tiers[1], call) <=> 0 <= v /\ (a = 0 \/ v < a)
          /\ MatchTier(tiers[2], call) <=> a <= v /\ (b = 0 \/ v < b)
          /\ MatchTier(tiers[3], call) <=> b <= v /\ (0 = 0 \/ v < 0)
      BY <1>1 DEF MatchTier
    <3>2. 0 < a /\ a < b
      BY <1>1
    <3>. HIDE DEF v, a, b, by
    <3>. QED BY <1>2, <3>1, <3>2, SMT
  <2>2. a < b
    BY <1>1
  <2>. HIDE DEF v, a, b, by
  <2>3. /\ MatchTier(tiers[1], call) <=> 1 = k
        /\ MatchTier(tiers[2], call) <=> 2 = k
        /\ MatchTier(tiers[3], call) <=> 3 = k
    BY <1>2, <2>1, <2>2, SMT
  <2>4. \A j \in 1..3 : j = 1 \/ j = 2 \/ j = 3
    OBVIOUS
  <2>. HIDE DEF k
  <2>. QED BY <2>3, <2>4
<1>4. k \in 1..3 /\ 4 - k \in 1..3 /\ \A j \in 1..3 : 4 - j \in 1..3 /\ (4 - j = k <=> j = 4 - k)
  <2>1. k = 1 \/ k = 2 \/ k = 3
    OBVIOUS
  <2>. HIDE DEF k
  <2>. QED BY <2>1, SMT
<1>5. Len(tiers) = 3 /\ DOMAIN tiers = 1..3
  BY DEF AdjoiningTiers
<1>6. Len(back) = 3 /\ DOMAIN back = 1..3 /\ \A j \in 1..3 : back[j] = tiers[4 - j]
  <2>1. back = [j \in 1..Len(tiers) |-> tiers[(Len(tiers) - j) + 1]]
    BY DEF Reverse
  <2>2. back = [j \in 1..3 |-> tiers[(3 - j) + 1]]
    BY <2>1, <1>5
  <2>3. \A j \in 1..3 : (3 - j) + 1 = 4 - j
    OBVIOUS
  <2>. HIDE DEF back
  <2>4. Len(back) = 3
    BY <2>2
  <2>5. DOMAIN back = 1..3
    BY <2>2
  <2>6. \A j \in 1..3 : back[j] = tiers[4 - j]
    BY <2>2, <2>3
  <2>. QED BY <2>4, <2>5, <2>6
<1>. HIDE DEF k, back
<1>7. ASSUME NEW m \in 1..3, NEW I, I = {m} PROVE I # {} /\ Min(I) = m
  BY <1>7 DEF Min
<1>8. FirstTier(tiers, call) = k
  <2>. DEFINE I == {i \in 1..Len(tiers) : MatchTier(tiers[i], call)}
  <2>1. I = {k}
    BY <1>3, <1>4, <1>5
  <2>2. FirstTier(tiers, call) = IF I # {} THEN Min(I) ELSE 0
    BY DEF FirstTier, SelectInSeq
  <2>. HIDE DEF I
  <2>. QED BY <1>4, <1>7, <2>1, <2>2
<1>9. FirstTier(back, call) = 4 - k
  <2>. DEFINE I == {i \in 1..Len(back) : MatchTier(back[i], call)}
  <2>1. I = {4 - k}
    <3>1. \A j \in 1..3 : MatchTier(back[j], call) <=> 4 - j = k
      BY <1>3, <1>4, <1>6
    <3>. QED BY <1>4, <1>6, <3>1
  <2>2. FirstTier(back, call) = IF I # {} THEN Min(I) ELSE 0
    BY DEF FirstTier, SelectInSeq
  <2>. HIDE DEF I
  <2>. QED BY <1>4, <1>7, <2>1, <2>2
<1>10. back[4 - k] = tiers[k]
  <2>1. 4 - (4 - k) = k
    BY <1>4, SMT
  <2>2. back[4 - k] = tiers[4 - (4 - k)]
    BY <1>4, <1>6
  <2>. QED BY <2>1, <2>2
<1>. QED BY <1>3, <1>4, <1>8, <1>9, <1>10 DEF back

\* What a call costs by a tier or by a strategy is an amount.
LEMMA StrategyFeeIs ==
    ASSUME NEW K, NEW s \in FeeStrategySet(K), NEW call \in FeeCallSet(K)
    PROVE  StrategyFee(s, call) \in Nat
<1>0. call.amount \in Nat /\ call.weight \in Nat /\ call.days \in Nat /\ call.quantity \in Nat
  BY DEF FeeCallSet
<1>1. CASE s.method = "tiered"
  <2>1. s.tiers \in AdjoiningTiers
    BY <1>1 DEF FeeStrategySet
  <2>2. PICK k \in 1..3 : FirstTier(s.tiers, call) = k
    BY <2>1, OneTier
  <2>3. StrategyFee(s, call) = TierFee(s.tiers[k], call)
    <3>1. k # 0
      OBVIOUS
    <3>. QED BY <1>1, <2>2, <3>1 DEF StrategyFee, FirstTier
  <2>4. s.tiers[k] \in Tier
    <3>1. k = 1 \/ k = 2 \/ k = 3
      OBVIOUS
    <3>. QED BY <2>1, <3>1 DEF AdjoiningTiers
  <2>5. \A t \in Tier : TierFee(t, call) \in Nat
    <3>. TAKE t \in Tier
    <3>1. t.n \in Nat /\ (t.charge = "fee" \/ t.charge = "rate" \/ t.charge = "fee_per_kg" \/ t.charge = "rate_per_unit_per_day")
      BY DEF Tier, Charges
    <3>2. /\ 100 * t.n \in Nat /\ call.amount * t.n \in Nat /\ 100 * call.weight * t.n \in Nat
          /\ 100 * call.quantity * call.days * t.n \in Nat
      BY <1>0, <3>1
    <3>3. CASE t.charge = "fee"
      BY <3>2, <3>3 DEF TierFee
    <3>4. CASE t.charge = "rate"
      BY <3>2, <3>4 DEF TierFee
    <3>5. CASE t.charge = "fee_per_kg"
      BY <3>2, <3>5 DEF TierFee
    <3>6. CASE t.charge = "rate_per_unit_per_day"
      BY <3>2, <3>6 DEF TierFee
    <3>. QED BY <3>1, <3>3, <3>4, <3>5, <3>6
  <2>. QED BY <2>3, <2>4, <2>5
<1>2. CASE s.method # "tiered"
  <2>1. s.n \in Nat /\ (s.method = "percentage" \/ s.method = "fixed" \/ s.method = "formula")
    BY <1>2 DEF FeeStrategySet
  <2>2. 100 * s.n \in Nat /\ call.amount * s.n \in Nat
    BY <1>0, <2>1
  <2>3. CASE s.method = "percentage"
    BY <2>2, <2>3 DEF StrategyFee, FirstTier
  <2>4. CASE s.method = "fixed"
    BY <2>2, <2>4 DEF StrategyFee, FirstTier
  <2>5. CASE s.method = "formula"
    BY <2>2, <2>5 DEF StrategyFee, FirstTier
  <2>. QED BY <2>1, <2>3, <2>4, <2>5
<1>. QED BY <1>1, <1>2

\* The strategy that is matched is the first in force for the platform.
LEMMA MatchedIs ==
    ASSUME NEW A, NEW strategies \in Seq(A), NEW call
    PROVE  LET I == {i \in 1..Len(strategies) :
                         strategies[i].inForce /\ strategies[i].platform \in {"any", call.platform}}
               i == MatchedStrategy(strategies, call)
           IN  /\ i \in 0..Len(strategies)
               /\ i = 0 <=> I = {}
               /\ i # 0 => i \in I
<1>. DEFINE I == {i \in 1..Len(strategies) :
                      strategies[i].inForce /\ strategies[i].platform \in {"any", call.platform}}
<1>1. MatchedStrategy(strategies, call) = IF I # {} THEN Min(I) ELSE 0
  BY DEF MatchedStrategy, SelectInSeq
<1>2. Len(strategies) \in Nat /\ I \in SUBSET (1..Len(strategies))
  OBVIOUS
<1>3. /\ MatchedStrategy(strategies, call) \in 0..Len(strategies)
      /\ MatchedStrategy(strategies, call) = 0 <=> I = {}
      /\ MatchedStrategy(strategies, call) # 0 => MatchedStrategy(strategies, call) \in I
  <2>. HIDE DEF I
  <2>. QED BY <1>1, <1>2, FirstOf
<1>. QED BY <1>3

\* The statements about fees hold for any strategies whose limits fit each
\* other and whose tiers adjoin.
LEMMA FeeHolds ==
    ASSUME NEW K, NEW c, c.strategies \in Seq(FeeStrategySet(K)), c.call \in FeeCallSet(K)
    PROVE  FeeIsSound(c)
<1>. DEFINE i == MatchedStrategy(c.strategies, c.call)
            s == c.strategies[i]
            fee == CalculateFee(c.strategies, c.call)
            r == [s EXCEPT !.tiers = Reverse(@)]
            I == {k \in 1..Len(c.strategies) :
                      c.strategies[k].inForce /\ c.strategies[k].platform \in {"any", c.call.platform}}
<1>1. i \in 0..Len(c.strategies) /\ (i = 0 <=> I = {}) /\ (i # 0 => i \in I)
  BY MatchedIs
<1>2. ASSUME i = 0, NEW k \in DOMAIN c.strategies
      PROVE  ~c.strategies[k].inForce \/ c.strategies[k].platform \notin {"any", c.call.platform}
  <2>1. k \in 1..Len(c.strategies) /\ I = {}
    BY <1>1, <1>2
  <2>. QED BY <2>1
<1>3. ASSUME i # 0
      PROVE  /\ s.inForce
             /\ fee >= s.least /\ (s.most > 0 => fee <= s.most)
             /\ s.method = "tiered" =>
                    /\ fee = CalculateFee(<<r>>, c.call)
                    /\ Cardinality({t \in DOMAIN s.tiers : MatchTier(s.tiers[t], c.call)}) = 1
  <2>1. i \in 1..Len(c.strategies) /\ s.inForce /\ s.platform \in {"any", c.call.platform}
    BY <1>1, <1>3
  <2>2. s \in FeeStrategySet(K)
    <3>. HIDE DEF i
    <3>. QED BY <2>1
  <2>3. fee = WithinLimits(s, StrategyFee(s, c.call))
    BY DEF CalculateFee
  <2>. HIDE DEF i, s, fee
  <2>4. fee >= s.least /\ (s.most > 0 => fee <= s.most)
    <3>. DEFINE f == StrategyFee(s, c.call)
    <3>1. f \in Nat
      BY <2>2, StrategyFeeIs
    <3>2. s.least \in Nat /\ s.most \in Nat /\ (s.least <= s.most \/ s.most = 0)
      BY <2>2 DEF FeeStrategySet
    <3>3. fee = WithinLimits(s, f)
      BY <2>3
    <3>. HIDE DEF f
    <3>. QED BY <3>1, <3>2, <3>3, SMT DEF WithinLimits
  <2>5. ASSUME s.method = "tiered"
        PROVE  /\ fee = CalculateFee(<<r>>, c.call)
               /\ Cardinality({t \in DOMAIN s.tiers : MatchTier(s.tiers[t], c.call)}) = 1
    <3>1. s.tiers \in AdjoiningTiers
      BY <2>2, <2>5 DEF FeeStrategySet
    <3>2. PICK k \in 1..3 :
               /\ \A j \in 1..3 : MatchTier(s.tiers[j], c.call) <=> j = k
               /\ FirstTier(s.tiers, c.call) = k
               /\ FirstTier(Reverse(s.tiers), c.call) = 4 - k
               /\ Reverse(s.tiers)[4 - k] = s.tiers[k]
      BY <3>1, OneTier
    <3>3. Cardinality({t \in DOMAIN s.tiers : MatchTier(s.tiers[t], c.call)}) = 1
      <4>1. DOMAIN s.tiers = 1..3
        BY <3>1 DEF AdjoiningTiers
      <4>2. {t \in DOMAIN s.tiers : MatchTier(s.tiers[t], c.call)} = {k}
        BY <3>2, <4>1
      <4>. QED BY <4>2, FS_Singleton
    <3>4. /\ r.method = "tiered" /\ r.tiers = Reverse(s.tiers) /\ r.inForce
          /\ r.platform \in {"any", c.call.platform} /\ r.least = s.least /\ r.most = s.most
      BY <2>1, <2>2, <2>5 DEF FeeStrategySet
    <3>. HIDE DEF r
    <3>5. StrategyFee(s, c.call) = TierFee(s.tiers[k], c.call)
      <4>1. k # 0
        OBVIOUS
      <4>. QED BY <2>5, <3>2, <4>1 DEF StrategyFee, FirstTier
    <3>6. StrategyFee(r, c.call) = TierFee(s.tiers[k], c.call)
      <4>1. 4 - k # 0
        BY SMT
      <4>2. FirstTier(r.tiers, c.call) = 4 - k
        BY <3>2, <3>4
      <4>. QED BY <3>2, <3>4, <4>1, <4>2 DEF StrategyFee, FirstTier
    <3>7. MatchedStrategy(<<r>>, c.call) = 1
      <4>. DEFINE J == {j \in 1..Len(<<r>>) : <<r>>[j].inForce /\ <<r>>[j].platform \in {"any", c.call.platform}}
      <4>1. J = {1}
        <5>1. 1..Len(<<r>>) = {1} /\ <<r>>[1] = r
          OBVIOUS
        <5>. QED BY <3>4, <5>1
      <4>2. MatchedStrategy(<<r>>, c.call) = IF J # {} THEN Min(J) ELSE 0
        BY DEF MatchedStrategy, SelectInSeq
      <4>3. Min({1}) = 1
        BY DEF Min
      <4>. HIDE DEF J
      <4>. QED BY <4>1, <4>2, <4>3
    <3>8. CalculateFee(<<r>>, c.call) = WithinLimits(r, StrategyFee(r, c.call))
      <4>1. <<r>>[1] = r
        OBVIOUS
      <4>. QED BY <3>7, <4>1 DEF CalculateFee
    <3>9. WithinLimits(r, StrategyFee(r, c.call)) = WithinLimits(s, StrategyFee(r, c.call))
      BY <3>4 DEF WithinLimits
    <3>. QED BY <2>3, <3>3, <3>5, <3>6, <3>8, <3>9
  <2>. QED BY <2>1, <2>4, <2>5
<1>4. CASE i = 0
  <2>. HIDE DEF i, s, fee
  <2>1. i = 0
    BY <1>4
  <2>. QED BY <1>2, <2>1 DEF FeeIsSound, i, s, fee
<1>5. CASE i # 0
  <2>1. i # 0
    BY <1>5
  <2>. QED BY <1>3, <2>1 DEF FeeIsSound
<1>. QED BY <1>4, <1>5

-----------------------------------------------------------------------------
(* Declared values *)

\* The statements about declared values hold for any value and rule.
LEMMA DeclaredHolds ==
    ASSUME NEW c, c.total \in Nat, c.fixed \in Nat, c.ratio \in Nat, c.least \in Nat, c.most \in Nat,
           c.least <= c.most \/ c.most = 0
    PROVE  DeclaredIsSound(c)
<1>. DEFINE a == Rounded(c.total * c.ratio, 100)
            b == Rounded((c.total + 1) * c.ratio, 100)
<1>1. a \in Int /\ b \in Int /\ a <= b
  <2>1. /\ c.total * c.ratio \in Int /\ (c.total + 1) * c.ratio \in Int
        /\ c.total * c.ratio <= (c.total + 1) * c.ratio /\ 100 \in Nat \ {0}
    OBVIOUS
  <2>2. a \in Int /\ b \in Int
    BY ONLY <2>1, Rounds
  <2>3. a <= b
    BY ONLY <2>1, RoundedMonotone
  <2>. QED BY <2>2, <2>3
<1>. HIDE DEF a, b
<1>2. /\ CalculateDeclaredValue(c.total, c.fixed, c.ratio, c.least, c.most) =
             LET declared == IF c.fixed > 0 THEN c.fixed ELSE a IN
             IF c.least > 0 /\ declared < c.least THEN c.least
             ELSE IF c.most > 0 /\ declared > c.most THEN c.most ELSE declared
      /\ CalculateDeclaredValue(c.total + 1, c.fixed, c.ratio, c.least, c.most) =
             LET declared == IF c.fixed > 0 THEN c.fixed ELSE b IN
             IF c.least > 0 /\ declared < c.least THEN c.least
             ELSE IF c.most > 0 /\ declared > c.most THEN c.most ELSE declared
  BY DEF CalculateDeclaredValue, a, b
<1>. QED BY <1>1, <1>2 DEF DeclaredIsSound

-----------------------------------------------------------------------------
(* Whatever they take *)

DeclarationRules(Names) ==
    [type : {"country_channel"}, country : Names, channel : Names]
    \cup [type : {"country_category"}, country : Names, category : Names]
    \cup [type : {"country_weight"}, country : Names, min : Nat, max : Nat]
    \cup [type : {"country_default"}, country : Names]
    \cup [type : {"global_default"}]

FifoArguments == [of : {"fifo"}, layers : Seq([quantity : Nat, cost : Nat]), sold : Nat]
ReplenishArguments ==
    [of : {"replenish"}, available : Int, sales : Int, supply : Int, safety : Int, lead : Int]
FreightArguments ==
    [of : {"freight"}, weight : Nat,
     terms : [first : Nat, firstPrice : Nat, unit : Nat \ {0}, unitPrice : Nat, min : Nat]]
RateArguments == {c \in [of : {"rate"}, outcomes : Seq(BOOLEAN) \ {<<>>}] : Len(c.outcomes) < 20000}
LevelArguments == [of : {"level"}, amount : Int, jit : BOOLEAN, rating : Int]
DeclarationArguments(Names) ==
    [of : {"declaration"}, rules : Seq(DeclarationRules(Names)),
     goods : [country : Names, channel : Names, category : Names, weight : Nat]]
BidArguments ==
    [of : {"bid"}, strategy : {"fixed", "target_acos", "dynamic_down", "dynamic_up_down", "rule_based"},
     bid : 0..1000, acos : Nat, target : Nat, conversion : Nat, ruled : Nat]
DiscountArguments ==
    {c \in [of : {"discount"}, amount : Nat,
            promo : [type : {"percentage", "fixed_amount", "free_shipping"}, value : Nat,
                     minimum : Nat, maximum : Nat]] :
        c.promo.type = "percentage" => c.promo.value <= 100}
BudgetArguments ==
    [of : {"budget"}, total : Nat, campaigns : Seq([weight : Nat \ {0}, least : Nat]) \ {<<>>}]
ContentArguments == Contents
OverallArguments == [of : {"overall"}, title : 0..100, keyword : 0..100, image : 0..100, bullet : 0..100]
ImagesArguments(Names) == [of : {"images"}, main : Names, images : Seq(Names \cup Pictures)]
HealthArguments == HealthCalls
CustomerArguments == CustomerCalls
RiskArguments(Names) == [of : {"risk"}, flags : SUBSET RemarkNames]
EvaluationArguments ==
    [of : {"evaluation"}, large : BOOLEAN, many : BOOLEAN, buyer : {"known", "unknown"}, others : Nat]
PurchasingArguments == PurchasingCalls
ClearanceArguments == [of : {"clearance"}, stock : Nat, sales : Int, cost : Nat, price : Nat]
AggregationArguments == [of : {"aggregation"}, hours : Seq([day : Nat, value : Nat]), runs : Seq(Nat)]
FeeArguments(Names) == [of : {"fee"}, strategies : Seq(FeeStrategySet(Names)), call : FeeCallSet(Names)]
DeclaredArguments ==
    {c \in [of : {"declared"}, total : Nat, fixed : Nat, ratio : Nat, least : Nat, most : Nat] :
        c.least <= c.most \/ c.most = 0}
\* What the calculations of Figures take.
FigureArguments(Names) ==
    FifoArguments \cup ReplenishArguments \cup FreightArguments \cup RateArguments
    \cup LevelArguments \cup DeclarationArguments(Names) \cup BidArguments \cup DiscountArguments
    \cup BudgetArguments

\* What the calculations of Assessments take.
AssessmentArguments(Names) ==
    ContentArguments \cup OverallArguments \cup ImagesArguments(Names) \cup HealthArguments
    \cup CustomerArguments \cup RiskArguments(Names) \cup EvaluationArguments
    \cup PurchasingArguments \cup ClearanceArguments \cup AggregationArguments
    \cup FeeArguments(Names) \cup DeclaredArguments

\* What the run checks of one call.
Agrees(c) == CalculationIsSound(c) /\ AssessmentIsSound(c) /\ DecisionIsSound(c)

\* The statements about the calculations of Figures hold for all they take.
LEMMA FiguresAgree == ASSUME NEW Names, NEW c \in FigureArguments(Names) PROVE Agrees(c)
<1>1. CASE c \in FifoArguments
  <2>1. c.of = "fifo"
    BY <1>1 DEF FifoArguments
  <2>2. FifoIsSound(c)
    BY <1>1, FifoHolds DEF FifoArguments
  <2>. QED BY <2>1, <2>2 DEF Agrees, CalculationIsSound, AssessmentIsSound, DecisionIsSound
<1>2. CASE c \in ReplenishArguments
  <2>1. c.of = "replenish"
    BY <1>2 DEF ReplenishArguments
  <2>2. ReplenishmentIsSound(c)
    BY <1>2, ReplenishmentHolds DEF ReplenishArguments
  <2>. QED BY <2>1, <2>2 DEF Agrees, CalculationIsSound, AssessmentIsSound, DecisionIsSound
<1>3. CASE c \in FreightArguments
  <2>1. c.of = "freight"
    BY <1>3 DEF FreightArguments
  <2>2. FreightIsSound(c)
    BY <1>3, FreightHolds DEF FreightArguments
  <2>. QED BY <2>1, <2>2 DEF Agrees, CalculationIsSound, AssessmentIsSound, DecisionIsSound
<1>4. CASE c \in RateArguments
  <2>1. c.of = "rate"
    BY <1>4 DEF RateArguments
  <2>2. RateIsSound(c)
    BY <1>4, RateHolds DEF RateArguments
  <2>. QED BY <2>1, <2>2 DEF Agrees, CalculationIsSound, AssessmentIsSound, DecisionIsSound
<1>5. CASE c \in LevelArguments
  <2>1. c.of = "level"
    BY <1>5 DEF LevelArguments
  <2>2. LevelIsSound(c)
    BY <1>5, LevelHolds DEF LevelArguments
  <2>. QED BY <2>1, <2>2 DEF Agrees, CalculationIsSound, AssessmentIsSound, DecisionIsSound
<1>6. CASE c \in DeclarationArguments(Names)
  <2>1. c.of = "declaration" /\ c.rules \in Seq(DeclarationRules(Names))
    BY <1>6 DEF DeclarationArguments
  <2>2. \A rule \in DeclarationRules(Names) : rule.type \in Kinds
    BY DEF DeclarationRules, Kinds
  <2>3. DeclarationIsSound(c)
    BY <2>1, <2>2, DeclarationHolds
  <2>. QED BY <2>1, <2>3 DEF Agrees, CalculationIsSound, AssessmentIsSound, DecisionIsSound
<1>7. CASE c \in BidArguments
  <2>1. c.of = "bid"
    BY <1>7 DEF BidArguments
  <2>2. BidIsSound(c)
    BY <1>7, BidHolds DEF BidArguments
  <2>. QED BY <2>1, <2>2 DEF Agrees, CalculationIsSound, AssessmentIsSound, DecisionIsSound
<1>8. CASE c \in DiscountArguments
  <2>1. c.of = "discount"
    BY <1>8 DEF DiscountArguments
  <2>2. DiscountIsSound(c)
    BY <1>8, DiscountHolds DEF DiscountArguments
  <2>. QED BY <2>1, <2>2 DEF Agrees, CalculationIsSound, AssessmentIsSound, DecisionIsSound
<1>9. CASE c \in BudgetArguments
  <2>1. c.of = "budget"
    BY <1>9 DEF BudgetArguments
  <2>2. BudgetIsSound(c)
    BY <1>9, BudgetHolds DEF BudgetArguments
  <2>. QED BY <2>1, <2>2 DEF Agrees, CalculationIsSound, AssessmentIsSound, DecisionIsSound
<1>. QED
  BY <1>1, <1>2, <1>3, <1>4, <1>5, <1>6, <1>7, <1>8, <1>9 DEF FigureArguments

\* The statements about the calculations of Assessments hold for all they take.
LEMMA AssessmentsAgree == ASSUME NEW Names, NEW c \in AssessmentArguments(Names) PROVE Agrees(c)
<1>1. CASE c \in ContentArguments
  <2>1. c.of = "content"
    BY <1>1 DEF ContentArguments, Contents
  <2>2. ContentIsSound(c)
    BY <1>1, ContentHolds DEF ContentArguments
  <2>. QED BY <2>1, <2>2 DEF Agrees, CalculationIsSound, AssessmentIsSound, DecisionIsSound
<1>2. CASE c \in OverallArguments
  <2>1. c.of = "overall"
    BY <1>2 DEF OverallArguments
  <2>2. OverallIsSound(c)
    BY <1>2, OverallHolds DEF OverallArguments
  <2>. QED BY <2>1, <2>2 DEF Agrees, CalculationIsSound, AssessmentIsSound, DecisionIsSound
<1>3. CASE c \in ImagesArguments(Names)
  <2>1. c.of = "images"
    BY <1>3 DEF ImagesArguments
  <2>2. ImagesAreSound(c)
    BY <1>3, ImagesHolds DEF ImagesArguments
  <2>. QED BY <2>1, <2>2 DEF Agrees, CalculationIsSound, AssessmentIsSound, DecisionIsSound
<1>4. CASE c \in HealthArguments
  <2>1. c.of = "health"
    BY <1>4 DEF HealthArguments, HealthCalls
  <2>2. HealthIsSound(c)
    BY <1>4, HealthHolds DEF HealthArguments
  <2>. QED BY <2>1, <2>2 DEF Agrees, CalculationIsSound, AssessmentIsSound, DecisionIsSound
<1>5. CASE c \in CustomerArguments
  <2>1. c.of = "customer"
    BY <1>5 DEF CustomerArguments, CustomerCalls
  <2>2. CustomerIsSound(c)
    BY <1>5, CustomerHolds DEF CustomerArguments
  <2>. QED BY <2>1, <2>2 DEF Agrees, CalculationIsSound, AssessmentIsSound, DecisionIsSound
<1>6. CASE c \in RiskArguments(Names)
  <2>1. c.of = "risk"
    BY <1>6 DEF RiskArguments
  <2>2. RiskIsSound(c)
    BY <1>6, RiskHolds DEF RiskArguments
  <2>. QED BY <2>1, <2>2 DEF Agrees, CalculationIsSound, AssessmentIsSound, DecisionIsSound
<1>7. CASE c \in EvaluationArguments
  <2>1. c.of = "evaluation"
    BY <1>7 DEF EvaluationArguments
  <2>2. EvaluationIsSound(c)
    BY <1>7, EvaluationHolds DEF EvaluationArguments
  <2>. QED BY <2>1, <2>2 DEF Agrees, CalculationIsSound, AssessmentIsSound, DecisionIsSound
<1>8. CASE c \in PurchasingArguments
  <2>1. c.of = "purchasing"
    BY <1>8 DEF PurchasingArguments, PurchasingCalls
  <2>2. PurchasingIsSound(c)
    BY <1>8, PurchasingHolds DEF PurchasingArguments
  <2>. QED BY <2>1, <2>2 DEF Agrees, CalculationIsSound, AssessmentIsSound, DecisionIsSound
<1>9. CASE c \in ClearanceArguments
  <2>1. c.of = "clearance"
    BY <1>9 DEF ClearanceArguments
  <2>2. ClearanceIsSound(c)
    BY <1>9, ClearanceHolds DEF ClearanceArguments
  <2>. QED BY <2>1, <2>2 DEF Agrees, CalculationIsSound, AssessmentIsSound, DecisionIsSound
<1>10. CASE c \in AggregationArguments
  <2>1. c.of = "aggregation"
    BY <1>10 DEF AggregationArguments
  <2>2. AggregationIsSound(c)
    BY <1>10, AggregationHolds DEF AggregationArguments
  <2>. QED BY <2>1, <2>2 DEF Agrees, CalculationIsSound, AssessmentIsSound, DecisionIsSound
<1>11. CASE c \in FeeArguments(Names)
  <2>1. c.of = "fee"
    BY <1>11 DEF FeeArguments
  <2>2. FeeIsSound(c)
    BY <1>11, FeeHolds DEF FeeArguments
  <2>. QED BY <2>1, <2>2 DEF Agrees, CalculationIsSound, AssessmentIsSound, DecisionIsSound
<1>12. CASE c \in DeclaredArguments
  <2>1. c.of = "declared"
    BY <1>12 DEF DeclaredArguments
  <2>2. DeclaredIsSound(c)
    BY <1>12, DeclaredHolds DEF DeclaredArguments
  <2>. QED BY <2>1, <2>2 DEF Agrees, CalculationIsSound, AssessmentIsSound, DecisionIsSound
<1>. QED
  BY <1>1, <1>2, <1>3, <1>4, <1>5, <1>6, <1>7, <1>8, <1>9, <1>10, <1>11, <1>12 DEF AssessmentArguments

-----------------------------------------------------------------------------
(* The calls that the run tries *)

\* A list up to a bound is a list.
LEMMA BoundedIn ==
    ASSUME NEW S, NEW T, S \subseteq T, NEW n \in Nat
    PROVE  \A s \in BoundedSeq(S, n) : s \in Seq(T) /\ Len(s) <= n
<1>. TAKE s \in BoundedSeq(S, n)
<1>1. PICK m \in 0..n : s \in [1..m -> S]
  BY DEF BoundedSeq, SeqOf
<1>2. m \in Nat /\ m <= n /\ s \in [1..m -> T]
  BY <1>1
<1>. QED BY <1>2

\* So are those that are tried.
LEMMA ListsIn == ASSUME NEW S, NEW T, S \subseteq T PROVE Lists(S) \subseteq Seq(T)
  BY FiguresAssumption, BoundedIn DEF Lists

\* The names and words in the calls.
Words ==
    {"", "a", "b", "c", "f", "g", "h", "i", "o", "s", "u", "v", "x", "y", "1", "*", "any", "en", "de", "full",
     "sea", "air", "toys", "none", "front", "plain", "short", "long", "other", "size", "colour",
     "damaged", "quality_issue", "wrong_item", "missing", "low", "medium", "high", "critical",
     "draft", "active", "inactive", "in_transit", "returned", "prohibited", "trademark"}

\* Which they are.
LEMMA TheWords ==
    /\ {"", "a", "b", "c", "f", "g", "h", "i", "o", "s", "u", "v", "x", "y", "1", "*", "any", "en", "de", "full"} \subseteq Words
    /\ {"sea", "air", "toys", "none", "front", "plain", "short", "long", "other", "size", "colour"} \subseteq Words
    /\ {"damaged", "quality_issue", "wrong_item", "missing", "low", "medium", "high", "critical"} \subseteq Words
    /\ {"draft", "active", "inactive", "in_transit", "returned", "prohibited", "trademark"} \subseteq Words
  BY DEF Words

FigureCalls ==
    Costs \cup Replenishments \cup Freights \cup Rollouts \cup Purchases \cup Exports \cup Bids
    \cup Discounts \cup Budgets

\* The calls of Figures take arguments of theirs.
LEMMA FigureCallsTake == FigureCalls \subseteq FigureArguments(Words)
<1>1. Costs \subseteq FifoArguments
  <2>1. Units \subseteq Nat /\ {1, 3} \subseteq Nat /\ 0..7 \subseteq Nat
    BY FiguresAssumption
  <2>2. [quantity : Units, cost : {1, 3}] \subseteq [quantity : Nat, cost : Nat]
    BY ONLY <2>1
  <2>3. Lists([quantity : Units, cost : {1, 3}]) \subseteq Seq([quantity : Nat, cost : Nat])
    BY <2>2, ListsIn
  <2>. DEFINE L == Lists([quantity : Units, cost : {1, 3}])
              S == Seq([quantity : Nat, cost : Nat])
  <2>. HIDE DEF L, S
  <2>4. [of : {"fifo"}, layers : L, sold : 0..7] \subseteq [of : {"fifo"}, layers : S, sold : Nat]
    <3>. L \subseteq S
      BY <2>3 DEF L, S
    <3>. QED BY ONLY <2>1, L \subseteq S
  <2>. QED BY <2>4 DEF Costs, FifoArguments, L, S
<1>2. Replenishments \subseteq ReplenishArguments
  BY DEF Replenishments, ReplenishArguments
<1>3. Freights \subseteq FreightArguments
  BY DEF Freights, FreightArguments
<1>4. Rollouts \subseteq RateArguments
  <2>1. \A s \in BoundedSeq(BOOLEAN, 6) : s \in Seq(BOOLEAN) /\ Len(s) <= 6
    BY BoundedIn
  <2>. QED BY <2>1 DEF Rollouts, RateArguments
<1>5. Purchases \subseteq LevelArguments
  BY DEF Purchases, LevelArguments
<1>6. Exports \subseteq DeclarationArguments(Words)
  <2>1. {"x", "y", "sea", "air", "toys"} \subseteq Words
    BY TheWords
  <2>0. {0, 1, 2} \subseteq Nat
    OBVIOUS
  <2>2. Rules \subseteq DeclarationRules(Words)
    BY ONLY <2>0, <2>1 DEF Rules, DeclarationRules
  <2>3. Lists(Rules) \subseteq Seq(DeclarationRules(Words))
    BY <2>2, ListsIn
  <2>. QED BY ONLY <2>0, <2>1, <2>3 DEF Exports, DeclarationArguments
<1>7. Bids \subseteq BidArguments
  <2>1. Rates \subseteq Nat /\ {0, 10} \subseteq Nat /\ {5, 200, 2000} \subseteq Nat /\ {5, 100, 999} \subseteq 0..1000
    BY FiguresAssumption
  <2>2. ASSUME NEW c \in Bids PROVE c \in BidArguments
    <3>1. c.bid \in {5, 100, 999}
      BY <2>2 DEF Bids
    <3>2. c.bid \in 0..1000
      BY <3>1
    <3>3. c.acos \in Nat /\ c.target \in Nat /\ c.conversion \in Nat /\ c.ruled \in Nat
      <4>1. c.acos \in Rates /\ c.target \in Rates /\ c.conversion \in {0, 10} /\ c.ruled \in {5, 200, 2000}
        BY ONLY <2>2 DEF Bids
      <4>2. Rates \subseteq Nat
        BY FiguresAssumption
      <4>3. c.acos \in Nat /\ c.target \in Nat
        <5>. DEFINE n == c.acos
                    m == c.target
        <5>1. n \in Rates /\ m \in Rates
          BY <4>1
        <5>. HIDE DEF n, m
        <5>2. n \in Nat /\ m \in Nat
          BY ONLY <4>2, <5>1
        <5>. QED BY <5>2 DEF n, m
      <4>4. c.conversion \in Nat /\ c.ruled \in Nat
        <5>. DEFINE n == c.conversion
                    m == c.ruled
        <5>1. n \in {0, 10} /\ m \in {5, 200, 2000}
          BY <4>1
        <5>. HIDE DEF n, m
        <5>2. n \in Nat /\ m \in Nat
          BY ONLY <5>1
        <5>. QED BY <5>2 DEF n, m
      <4>. QED BY <4>3, <4>4
    <3>4. /\ c.of \in {"bid"}
          /\ c.strategy \in {"fixed", "target_acos", "dynamic_down", "dynamic_up_down", "rule_based"}
          /\ c = [of |-> c.of, strategy |-> c.strategy, bid |-> c.bid, acos |-> c.acos,
                   target |-> c.target, conversion |-> c.conversion, ruled |-> c.ruled]
      BY ONLY <2>2 DEF Bids
    <3>. QED BY ONLY <3>2, <3>3, <3>4 DEF BidArguments
  <2>. QED BY <2>2
<1>8. Discounts \subseteq DiscountArguments
  <2>1. Units \subseteq Nat /\ {0, 2} \subseteq Nat /\ {0, 1} \subseteq Nat /\ {2, 50} \subseteq Nat
    BY FiguresAssumption
  <2>2. ASSUME NEW c \in Discounts PROVE c \in DiscountArguments
    <3>1. c.promo.value \in {2, 50}
      BY <2>2 DEF Discounts
    <3>2. c.promo.value <= 100
      BY <3>1
    <3>. QED BY ONLY <2>1, <2>2, <3>2 DEF Discounts, DiscountArguments
  <2>. QED BY <2>2
<1>9. Budgets \subseteq BudgetArguments
  <2>1. Campaigns \subseteq [weight : Nat \ {0}, least : Nat]
    BY DEF Campaigns
  <2>2. Lists(Campaigns) \subseteq Seq([weight : Nat \ {0}, least : Nat])
    BY <2>1, ListsIn
  <2>. QED BY <2>2 DEF Budgets, BudgetArguments
<1>. QED
  BY <1>1, <1>2, <1>3, <1>4, <1>5, <1>6, <1>7, <1>8, <1>9 DEF FigureCalls, FigureArguments

AssessmentCalls ==
    Contents \cup Overalls \cup Galleries \cup Healths \cup Customers \cup Suspicions
    \cup Evaluations \cup Purchasings \cup Clearances \cup Aggregations \cup Fees
    \cup DeclaredValues

\* The calls of Assessments take arguments of theirs.
LEMMA AssessmentCallsTake == AssessmentCalls \subseteq AssessmentArguments(Words)
<1>1. Contents \subseteq ContentArguments
  BY DEF ContentArguments
<1>2. Overalls \subseteq OverallArguments
  BY DEF Overalls, OverallArguments
<1>3. Galleries \subseteq ImagesArguments(Words)
  <2>1. BoundedSeq(Pictures, 5) \subseteq Seq(Words \cup Pictures)
    BY BoundedIn
  <2>. QED BY <2>1, ZenonT(30) DEF Galleries, ImagesArguments, Words
<1>4. Healths \subseteq HealthArguments
  BY DEF Healths, HealthArguments, HealthCalls
<1>5. Customers \subseteq CustomerArguments
  BY DEF Customers, CustomerArguments, CustomerCalls, Silences
<1>6. Suspicions \subseteq RiskArguments(Words)
  BY RemarksAre DEF Suspicions, RiskArguments
<1>7. Evaluations \subseteq EvaluationArguments
  BY DEF Evaluations, EvaluationArguments
<1>8. Purchasings \subseteq PurchasingArguments
  BY DEF Purchasings, PurchasingArguments, PurchasingCalls
<1>9. Clearances \subseteq ClearanceArguments
  BY DEF Clearances, ClearanceArguments
<1>10. Aggregations \subseteq AggregationArguments
  <2>1. Hours \subseteq [day : Nat, value : Nat] /\ {1, 2} \subseteq Nat
    BY DEF Hours
  <2>2. Lists(Hours) \subseteq Seq([day : Nat, value : Nat]) /\ Lists({1, 2}) \subseteq Seq(Nat)
    BY <2>1, ListsIn
  <2>. QED BY <2>2 DEF Aggregations, AggregationArguments
<1>11. Fees \subseteq FeeArguments(Words)
  <2>1. AllTiers \subseteq AdjoiningTiers
    <3>1. ASSUME NEW by, NEW charge, NEW t \in TierLists(by, charge),
                 <<by, charge>> \in {<<"amount", "rate">>, <<"weight", "fee">>, <<"weight", "fee_per_kg">>,
                                    <<"days", "rate_per_unit_per_day">>}
          PROVE  t \in AdjoiningTiers
      <4>1. PICK n \in {2, 5} :
                t = <<[by |-> by, charge |-> charge, min |-> 0, max |-> 2, n |-> 6],
                      [by |-> by, charge |-> charge, min |-> 2, max |-> 4, n |-> n],
                      [by |-> by, charge |-> charge, min |-> 4, max |-> 0, n |-> 1]>>
        BY <3>1 DEF TierLists
      <4>0. by \in Measures /\ charge \in Charges
        BY <3>1 DEF Measures, Charges
      <4>2. \A i, k \in Nat, m \in Nat : [by |-> by, charge |-> charge, min |-> i, max |-> k, n |-> m] \in Tier
        BY <4>0 DEF Tier
      <4>. QED BY <4>1, <4>2 DEF AdjoiningTiers
    <3>. QED BY <3>1 DEF AllTiers
  <2>2. {"any", "x", "y"} \subseteq Words
    BY TheWords
  <2>3. Strategies \subseteq FeeStrategySet(Words)
    <3>. DEFINE tiered == [method : {"tiered"}, tiers : AllTiers, inForce : {TRUE}, platform : {"any"},
                           least : {0, 300}, most : {0, 500}]
                flat == [method : {"percentage", "fixed", "formula"}, n : {3}, inForce : BOOLEAN,
                         platform : {"any", "x"}, least : {0, 300}, most : {500}]
    <3>1. ASSUME NEW s \in tiered PROVE s \in FeeStrategySet(Words)
      <4>1. s.least \in {0, 300} /\ s.most \in {0, 500}
        OBVIOUS
      <4>2. s.least \in Nat /\ s.most \in Nat /\ (s.least <= s.most \/ s.most = 0)
        BY <4>1
      <4>3. /\ s.method \in {"tiered"} /\ s.tiers \in AllTiers /\ s.inForce \in BOOLEAN /\ s.platform \in {"any"}
            /\ s = [method |-> s.method, tiers |-> s.tiers, inForce |-> s.inForce, platform |-> s.platform,
                     least |-> s.least, most |-> s.most]
        OBVIOUS
      <4>. QED BY ONLY <2>1, <2>2, <4>2, <4>3 DEF FeeStrategySet
    <3>2. ASSUME NEW s \in flat PROVE s \in FeeStrategySet(Words)
      <4>1. s.least \in {0, 300} /\ s.most \in {500} /\ s.n \in {3}
        OBVIOUS
      <4>2. s.least \in Nat /\ s.most \in Nat /\ s.n \in Nat /\ s.least <= s.most
        BY <4>1
      <4>3. /\ s.method \in {"percentage", "fixed", "formula"} /\ s.inForce \in BOOLEAN /\ s.platform \in {"any", "x"}
            /\ s = [method |-> s.method, n |-> s.n, inForce |-> s.inForce, platform |-> s.platform,
                     least |-> s.least, most |-> s.most]
        OBVIOUS
      <4>. QED BY ONLY <2>2, <4>2, <4>3 DEF FeeStrategySet
    <3>. QED BY <3>1, <3>2, ZenonT(30) DEF Strategies
  <2>4. BoundedSeq(Strategies, 2) \subseteq Seq(FeeStrategySet(Words))
    BY <2>3, BoundedIn
  <2>. QED BY ONLY <2>2, <2>4 DEF Fees, FeeArguments, FeeCallSet
<1>12. DeclaredValues \subseteq DeclaredArguments
  BY DEF DeclaredValues, DeclaredArguments
<1>. QED
  BY <1>1, <1>2, <1>3, <1>4, <1>5, <1>6, <1>7, <1>8, <1>9, <1>10, <1>11, <1>12 DEF AssessmentCalls, AssessmentArguments

=============================================================================
