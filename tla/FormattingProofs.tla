-------------------------- MODULE FormattingProofs --------------------------
(***************************************************************************)
(* What the loops of the formatting code compute, for every input.         *)
(*                                                                         *)
(* Induction is by the set of the numbers a fact holds of, and a loop is a *)
(* function on the number of its rounds: both are first-order.             *)
(***************************************************************************)
EXTENDS Formatting, FiniteSetTheorems, SequenceTheorems, WellFoundedInduction,
        TLAPS

-----------------------------------------------------------------------------
(* Induction and recursion.                                                *)

\* A nonempty set of numbers has a least one: of the intervals up to one of
\* them, the smallest ends there.
LEMMA LeastNumber ==
  ASSUME NEW S \in SUBSET Nat, S # {}
  PROVE  \E n \in S : \A k \in S : n <= k
<1>1. PICK m \in S : TRUE
  OBVIOUS
<1> DEFINE T == {0..k : k \in {j \in S : j <= m}}
<1>2. IsWellFoundedOn(StrictSubsetOrdering(0..m), FiniteSubsetsOf(0..m))
  BY FS_StrictSubsetOrderingWellFounded
<1>3. T \subseteq FiniteSubsetsOf(0..m)
  <2>1. ASSUME NEW k \in S, k <= m
        PROVE  IsFiniteSet(0..k) /\ 0..k \subseteq 0..m
    BY <1>1, <2>1, FS_Interval
  <2> QED
    BY <2>1 DEF FiniteSubsetsOf
<1>4. T # {}
  BY <1>1
<1>5. PICK x \in T : \A y \in T : <<y, x>> \notin StrictSubsetOrdering(0..m)
  BY <1>2, <1>3, <1>4, WFMin
<1>6. PICK n \in S : n <= m /\ x = 0..n
  BY <1>5
<1>7. ASSUME NEW k \in S, k < n
      PROVE  FALSE
  <2>1. 0..k \in T
    BY <1>1, <1>6, <1>7
  <2>2. 0..k \subseteq 0..n /\ 0..k # 0..n
    BY <1>7
  <2>3. <<0..k, 0..n>> \in StrictSubsetOrdering(0..m)
    BY <1>6, <2>1, <2>2, <1>1 DEF StrictSubsetOrdering
  <2> QED
    BY <1>5, <1>6, <2>1, <2>3
<1> QED
  BY <1>7

\* What holds of the first number, and of the next of each it holds of, holds of
\* all of them.
LEMMA InductionUpTo ==
  ASSUME NEW a \in Nat, NEW N \in Nat, NEW S,
         a \in S, \A n \in a..(N - 1) : n \in S => n + 1 \in S
  PROVE  \A n \in a..N : n \in S
<1> DEFINE Rest == {n \in a..N : n \notin S}
<1>1. SUFFICES ASSUME Rest # {} PROVE FALSE
  OBVIOUS
<1>2. Rest \in SUBSET Nat
  OBVIOUS
<1>3. PICK n \in Rest : \A k \in Rest : n <= k
  BY <1>1, <1>2, LeastNumber
<1>4. n # a /\ n - 1 \in a..(N - 1)
  BY <1>3
<1>5. n - 1 \in S
  BY <1>3, <1>4
<1> QED
  BY <1>3, <1>4, <1>5

\* What the rounds of a loop may be, and the function of the round it computes:
\* the base first, then what each round makes of what the one before it left.
Rounds(N, V) == [1..N -> [V -> V]]

IsLoop(f, N, V, base, round) ==
  /\ f \in [0..N -> V]
  /\ f[0] = base
  /\ \A n \in 1..N : f[n] = round[n][f[n - 1]]

\* Every loop computes one.
LEMMA LoopExists ==
  ASSUME NEW N \in Nat, NEW V, NEW base \in V, NEW round \in Rounds(N, V)
  PROVE  \E f : IsLoop(f, N, V, base, round)
<1> DEFINE S == {m \in 0..N : \E f : IsLoop(f, m, V, base, round)}
<1>1. 0 \in S
  <2>1. IsLoop([n \in 0..0 |-> base], 0, V, base, round)
    BY DEF IsLoop
  <2> QED
    BY <2>1
<1>2. ASSUME NEW m \in 0..(N - 1), m \in S
      PROVE  m + 1 \in S
  <2>1. PICK f : IsLoop(f, m, V, base, round)
    BY <1>2
  <2> DEFINE g == [n \in 0..(m + 1) |-> IF n <= m THEN f[n]
                                        ELSE round[m + 1][f[m]]]
  <2>2. f[m] \in V /\ round[m + 1] \in [V -> V]
    BY <2>1 DEF IsLoop, Rounds
  <2>3. g \in [0..(m + 1) -> V]
    <3>1. \A n \in 0..m : f[n] \in V
      BY <2>1 DEF IsLoop
    <3>2. round[m + 1][f[m]] \in V
      BY <2>2
    <3> QED
      BY <3>1, <3>2
  <2>4. g[0] = base
    BY <2>1 DEF IsLoop
  <2>5. ASSUME NEW n \in 1..(m + 1)
        PROVE  g[n] = round[n][g[n - 1]]
    <3>1. n - 1 \in 0..m /\ g[n - 1] = f[n - 1]
      OBVIOUS
    <3>2. CASE n <= m
      BY <2>1, <3>1, <3>2 DEF IsLoop
    <3>3. CASE n = m + 1
      BY <3>1, <3>3
    <3> QED
      BY <3>2, <3>3
  <2> HIDE DEF g
  <2>6. IsLoop(g, m + 1, V, base, round)
    BY <2>3, <2>4, <2>5 DEF IsLoop
  <2>7. m + 1 \in 0..N
    OBVIOUS
  <2> QED
    BY <2>6, <2>7
<1> HIDE DEF S
<1>3. \A m \in 0..N : m \in S
  BY <1>1, <1>2, InductionUpTo
<1>4. N \in S
  BY <1>3
<1> QED
  BY <1>4 DEF S

-----------------------------------------------------------------------------
(* Names.                                                                  *)

\* A round of joinNames.
Added(s, c) == IF Contains(s, c) THEN s ELSE Append(s, c)

\* It adds a name that is not there yet, and nothing else.
LEMMA NameAdded ==
  ASSUME NEW D, NEW s \in Seq(D), NEW c \in D, IsInjective(s)
  PROVE  /\ Added(s, c) \in Seq(D)
         /\ IsInjective(Added(s, c))
         /\ Range(Added(s, c)) = Range(s) \cup {c}
<1>1. Len(s) \in Nat /\ DOMAIN s = 1..Len(s)
  OBVIOUS
<1> DEFINE t == Added(s, c)
<1>2. CASE Contains(s, c)
  <2>1. c \in Range(s)
    BY <1>1, <1>2 DEF Contains, Range
  <2> QED
    BY <1>2, <2>1 DEF Added
<1>3. CASE ~ Contains(s, c)
  <2>1. /\ t \in Seq(D) /\ Len(t) = Len(s) + 1 /\ DOMAIN t = 1..Len(t)
        /\ t[Len(t)] = c /\ \A i \in 1..Len(s) : t[i] = s[i]
    BY <1>1, <1>3 DEF Added
  <2>2. \A i \in 1..Len(s) : s[i] # c
    BY <1>3 DEF Contains
  <2> HIDE DEF t
  <2>3. \A i \in DOMAIN t : i \in 1..Len(s) \/ i = Len(t)
    BY <1>1, <2>1
  <2>4. IsInjective(t)
    BY <1>1, <2>1, <2>2, <2>3 DEF IsInjective
  <2>5. Range(t) = Range(s) \cup {c}
    BY <1>1, <2>1, <2>3 DEF Range
  <2> QED
    BY <2>1, <2>4, <2>5 DEF t
<1> QED
  BY <1>2, <1>3

\* The announcement names each city of the codes, and names it once
\* (publisher.go:263).
THEOREM JoinNamesCorrect ==
  ASSUME NEW C, NEW codes \in Seq(C)
  PROVE  LET names == JoinNames(codes)
             cities == {AirportName(codes[j]) : j \in DOMAIN codes}
         IN  /\ names \in Seq(cities)
             /\ IsInjective(names)
             /\ Len(names) = Cardinality(cities)
<1> DEFINE N == Len(codes)
           city(n) == AirportName(codes[n])
           Cities == {city(j) : j \in 1..N}
           next(s, n) == Added(s, city(n))
           names == CHOOSE f : f = [n \in 0..N |->
                                      IF n = 0 THEN <<>> ELSE next(f[n - 1], n)]
<1>1. N \in Nat /\ DOMAIN codes = 1..N
  OBVIOUS
<1>2. JoinNames(codes) = names[N]
  BY DEF JoinNames, Added
<1>3. \A s \in Seq(Cities), n \in 1..N : next(s, n) \in Seq(Cities)
  <2> HIDE DEF city, N
  <2>1. \A n \in 1..N : city(n) \in Cities
    OBVIOUS
  <2> HIDE DEF Cities
  <2> QED
    BY <2>1 DEF Added
<1>4. \E f : f = [n \in 0..N |-> IF n = 0 THEN <<>> ELSE next(f[n - 1], n)]
  <2> DEFINE V == Seq(Cities)
             base == <<>>
             round == [n \in 1..N |-> [s \in V |-> next(s, n)]]
  <2>1. base \in V
    OBVIOUS
  <2> HIDE DEF next, N, V, base
  <2>2. round \in Rounds(N, V)
    BY <1>3 DEF Rounds, V
  <2>3. \A n \in 1..N, s \in V : round[n][s] = next(s, n)
    OBVIOUS
  <2> HIDE DEF round
  <2>4. PICK f : IsLoop(f, N, V, base, round)
    BY <1>1, <2>1, <2>2, LoopExists
  <2>5. \A n \in 0..N : f[n] = IF n = 0 THEN base ELSE next(f[n - 1], n)
    BY <1>1, <2>3, <2>4 DEF IsLoop
  <2>6. f = [n \in 0..N |-> IF n = 0 THEN base ELSE next(f[n - 1], n)]
    BY <2>4, <2>5 DEF IsLoop
  <2> QED
    BY <2>6 DEF base
<1> HIDE DEF next
<1>5. names = [n \in 0..N |-> IF n = 0 THEN <<>> ELSE next(names[n - 1], n)]
  BY <1>4
<1> HIDE DEF names
<1>6. names[0] = <<>> /\ \A n \in 1..N : names[n] = next(names[n - 1], n)
  <2> HIDE DEF N
  <2> QED
    BY <1>1, <1>5
<1> DEFINE Joined(n) == /\ names[n] \in Seq(Cities)
                        /\ IsInjective(names[n])
                        /\ Range(names[n]) = {city(j) : j \in 1..n}
           S == {n \in 0..N : Joined(n)}
<1>7. 0 \in S
  <2>1. names[0] \in Seq(Cities) /\ DOMAIN names[0] = {}
    BY <1>6
  <2>2. Range(names[0]) = {}
    BY <2>1 DEF Range
  <2>3. IsInjective(names[0])
    BY <2>1 DEF IsInjective
  <2>4. {city(j) : j \in 1..0} = {}
    OBVIOUS
  <2> QED
    BY <1>1, <2>1, <2>2, <2>3, <2>4
<1>8. ASSUME NEW n \in 0..(N - 1), n \in S
      PROVE  n + 1 \in S
  <2> DEFINE s == names[n]
             c == city(n + 1)
  <2>1. names[n + 1] = Added(s, c)
    BY <1>1, <1>6 DEF next
  <2>2. s \in Seq(Cities) /\ IsInjective(s) /\ Range(s) = {city(j) : j \in 1..n}
    BY <1>8
  <2>3. c \in Cities
    BY <1>1
  <2>4. {city(j) : j \in 1..(n + 1)} = {city(j) : j \in 1..n} \cup {c}
    <3> HIDE DEF city
    <3> QED
      OBVIOUS
  <2>5. n + 1 \in 0..N
    BY <1>1
  <2> HIDE DEF s, c, Cities, N
  <2>6. /\ names[n + 1] \in Seq(Cities)
        /\ IsInjective(names[n + 1])
        /\ Range(names[n + 1]) = Range(s) \cup {c}
    BY <2>1, <2>2, <2>3, NameAdded
  <2> QED
    BY <2>2, <2>4, <2>5, <2>6
<1> HIDE DEF S
<1>9. \A n \in 0..N : n \in S
  BY <1>1, <1>7, <1>8, InductionUpTo
<1>10. /\ names[N] \in Seq(Cities)
       /\ IsInjective(names[N])
       /\ Range(names[N]) = Cities
  <2>1. N \in S
    BY <1>1, <1>9
  <2> QED
    BY <2>1 DEF S
<1>11. Len(names[N]) = Cardinality(Cities)
  <2> DEFINE s == names[N]
  <2> HIDE DEF s, Cities
  <2>1. s \in [1..Len(s) -> Cities] /\ Len(s) \in Nat
    BY <1>10 DEF s
  <2>2. s \in Bijection(1..Len(s), Cities)
    BY <1>10, <2>1 DEF s, Bijection, Injection, Surjection, IsInjective, Range
  <2>3. IsFiniteSet(1..Len(s)) /\ Cardinality(1..Len(s)) = Len(s)
    <3> DEFINE n == Len(s)
    <3> HIDE DEF n
    <3>1. n \in Nat
      BY <2>1 DEF n
    <3>2. IsFiniteSet(1..n) /\ Cardinality(1..n) = n
      BY <3>1, FS_Interval
    <3> QED
      BY <3>2 DEF n
  <2> QED
    BY <2>2, <2>3, FS_Bijection DEF ExistsBijection, s
<1> QED
  BY <1>1, <1>2, <1>10, <1>11

-----------------------------------------------------------------------------
(* Amounts.                                                                *)

\* The powers of b, one from the one before.
LEMMA PowerCorrect ==
  ASSUME NEW b \in Nat \ {0}
  PROVE  /\ Power(b)[0] = 1
         /\ \A n \in 0..IntBits : Power(b)[n] \in Nat \ {0}
         /\ \A n \in 1..IntBits : Power(b)[n] = b * Power(b)[n - 1]
<1> DEFINE V == Nat \ {0}
           round == [n \in 1..IntBits |-> [x \in V |-> b * x]]
           p == CHOOSE f : f = [n \in 0..IntBits |->
                                  IF n = 0 THEN 1 ELSE b * f[n - 1]]
<1>1. Power(b) = p
  BY DEF Power
<1>2. IntBits \in Nat /\ 1 \in V
  BY FormattingAssumption
<1>3. \A x \in V : b * x \in V
  OBVIOUS
<1> HIDE DEF V
<1>4. round \in Rounds(IntBits, V) /\ \A n \in 1..IntBits, x \in V : round[n][x] = b * x
  BY <1>3 DEF Rounds
<1> HIDE DEF round
<1>5. PICK f : IsLoop(f, IntBits, V, 1, round)
  BY <1>2, <1>4, LoopExists
<1>6. f = [n \in 0..IntBits |-> IF n = 0 THEN 1 ELSE b * f[n - 1]]
  <2>1. \A n \in 1..IntBits : n - 1 \in 0..IntBits
    BY <1>2
  <2>2. \A n \in 1..IntBits : f[n] = b * f[n - 1]
    BY <1>4, <1>5, <2>1 DEF IsLoop
  <2> QED
    BY <1>2, <1>5, <2>2 DEF IsLoop
<1>7. p = [n \in 0..IntBits |-> IF n = 0 THEN 1 ELSE b * p[n - 1]]
  BY <1>6
<1> HIDE DEF p
<1>8. p[0] = 1 /\ \A n \in 1..IntBits : p[n] = b * p[n - 1]
  BY <1>2, <1>7
<1> DEFINE S == {n \in 0..IntBits : p[n] \in V}
<1>9. 0 \in S /\ \A n \in 0..(IntBits - 1) : n \in S => n + 1 \in S
  <2>1. 0 \in S
    BY <1>2, <1>8
  <2>2. ASSUME NEW n \in 0..(IntBits - 1), n \in S PROVE n + 1 \in S
    <3>1. n + 1 \in 1..IntBits /\ (n + 1) - 1 = n
      BY <1>2
    <3>2. p[n + 1] = b * p[n]
      BY <1>8, <3>1
    <3> QED
      BY <1>3, <2>2, <3>1, <3>2
  <2> QED
    BY <2>1, <2>2
<1> HIDE DEF S
<1>10. \A n \in 0..IntBits : n \in S
  BY <1>2, <1>9, InductionUpTo
<1> QED
  BY <1>1, <1>8, <1>10 DEF S, V

\* An int64 has no more digits than bits.
LEMMA DigitsEnough ==
  /\ MinInt \in Int /\ MinInt < 0
  /\ \A n \in Int64 : Magnitude(n) \in Nat /\ Magnitude(n) < Power(10)[IntBits]
<1>1. IntBits \in Nat \ {0}
  BY FormattingAssumption
<1> DEFINE two == Power(2)
           ten == Power(10)
           S == {n \in 0..IntBits : two[n] <= ten[n]}
<1>2. /\ two[0] = 1 /\ \A n \in 0..IntBits : two[n] \in Nat \ {0}
      /\ \A n \in 1..IntBits : two[n] = 2 * two[n - 1]
  BY PowerCorrect
<1>3. /\ ten[0] = 1 /\ \A n \in 0..IntBits : ten[n] \in Nat \ {0}
      /\ \A n \in 1..IntBits : ten[n] = 10 * ten[n - 1]
  BY PowerCorrect
<1> HIDE DEF two, ten
<1>4. 0 \in S
  BY <1>1, <1>2, <1>3
<1>5. ASSUME NEW n \in 0..(IntBits - 1), n \in S
      PROVE  n + 1 \in S
  <2>1. n + 1 \in 1..IntBits /\ (n + 1) - 1 = n /\ n \in 0..IntBits
    BY <1>1
  <2>2. two[n + 1] = 2 * two[n] /\ ten[n + 1] = 10 * ten[n]
    BY <1>2, <1>3, <2>1
  <2>3. two[n] \in Nat /\ ten[n] \in Nat
    BY <1>2, <1>3, <2>1
  <2> QED
    BY <1>5, <2>1, <2>2, <2>3
<1> HIDE DEF S
<1>6. \A n \in 0..IntBits : n \in S
  BY <1>1, <1>4, <1>5, InductionUpTo
<1>7. IntBits - 1 \in 0..IntBits /\ IntBits \in 1..IntBits
  BY <1>1
<1>8. two[IntBits - 1] <= ten[IntBits - 1]
  BY <1>6, <1>7 DEF S
<1>9. MinInt = -two[IntBits - 1]
  BY DEF MinInt, two
<1>10. ten[IntBits] = 10 * ten[IntBits - 1]
  BY <1>3, <1>7
<1>11. two[IntBits - 1] \in Nat \ {0} /\ ten[IntBits - 1] \in Nat \ {0}
  BY <1>2, <1>3, <1>7
<1>12. MinInt \in Int /\ MinInt < 0
  BY <1>9, <1>11
<1>13. ASSUME NEW n \in Int64
       PROVE  Magnitude(n) \in Nat /\ Magnitude(n) < ten[IntBits]
  <2> DEFINE top == two[IntBits - 1]
             limit == ten[IntBits]
  <2>1. top \in Nat /\ n \in -top..-(-top + 1)
    BY <1>9, <1>11 DEF Int64
  <2>2. limit \in Nat /\ limit > top
    BY <1>8, <1>10, <1>11
  <2> HIDE DEF top, limit
  <2>3. n \in Int /\ -top <= n /\ n <= top - 1
    BY <2>1
  <2>4. Magnitude(n) \in Nat /\ Magnitude(n) < limit
    BY <2>1, <2>2, <2>3 DEF Magnitude
  <2> QED
    BY <2>4 DEF limit
<1> QED
  BY <1>12, <1>13 DEF ten

\* The number of digits is the least that m takes.
LEMMA DigitCountCorrect ==
  ASSUME NEW m \in Nat, m < Power(10)[IntBits]
  PROVE  LET l == DigitCount(m) IN
         /\ l \in 1..IntBits
         /\ m < Power(10)[l]
         /\ l = 1 \/ m >= Power(10)[l - 1]
<1>1. IntBits \in Nat \ {0}
  BY FormattingAssumption
<1>2. \A n \in 0..IntBits : Power(10)[n] \in Nat
  BY PowerCorrect
<1> DEFINE S == {l \in 1..IntBits : m < Power(10)[l]}
<1>3. S \in SUBSET Nat /\ IntBits \in S
  BY <1>1
<1>4. PICK l \in S : \A k \in S : l <= k
  BY <1>3, LeastNumber
<1>5. l = 1 \/ m >= Power(10)[l - 1]
  <2>1. ASSUME l # 1 PROVE m >= Power(10)[l - 1]
    <3>1. l - 1 \in 1..IntBits /\ l - 1 \notin S
      BY <1>1, <1>4, <2>1
    <3> QED
      BY <1>2, <3>1
  <2> QED
    BY <2>1
<1> QED
  BY <1>4, <1>5 DEF DigitCount

\* Division by a number.
LEMMA Divided ==
  ASSUME NEW m \in Nat, NEW p \in Nat \ {0}
  PROVE  /\ m \div p \in Int
         /\ m - (m \div p) * p \in 0..(p - 1)
OBVIOUS

\* What ten times as much goes into, and the digit that is left.
LEMMA DigitStep ==
  ASSUME NEW m \in Nat, NEW p \in Nat \ {0}
  PROVE  10 * (m \div (10 * p)) + ((m \div p) % 10) = m \div p
<1> DEFINE a == m \div (10 * p)
           q == m \div p
           r == m - q * p
           s == m - a * (10 * p)
<1>1. /\ a \in Int /\ s \in 0..(10 * p - 1) /\ m = a * (10 * p) + s
      /\ q \in Int /\ r \in 0..(p - 1) /\ m = q * p + r
  <2>1. 10 * p \in Nat \ {0}
    OBVIOUS
  <2>2. q \in Int /\ r \in 0..(p - 1)
    BY Divided
  <2>3. a \in Int /\ s \in 0..(10 * p - 1)
    <3> DEFINE t == 10 * p
    <3>1. t \in Nat \ {0}
      BY <2>1
    <3> HIDE DEF t
    <3>2. m \div t \in Int /\ m - (m \div t) * t \in 0..(t - 1)
      BY <3>1, Divided
    <3> QED
      BY <3>2 DEF t
  <2> HIDE DEF a, q
  <2>4. q * p \in Int /\ a * (10 * p) \in Int
    BY <2>2, <2>3
  <2> QED
    BY <2>2, <2>3, <2>4
<1> HIDE DEF a, q, r, s
<1>2. 10 * (a * p) = a * (10 * p)
  BY <1>1
<1>3. (q - 10 * a) * p = q * p - 10 * (a * p)
  BY <1>1
<1>4. (q - 10 * a) * p = s - r
  BY <1>1, <1>2, <1>3
<1> DEFINE d == q - 10 * a
<1>5. d \in Int /\ d * p > -p /\ d * p < 10 * p
  BY <1>1, <1>4
<1> HIDE DEF d
<1>6. d >= 0
  <2>1. ASSUME d <= -1 PROVE d * p <= -p
    BY <1>5, <2>1
  <2> QED
    BY <1>5, <2>1
<1>7. d <= 9
  <2>1. ASSUME d >= 10 PROVE d * p >= 10 * p
    BY <1>5, <2>1
  <2> QED
    BY <1>5, <2>1
<1>8. q = 10 * a + d
  BY <1>1 DEF d
<1>9. q % 10 = d
  BY <1>1, <1>5, <1>6, <1>7, <1>8
<1> QED
  BY <1>8, <1>9 DEF a, q

Digit == 0..9

\* The digits of a number, without leading zeros.
LEMMA FormatIntCorrect ==
  ASSUME NEW m \in Nat, m < Power(10)[IntBits]
  PROVE  LET digits == FormatInt(m)
             l == Len(digits)
         IN  /\ digits \in Seq(Digit)
             /\ l \in 1..IntBits
             /\ m < Power(10)[l]
             /\ \A i \in 1..l : digits[i] = (m \div Power(10)[l - i]) % 10
             /\ m # 0 => digits[1] # 0
<1> DEFINE l == DigitCount(m)
           ten == Power(10)
           digits == [i \in 1..l |-> (m \div ten[l - i]) % 10]
<1>1. l \in 1..IntBits /\ m < ten[l] /\ (l = 1 \/ m >= ten[l - 1])
  BY DigitCountCorrect
<1>2. FormatInt(m) = digits
  BY DEF FormatInt, Magnitude
<1>3. /\ ten[0] = 1 /\ \A n \in 0..IntBits : ten[n] \in Nat \ {0}
      /\ \A n \in 1..IntBits : ten[n] = 10 * ten[n - 1]
  BY PowerCorrect
<1>4. IntBits \in Nat
  BY FormattingAssumption
<1> HIDE DEF l, ten
<1>5. \A i \in 1..l : (m \div ten[l - i]) % 10 \in Digit
  <2>1. ASSUME NEW i \in 1..l PROVE (m \div ten[l - i]) % 10 \in Digit
    <3>1. l - i \in 0..IntBits
      BY <1>1, <1>4
    <3>2. ten[l - i] \in Nat \ {0}
      BY <1>3, <3>1
    <3> QED
      BY <3>2 DEF Digit
  <2> QED
    BY <2>1
<1>6. digits \in Seq(Digit) /\ Len(digits) = l
  <2> HIDE DEF Digit
  <2> QED
    BY <1>1, <1>5
<1>7. \A i \in 1..l : digits[i] = (m \div ten[l - i]) % 10
  OBVIOUS
<1>8. ASSUME m # 0 PROVE digits[1] # 0
  <2> DEFINE p == ten[l - 1]
  <2>1. l - 1 \in 0..IntBits /\ l \in 1..IntBits
    BY <1>1, <1>4
  <2>2. p \in Nat \ {0} /\ ten[l] = 10 * p
    BY <1>3, <2>1
  <2>3. m < 10 * p /\ (m >= p \/ p = 1)
    BY <1>1, <1>3, <2>2
  <2>4. digits[1] = (m \div p) % 10
    BY <1>1, <1>7
  <2> HIDE DEF p, digits
  <2>5. m >= p
    BY <1>8, <2>3
  <2>6. m \div p \in 1..9
    BY <2>2, <2>3, <2>5
  <2> QED
    BY <2>4, <2>6
<1> HIDE DEF digits
<1> QED
  BY <1>1, <1>2, <1>6, <1>7, <1>8 DEF ten

\* Where the i-th group of l digits ends.
GroupEnd(l, i) == IF l % 3 > 0 THEN (l % 3) + 3 * (i - 1) ELSE 3 * i

GroupCount(l) == (l \div 3) + (IF l % 3 > 0 THEN 1 ELSE 0)

\* The groups follow each other to the last digit; after the first they are of
\* three.
LEMMA GroupsAdjacent ==
  ASSUME NEW l \in Nat \ {0}
  PROVE  /\ GroupCount(l) \in Nat \ {0}
         /\ GroupEnd(l, 1) \in 1..3
         /\ GroupEnd(l, GroupCount(l)) = l
         /\ \A i \in 1..GroupCount(l) : GroupEnd(l, i) \in 1..l
         /\ \A i \in Int : GroupEnd(l, i + 1) = GroupEnd(l, i) + 3
<1> DEFINE h == l % 3
           k == l \div 3
<1>1. h \in 0..2 /\ k \in Nat /\ l = 3 * k + h
  OBVIOUS
<1>2. /\ GroupCount(l) = k + (IF h > 0 THEN 1 ELSE 0)
      /\ \A i \in Int : GroupEnd(l, i) = IF h > 0 THEN h + 3 * (i - 1) ELSE 3 * i
  BY DEF GroupCount, GroupEnd
<1> HIDE DEF h, k
<1> QED
  BY <1>1, <1>2

\* The groups as groupThousands writes them.
LEMMA GroupsCorrect ==
  ASSUME NEW digits \in Seq(Digit), digits # <<>>
  PROVE  LET l == Len(digits)
             groups == Groups(digits)
         IN  /\ groups \in Seq(Seq(Digit))
             /\ Len(groups) = GroupCount(l)
             /\ groups[1] = SubSeq(digits, 1, GroupEnd(l, 1))
             /\ \A i \in 2..Len(groups) :
                  groups[i] = SubSeq(digits, GroupEnd(l, i - 1) + 1, GroupEnd(l, i))
<1> DEFINE l == Len(digits)
           h == l % 3
           k == l \div 3
           rest == [i \in 1..k |-> SubSeq(digits, h + 3 * i - 2, h + 3 * i)]
           groups == Groups(digits)
<1>1. l \in Nat \ {0}
  OBVIOUS
<1>2. h \in 0..2 /\ k \in Nat /\ l = 3 * k + h
  BY <1>1
<1>3. groups = IF h > 0 THEN <<SubSeq(digits, 1, h)>> \o rest ELSE rest
  BY DEF Groups
<1>4. /\ GroupCount(l) = k + (IF h > 0 THEN 1 ELSE 0)
      /\ \A i \in Int : GroupEnd(l, i) = IF h > 0 THEN h + 3 * (i - 1) ELSE 3 * i
  BY DEF GroupCount, GroupEnd
<1> DEFINE D == Seq(Digit)
<1>5. \A a \in 1..l, b \in 1..l : SubSeq(digits, a, b) \in D
  BY <1>1
<1> HIDE DEF l, h, k, groups, D
<1>6. rest \in Seq(D) /\ Len(rest) = k
  <2>1. ASSUME NEW i \in 1..k PROVE SubSeq(digits, h + 3 * i - 2, h + 3 * i) \in D
    <3>1. h + 3 * i - 2 \in 1..l /\ h + 3 * i \in 1..l
      BY <1>1, <1>2
    <3> QED
      BY <1>5, <3>1
  <2> QED
    BY <1>2, <2>1
<1>7. \A i \in 1..k : rest[i] = SubSeq(digits, h + 3 * i - 2, h + 3 * i)
  OBVIOUS
<1> HIDE DEF rest
<1>8. CASE h > 0
  <2> DEFINE first == SubSeq(digits, 1, h)
  <2>1. first \in D
    BY <1>1, <1>2, <1>5, <1>8
  <2> HIDE DEF first
  <2>2. <<first>> \in Seq(D) /\ Len(<<first>>) = 1 /\ <<first>>[1] = first
    BY <2>1
  <2>3. /\ groups \in Seq(D) /\ Len(groups) = k + 1
        /\ groups[1] = first
        /\ \A i \in 2..(k + 1) : groups[i] = rest[i - 1]
    BY <1>2, <1>3, <1>6, <1>8, <2>2 DEF first
  <2>4. ASSUME NEW i \in 2..(k + 1)
        PROVE  groups[i] = SubSeq(digits, GroupEnd(l, i - 1) + 1, GroupEnd(l, i))
    <3>1. i - 1 \in 1..k
      BY <1>2
    <3>2. /\ GroupEnd(l, i) = h + 3 * (i - 1)
          /\ GroupEnd(l, i - 1) = h + 3 * ((i - 1) - 1)
      <4>1. i \in Int /\ i - 1 \in Int
        OBVIOUS
      <4> QED
        BY <1>4, <1>8, <4>1
    <3>3. h + 3 * (i - 1) - 2 = (h + 3 * ((i - 1) - 1)) + 1
      BY <1>2
    <3> QED
      BY <1>7, <2>3, <3>1, <3>2, <3>3
  <2>5. GroupEnd(l, 1) = h /\ GroupCount(l) = k + 1
    BY <1>2, <1>4, <1>8
  <2> QED
    BY <2>3, <2>4, <2>5 DEF D, first, groups, l
<1>9. CASE h = 0
  <2>1. groups = rest
    BY <1>3, <1>9
  <2>2. ASSUME NEW i \in 1..k
        PROVE  groups[i] = SubSeq(digits, 3 * i - 2, 3 * i)
    BY <1>2, <1>7, <1>9, <2>1
  <2>3. k >= 1 /\ GroupCount(l) = k /\ GroupEnd(l, 1) = 3
    BY <1>1, <1>2, <1>4, <1>9
  <2>4. groups[1] = SubSeq(digits, 1, 3)
    BY <1>2, <2>2, <2>3
  <2>5. ASSUME NEW i \in 2..k
        PROVE  groups[i] = SubSeq(digits, GroupEnd(l, i - 1) + 1, GroupEnd(l, i))
    <3>1. i \in 1..k /\ i \in Int /\ i - 1 \in Int
      BY <1>2
    <3>2. GroupEnd(l, i) = 3 * i /\ GroupEnd(l, i - 1) = 3 * (i - 1)
      BY <1>4, <1>9, <3>1
    <3>3. 3 * i - 2 = 3 * (i - 1) + 1
      BY <3>1
    <3> QED
      BY <2>2, <3>1, <3>2, <3>3
  <2>6. groups \in Seq(D) /\ Len(groups) = k
    BY <1>6, <2>1
  <2> QED
    BY <2>3, <2>4, <2>5, <2>6 DEF D, groups, l
<1> QED
  BY <1>2, <1>8, <1>9

\* Without the spaces the digits are there again, all and in order.
THEOREM GroupsFlatten ==
  ASSUME NEW digits \in Seq(Digit), digits # <<>>
  PROVE  FlattenSeq(Groups(digits)) = digits
<1> DEFINE l == Len(digits)
           g == Groups(digits)
           N == GroupCount(l)
           V == Seq(Digit)
           none == <<>>
           flat == CHOOSE f : f = [n \in 1..Len(g) |->
                                     IF n = 1 THEN g[n] ELSE f[n - 1] \o g[n]]
           round == [n \in 1..N |-> [s \in V |-> s \o g[n]]]
           end(n) == GroupEnd(l, n)
<1>1. l \in Nat \ {0}
  OBVIOUS
<1>2. /\ N \in Nat \ {0} /\ end(N) = l
      /\ \A n \in 1..N : end(n) \in 1..l
      /\ \A n \in 1..(N - 1) : end(n + 1) = end(n) + 3
  <2> HIDE DEF l
  <2>1. /\ N \in Nat \ {0} /\ end(N) = l
        /\ \A n \in 1..N : end(n) \in 1..l
        /\ \A n \in Int : end(n + 1) = end(n) + 3
    BY <1>1, GroupsAdjacent
  <2> HIDE DEF N, end
  <2> QED
    BY <2>1
<1>3. /\ g \in Seq(V) /\ Len(g) = N
      /\ g[1] = SubSeq(digits, 1, end(1))
      /\ \A n \in 2..N : g[n] = SubSeq(digits, end(n - 1) + 1, end(n))
  BY GroupsCorrect
<1>4. FlattenSeq(g) = flat[Len(g)]
  <2> HIDE DEF g, N
  <2> QED
    BY <1>2, <1>3 DEF FlattenSeq
<1> HIDE DEF l, g, N
<1>5. \A n \in 1..N : g[n] \in V
  <2> HIDE DEF V
  <2> QED
    BY <1>3
<1>6. none \in V /\ \A s \in V : none \o s = s
  OBVIOUS
<1>7. \A s, t \in V : s \o t \in V
  OBVIOUS
<1> HIDE DEF V, none
<1>8. round \in Rounds(N, V) /\ \A n \in 1..N, s \in V : round[n][s] = s \o g[n]
  BY <1>5, <1>7 DEF Rounds
<1> HIDE DEF round
<1>9. \E f : f = [n \in 1..Len(g) |-> IF n = 1 THEN g[n] ELSE f[n - 1] \o g[n]]
  <2>1. PICK f : IsLoop(f, N, V, none, round)
    BY <1>2, <1>6, <1>8, LoopExists
  <2> DEFINE h == [n \in 1..N |-> f[n]]
  <2>2. \A n \in 1..N : n - 1 \in 0..N /\ f[n - 1] \in V
    BY <1>2, <2>1 DEF IsLoop
  <2>3. \A n \in 1..N : f[n] = f[n - 1] \o g[n]
    BY <1>8, <2>1, <2>2 DEF IsLoop
  <2>4. f[1] = g[1]
    <3>1. 1 \in 1..N /\ 1 - 1 = 0
      BY <1>2
    <3>2. f[1] = f[0] \o g[1]
      BY <2>3, <3>1
    <3> QED
      BY <1>5, <1>6, <2>1, <3>1, <3>2 DEF IsLoop
  <2>5. ASSUME NEW n \in 1..N
        PROVE  h[n] = IF n = 1 THEN g[n] ELSE h[n - 1] \o g[n]
    <3>1. CASE n = 1
      BY <2>4, <3>1
    <3>2. CASE n # 1
      <4>1. n - 1 \in 1..N
        BY <1>2, <3>2
      <4>2. h[n - 1] = f[n - 1] /\ h[n] = f[n]
        BY <4>1
      <4> HIDE DEF h
      <4> QED
        BY <2>3, <3>2, <4>2
    <3> QED
      BY <3>1, <3>2
  <2>6. h = [n \in 1..N |-> IF n = 1 THEN g[n] ELSE h[n - 1] \o g[n]]
    <3>1. h = [n \in 1..N |-> h[n]]
      OBVIOUS
    <3> HIDE DEF h
    <3> QED
      BY <2>5, <3>1
  <2> HIDE DEF h
  <2> QED
    BY <1>3, <2>6
<1>10. flat = [n \in 1..Len(g) |-> IF n = 1 THEN g[n] ELSE flat[n - 1] \o g[n]]
  BY <1>9
<1> HIDE DEF flat
<1>11. flat[1] = g[1] /\ \A n \in 2..N : flat[n] = flat[n - 1] \o g[n]
  <2>1. DOMAIN flat = 1..N /\ 1 \in 1..N
    BY <1>2, <1>3, <1>10
  <2>2. \A n \in 1..N : flat[n] = IF n = 1 THEN g[n] ELSE flat[n - 1] \o g[n]
    BY <1>3, <1>10
  <2>3. \A n \in 2..N : n \in 1..N /\ n # 1
    BY <1>2
  <2> QED
    BY <2>1, <2>2, <2>3
<1> DEFINE S == {n \in 1..N : flat[n] = SubSeq(digits, 1, end(n))}
<1>12. 1 \in S
  BY <1>2, <1>3, <1>11
<1>13. ASSUME NEW n \in 1..(N - 1), n \in S
       PROVE  n + 1 \in S
  <2>1. n + 1 \in 2..N /\ (n + 1) - 1 = n /\ n \in 1..N
    BY <1>2
  <2>2. flat[n + 1] = SubSeq(digits, 1, end(n))
                        \o SubSeq(digits, end(n) + 1, end(n + 1))
    <3>1. flat[n + 1] = flat[n] \o g[n + 1]
      BY <1>11, <2>1
    <3>2. g[n + 1] = SubSeq(digits, end(n) + 1, end(n + 1))
      BY <1>3, <2>1
    <3> QED
      BY <1>13, <3>1, <3>2
  <2>3. end(n) \in 0..l /\ end(n + 1) \in end(n)..l
    BY <1>1, <1>2, <2>1
  <2>4. SubSeq(digits, 1, end(n)) \o SubSeq(digits, end(n) + 1, end(n + 1))
          = SubSeq(digits, 1, end(n + 1))
    <3> DEFINE j == end(n)
               k == end(n + 1)
    <3>1. 1 \in 1..(l + 1) /\ j \in 0..l /\ k \in j..l
      BY <1>1, <2>3
    <3> HIDE DEF j, k
    <3>2. SubSeq(digits, 1, j) \o SubSeq(digits, j + 1, k) = SubSeq(digits, 1, k)
      BY <3>1, ConcatAdjacentSubSeq DEF l
    <3> QED
      BY <3>2 DEF j, k
  <2>5. flat[n + 1] = SubSeq(digits, 1, end(n + 1))
    BY <2>2, <2>4
  <2>6. n + 1 \in 1..N
    BY <2>1
  <2> HIDE DEF end
  <2> QED
    BY <2>5, <2>6
<1> HIDE DEF S
<1>14. \A n \in 1..N : n \in S
  BY <1>2, <1>12, <1>13, InductionUpTo
<1>15. N \in S
  BY <1>2, <1>14
<1>16. flat[N] = SubSeq(digits, 1, l)
  BY <1>2, <1>15 DEF S
<1>17. SubSeq(digits, 1, l) = digits
  BY SubSeqFull DEF l
<1> QED
  BY <1>3, <1>4, <1>16, <1>17 DEF g
=============================================================================
