------------------------------- MODULE TextProofs -------------------------------
(***************************************************************************)
(* Proofs about the functions of texts: numbers as text for integers of     *)
(* every width, the text and path functions of the four runtimes compared,  *)
(* and those of the full one against their references, for texts of any     *)
(* length over any characters.                                              *)
(*                                                                         *)
(* A recursive function of the model is a CHOOSE among the functions that   *)
(* satisfy its equation: first there is one (RecursionExists,               *)
(* CourseOfValues of DataLemmas), then all agree by induction.              *)
(***************************************************************************)
EXTENDS RuntimeLibrary, DataLemmas

------------------------------------------------------------------------------
\* Numbers as text.

\* How a loop reads digits, keeping of each sum what K keeps; and that it reads v.
Reading(ds, K) == [i \in 1..Len(ds) |-> [x \in Int |-> K[x * 10 + ds[i]]]]
Reads(ds, K, v) == \A f : StepsFrom(f, Reading(ds, K), Len(ds), Int, 0) => f[Len(ds)] = v
DigitSeqs == Seq(0..9)

\* A loop over digits has a run, whatever it keeps of the sums.
LEMMA ReadingSteps ==
    ASSUME NEW ds \in DigitSeqs, NEW K \in [Int -> Int]
    PROVE  /\ Len(ds) \in Nat /\ StepsOn(Reading(ds, K), Len(ds), Int)
           /\ \E f : StepsFrom(f, Reading(ds, K), Len(ds), Int, 0)
<1>1. Len(ds) \in Nat /\ \A i \in 1..Len(ds) : ds[i] \in 0..9
  BY ElementsOf DEF DigitSeqs
<1>2. StepsOn(Reading(ds, K), Len(ds), Int)
  <2>1. \A i \in 1..Len(ds) : ds[i] \in Int
    <3>1. \A x \in 0..9 : x \in Int
      OBVIOUS
    <3> QED BY <1>1, <3>1
  <2>2. ASSUME NEW i \in 1..Len(ds), NEW x \in Int PROVE K[x * 10 + ds[i]] \in Int
    <3>1. ds[i] \in Int
      BY <2>1
    <3>2. \A y \in Int : x * 10 + y \in Int
      OBVIOUS
    <3>3. x * 10 + ds[i] \in Int
      BY <3>1, <3>2
    <3> QED BY <3>3
  <2> QED BY <2>2 DEF StepsOn, Reading
<1>3. 0 \in Int
  OBVIOUS
<1> QED BY <1>1, <1>2, <1>3, RecursionExists

\* One digit more.
LEMMA ReadsMore ==
    ASSUME NEW ds \in DigitSeqs, NEW K \in [Int -> Int], NEW r \in 0..9,
           NEW v \in Int, Reads(ds, K, v)
    PROVE  Append(ds, r) \in DigitSeqs /\ Reads(Append(ds, r), K, K[v * 10 + r])
<1> DEFINE n == Len(ds)
           more == Append(ds, r)
<1>1. n \in Nat /\ Len(more) = n + 1 /\ more[n + 1] = r /\ \A i \in 1..n : more[i] = ds[i]
  BY ElementsOf, AppendIs DEF DigitSeqs
<1>2. more \in DigitSeqs
  BY DEF DigitSeqs
<1>3. PICK g : StepsFrom(g, Reading(ds, K), n, Int, 0)
  BY ReadingSteps
<1>4. g[n] = v
  BY <1>3 DEF Reads
<1> HIDE DEF n, more
<1>5. ASSUME NEW f, StepsFrom(f, Reading(more, K), n + 1, Int, 0) PROVE f[n + 1] = K[v * 10 + r]
  <2>1. \A i \in 1..n : Reading(ds, K)[i] = Reading(more, K)[i]
    <3>1. \A i \in 1..n : i \in 1..Len(more) /\ more[i] = ds[i]
      BY <1>1
    <3> QED BY <3>1 DEF Reading, n
  <2>2. n + 1 \in Nat /\ n <= n + 1 /\ n \in 0..n /\ n + 1 \in 1..(n + 1) /\ (n + 1) - 1 = n
    BY <1>1
  <2>3. \A i \in 0..n : g[i] = f[i]
    <3>1. g[0] = f[0]
      BY <1>3, <1>5 DEF StepsFrom
    <3>2. \A i \in 1..n : g[i] = Reading(ds, K)[i][g[i - 1]]
      BY <1>3 DEF StepsFrom
    <3>3. \A i \in 1..n : f[i] = Reading(more, K)[i][f[i - 1]]
      <4>1. \A i \in 1..n : i \in 1..(n + 1)
        BY <1>1
      <4> QED BY <1>5, <4>1 DEF StepsFrom
    <3>4. SameSteps(g, Reading(ds, K), f, Reading(more, K), n)
      BY <2>1, <3>1, <3>2, <3>3 DEF SameSteps
    <3> QED BY <1>1, <3>4, RunsAgree
  <2>4. f[n] = v
    BY <1>4, <2>2, <2>3
  <2>5. f[n + 1] = Reading(more, K)[n + 1][f[n]]
    BY <1>5, <2>2 DEF StepsFrom
  <2>6. Reading(more, K)[n + 1] = [x \in Int |-> K[x * 10 + r]]
    BY <1>1, <2>2 DEF Reading
  <2> QED BY <2>4, <2>5, <2>6
<1> QED BY <1>1, <1>2, <1>5 DEF Reads, more

\* A single digit.
LEMMA ReadsDigit ==
    ASSUME NEW K \in [Int -> Int], NEW k \in 0..9
    PROVE  <<k>> \in DigitSeqs /\ Reads(<<k>>, K, K[k])
<1>1. <<>> \in DigitSeqs /\ Len(<<>>) = 0
  BY DEF DigitSeqs
<1>2. Reads(<<>>, K, 0)
  BY <1>1 DEF Reads, StepsFrom
<1>3. Append(<<>>, k) = <<k>> /\ 0 * 10 + k = k
  OBVIOUS
<1>4. Append(<<>>, k) \in DigitSeqs /\ Reads(Append(<<>>, k), K, K[0 * 10 + k])
  <2> DEFINE z == 0
             e == <<>>
  <2>1. z \in Int /\ Reads(e, K, z) /\ e \in DigitSeqs
    BY <1>1, <1>2
  <2> HIDE DEF z, e
  <2>2. Append(e, k) \in DigitSeqs /\ Reads(Append(e, k), K, K[z * 10 + k])
    BY <2>1, ReadsMore
  <2> QED BY <2>2 DEF z, e
<1> QED BY <1>3, <1>4

\* The recursion of DigitsOf.
DigitRun(g, n) ==
    g = [k \in 0..n |-> IF k < 10 THEN <<k>> ELSE Append(g[k \div 10], k % 10)]

\* The function that DigitsOf defines by recursion satisfies its equation.
LEMMA DigitsOfRuns ==
    ASSUME NEW n \in Nat
    PROVE  \E g : DigitRun(g, n) /\ DigitsOf(n) = g[n]
<1> DEFINE S == DigitSeqs
           A == [0..n -> S]
           F == [k \in 0..n |-> [g \in A |-> IF k < 10 THEN <<k>> ELSE Append(g[k \div 10], k % 10)]]
<1>1. \A k \in 0..n : ~(k < 10) => k \div 10 \in 0..n /\ k \div 10 \in 0..(k - 1) /\ k % 10 \in 0..9
  OBVIOUS
<1>2. <<>> \in S /\ \A k \in 0..9 : <<k>> \in S
  BY DEF DigitSeqs
<1>3. \A s \in S : \A r \in 0..9 : Append(s, r) \in S
  BY DEF DigitSeqs
<1> HIDE DEF S
<1>4. ASSUME NEW k \in 0..n, NEW g \in A
      PROVE  (IF k < 10 THEN <<k>> ELSE Append(g[k \div 10], k % 10)) \in S
  <2>1. CASE k < 10
    <3>1. k \in 0..9
      BY <2>1
    <3> QED BY <1>2, <2>1, <3>1
  <2>2. CASE ~(k < 10)
    <3>1. g[k \div 10] \in S /\ k % 10 \in 0..9
      BY <1>1, <2>2
    <3> QED BY <1>3, <2>2, <3>1
  <2> QED BY <2>1, <2>2
<1>5. Below(F, n, S)
  <2>1. F \in [0..n -> [A -> S]]
    <3>1. \A k \in 0..n : [g \in A |-> IF k < 10 THEN <<k>> ELSE Append(g[k \div 10], k % 10)] \in [A -> S]
      BY <1>4
    <3> HIDE DEF A
    <3> QED BY <3>1
  <2>2. ASSUME NEW k \in 0..n, NEW g \in A, NEW h \in A, \A j \in 0..(k - 1) : g[j] = h[j]
        PROVE  F[k][g] = F[k][h]
    <3>1. ~(k < 10) => g[k \div 10] = h[k \div 10]
      BY <1>1, <2>2
    <3> HIDE DEF A
    <3> QED BY <3>1
  <2> HIDE DEF F
  <2> QED BY <2>1, <2>2 DEF Below
<1>6. PICK f \in A : \A k \in 0..n : f[k] = F[k][f]
  <2>1. S # {}
    BY <1>2
  <2>2. Computes(F, n, S)
    <3> HIDE DEF F
    <3> QED BY <2>1, <1>5, CourseOfValues
  <2> HIDE DEF F
  <2> QED BY <2>2 DEF Computes
<1>7. DigitRun(f, n)
  <2>1. \A k \in 0..n : f[k] = IF k < 10 THEN <<k>> ELSE Append(f[k \div 10], k % 10)
    <3> HIDE DEF A
    <3> QED BY <1>6
  <2> HIDE DEF S
  <2> QED BY <2>1 DEF DigitRun
<1> DEFINE g == CHOOSE h : DigitRun(h, n)
<1>8. DigitRun(g, n)
  BY <1>7
<1>9. DigitsOf(n) = g[n]
  BY DEF DigitsOf, DigitRun
<1> QED BY <1>8, <1>9

\* What K keeps of a prefix is enough to keep the whole.
Keeps(K, n) ==
    \A q \in Nat : \A r \in 0..9 : q * 10 + r <= n => K[K[q] * 10 + r] = K[q * 10 + r]

IsNumber(ds, K, v) == ds \in DigitSeqs /\ ds # <<>> /\ Reads(ds, K, v)

\* The digits of a number are read back, or what K keeps of it.
LEMMA DigitsRead ==
    ASSUME NEW n \in Nat, NEW K \in [Int -> Int], Keeps(K, n)
    PROVE  IsNumber(DigitsOf(n), K, K[n])
<1>1. PICK g : DigitRun(g, n) /\ DigitsOf(n) = g[n]
  BY DigitsOfRuns
<1>2. \A k \in 0..n : g[k] = IF k < 10 THEN <<k>> ELSE Append(g[k \div 10], k % 10)
  BY <1>1 DEF DigitRun
<1> DEFINE U == {m \in Nat : \A k \in 0..m : k <= n => IsNumber(g[k], K, K[k])}
<1>3. ASSUME NEW k \in 0..n, k < 10 PROVE IsNumber(g[k], K, K[k])
  <2>1. k \in 0..9
    BY <1>3
  <2>3. g[k] = <<k>>
    BY <1>2, <1>3
  <2>2. <<k>> # <<>>
    OBVIOUS
  <2> QED BY <2>1, <2>2, <2>3, ReadsDigit DEF IsNumber
<1>4. ASSUME NEW k \in 0..n, ~(k < 10), IsNumber(g[k \div 10], K, K[k \div 10])
      PROVE  IsNumber(g[k], K, K[k])
  <2> DEFINE q == k \div 10
             r == k % 10
  <2>1. q \in Nat /\ r \in 0..9 /\ q * 10 + r = k /\ k <= n
    OBVIOUS
  <2>2. g[k] = Append(g[q], r)
    BY <1>2, <1>4
  <2> HIDE DEF q, r
  <2>3. K[q] \in Int /\ g[q] \in DigitSeqs /\ Reads(g[q], K, K[q])
    BY <1>4, <2>1 DEF IsNumber, q
  <2>4. g[k] \in DigitSeqs /\ Reads(g[k], K, K[K[q] * 10 + r])
    BY <2>1, <2>2, <2>3, ReadsMore
  <2>5. K[K[q] * 10 + r] = K[k]
    BY <2>1 DEF Keeps
  <2>6. g[k] # <<>>
    <3>1. Len(Append(g[q], r)) = Len(g[q]) + 1 /\ Len(g[q]) \in Nat
      BY <2>3, AppendIs, ElementsOf DEF DigitSeqs
    <3>2. Len(<<>>) = 0 /\ \A x \in Nat : x + 1 # 0
      OBVIOUS
    <3>3. Len(Append(g[q], r)) # 0
      BY <3>1, <3>2
    <3> QED BY <2>2, <3>2, <3>3
  <2> QED BY <2>4, <2>5, <2>6 DEF IsNumber
<1>5. 0 \in U
  <2>1. 0 \in 0..n /\ 0 < 10
    OBVIOUS
  <2>2. IsNumber(g[0], K, K[0])
    BY <1>3, <2>1
  <2>3. \A k \in 0..0 : k = 0
    OBVIOUS
  <2> QED BY <2>2, <2>3
<1>6. ASSUME NEW m \in Nat, m \in U PROVE m + 1 \in U
  <2>1. SUFFICES ASSUME NEW k \in 0..(m + 1), k <= n PROVE IsNumber(g[k], K, K[k])
    OBVIOUS
  <2>2. k \in 0..n
    BY <2>1
  <2>3. CASE k < 10
    BY <1>3, <2>2, <2>3
  <2>4. CASE ~(k < 10)
    <3>1. k \div 10 \in 0..m /\ k \div 10 <= n
      BY <2>1, <2>2, <2>4
    <3>2. IsNumber(g[k \div 10], K, K[k \div 10])
      BY <1>6, <3>1
    <3> QED BY <1>4, <2>2, <2>4, <3>2
  <2> QED BY <2>3, <2>4
<1> HIDE DEF U
<1>7. Nat \subseteq U
  BY <1>5, <1>6, SetInduction
<1>8. IsNumber(g[n], K, K[n])
  <2>1. n \in U /\ n \in 0..n /\ n <= n
    BY <1>7
  <2> QED BY <2>1 DEF U
<1> QED BY <1>1, <1>8

\* The loops of the two runtimes.
Whole == [x \in Int |-> x]
Wrapped == [x \in Int |-> Wrap(x)]
ValueRun(v, ds) == v = [k \in 0..Len(ds) |-> IF k = 0 THEN 0 ELSE v[k - 1] * 10 + ds[k]]
WrapRun(v, ds) == v = [k \in 0..Len(ds) |-> IF k = 0 THEN 0 ELSE Wrap(v[k - 1] * 10 + ds[k])]

\* What the two loops keep is an integer.
LEMMA WrapIsInt ==
    /\ Wrapped \in [Int -> Int] /\ Whole \in [Int -> Int]
    /\ \A x \in Int : Wrapped[x] = Wrap(x) /\ Wrap(x) \in Int
    /\ \A x \in Int : Whole[x] = x
<1>1. MinInt \in Int /\ MaxInt - MinInt + 1 \in Nat \ {0}
  BY IntAssumption
<1>2. \A x \in Int : Wrap(x) \in Int
  BY <1>1 DEF Wrap
<1> QED BY <1>2 DEF Wrapped, Whole

\* Whatever satisfies the equation of such a loop is the run of its steps.
LEMMA LoopIsReading ==
    ASSUME NEW ds \in DigitSeqs, NEW K \in [Int -> Int], NEW v,
           v = [k \in 0..Len(ds) |-> IF k = 0 THEN 0 ELSE K[v[k - 1] * 10 + ds[k]]]
    PROVE  StepsFrom(v, Reading(ds, K), Len(ds), Int, 0)
<1>1. Len(ds) \in Nat /\ \A i \in 1..Len(ds) : ds[i] \in 0..9
  BY ElementsOf DEF DigitSeqs
<1> DEFINE n == Len(ds)
<1>2. v[0] = 0 /\ \A k \in 1..n : v[k] = K[v[k - 1] * 10 + ds[k]]
  <2>1. 0 \in 0..n /\ \A k \in 1..n : k \in 0..n /\ k # 0
    BY <1>1
  <2>2. \A k \in 0..n : v[k] = IF k = 0 THEN 0 ELSE K[v[k - 1] * 10 + ds[k]]
    OBVIOUS
  <2> HIDE DEF n
  <2> QED BY <2>1, <2>2
<1> DEFINE U == {k \in Nat : k <= n => v[k] \in Int}
<1>3. 0 \in U
  BY <1>2
<1>4. ASSUME NEW k \in Nat, k \in U PROVE k + 1 \in U
  <2>1. SUFFICES ASSUME k + 1 <= n PROVE v[k + 1] \in Int
    OBVIOUS
  <2>2. k + 1 \in 1..n /\ (k + 1) - 1 = k /\ k <= n
    BY <1>1, <2>1
  <2>3. v[k] \in Int /\ ds[k + 1] \in Int
    <3>1. \A x \in 0..9 : x \in Int
      OBVIOUS
    <3>2. ds[k + 1] \in Int
      BY <1>1, <2>2, <3>1
    <3> QED BY <1>4, <2>2, <3>2
  <2>4. v[k] * 10 + ds[k + 1] \in Int
    <3>1. \A x, y \in Int : x * 10 + y \in Int
      OBVIOUS
    <3> QED BY <2>3, <3>1
  <2>5. v[k + 1] = K[v[k] * 10 + ds[k + 1]]
    BY <1>2, <2>2
  <2> QED BY <2>4, <2>5
<1> HIDE DEF U
<1>5. Nat \subseteq U
  BY <1>3, <1>4, SetInduction
<1>6. \A k \in 0..n : v[k] \in Int
  <2>1. \A k \in 0..n : k \in Nat /\ k <= n
    BY <1>1
  <2> QED BY <1>5, <2>1 DEF U
<1>7. v \in [0..n -> Int]
  <2>1. v = [k \in 0..n |-> v[k]]
    OBVIOUS
  <2> QED BY <1>6, <2>1
<1>8. \A k \in 1..n : v[k] = Reading(ds, K)[k][v[k - 1]]
  <2>1. \A k \in 1..n : k - 1 \in 0..n
    BY <1>1
  <2> QED BY <1>2, <1>6, <2>1 DEF Reading
<1> QED BY <1>2, <1>7, <1>8 DEF StepsFrom

\* Such a loop there is.
LEMMA LoopExists ==
    ASSUME NEW ds \in DigitSeqs, NEW K \in [Int -> Int]
    PROVE  \E v \in [0..Len(ds) -> Int] :
              \A k \in 0..Len(ds) : v[k] = IF k = 0 THEN 0 ELSE K[v[k - 1] * 10 + ds[k]]
<1>1. Len(ds) \in Nat
  BY ReadingSteps
<1>2. PICK f : StepsFrom(f, Reading(ds, K), Len(ds), Int, 0)
  BY ReadingSteps
<1>3. f \in [0..Len(ds) -> Int] /\ f[0] = 0
  BY <1>2 DEF StepsFrom
<1>4. ASSUME NEW k \in 1..Len(ds) PROVE f[k] = K[f[k - 1] * 10 + ds[k]]
  <2>1. f[k] = Reading(ds, K)[k][f[k - 1]]
    BY <1>2 DEF StepsFrom
  <2>2. f[k - 1] \in Int
    <3>1. k - 1 \in 0..Len(ds)
      BY <1>1
    <3> QED BY <1>3, <3>1
  <2> QED BY <2>1, <2>2 DEF Reading
<1>5. \A k \in 0..Len(ds) : k # 0 => k \in 1..Len(ds)
  BY <1>1
<1>6. \A k \in 0..Len(ds) : f[k] = IF k = 0 THEN 0 ELSE K[f[k - 1] * 10 + ds[k]]
  BY <1>3, <1>4, <1>5
<1> QED BY <1>3, <1>6

WholeValue(ds) == (CHOOSE v : ValueRun(v, ds))[Len(ds)]
WrapValue(ds) == (CHOOSE v : WrapRun(v, ds))[Len(ds)]
DigitsIn(s) == IF s # <<>> /\ s[1] = Minus THEN Tail(s) ELSE s

\* The two readers look for a sign and then read digits.
LEMMA StrToIntIs ==
    ASSUME NEW s, s # Null
    PROVE  /\ StrToInt(s) = IF DigitsIn(s) = s THEN WholeValue(s) ELSE -WholeValue(DigitsIn(s))
           /\ FsStrToInt(s) = IF DigitsIn(s) = s THEN WrapValue(s) ELSE Wrap(-WrapValue(DigitsIn(s)))
<1>1. StrToInt(s) = IF DigitsIn(s) = s THEN WholeValue(DigitsIn(s)) ELSE -WholeValue(DigitsIn(s))
  BY DEF StrToInt, DigitsIn, WholeValue, ValueRun
<1>2. FsStrToInt(s) = IF DigitsIn(s) = s THEN WrapValue(DigitsIn(s)) ELSE Wrap(-WrapValue(DigitsIn(s)))
  BY DEF FsStrToInt, DigitsIn, WrapValue, WrapRun
<1> QED BY <1>1, <1>2

\* The loop of atoll comes to what the digits read as,
LEMMA WholeValueIs ==
    ASSUME NEW ds \in DigitSeqs, NEW n, Reads(ds, Whole, n)
    PROVE  WholeValue(ds) = n
<1> DEFINE v == CHOOSE f : ValueRun(f, ds)
<1>1. Len(ds) \in Nat /\ \A i \in 1..Len(ds) : ds[i] \in Int
  <2>1. \A i \in 1..Len(ds) : ds[i] \in 0..9
    BY ElementsOf DEF DigitSeqs
  <2>2. \A x \in 0..9 : x \in Int
    OBVIOUS
  <2> QED BY <2>1, <2>2, ReadingSteps, WrapIsInt
<1>2. PICK f \in [0..Len(ds) -> Int] :
         \A k \in 0..Len(ds) : f[k] = IF k = 0 THEN 0 ELSE Whole[f[k - 1] * 10 + ds[k]]
  BY WrapIsInt, LoopExists
<1>3. ValueRun(f, ds)
  <2>1. ASSUME NEW k \in 0..Len(ds), k # 0 PROVE Whole[f[k - 1] * 10 + ds[k]] = f[k - 1] * 10 + ds[k]
    <3>1. k - 1 \in 0..Len(ds) /\ k \in 1..Len(ds)
      BY <1>1, <2>1
    <3>2. f[k - 1] * 10 + ds[k] \in Int
      BY <1>1, <1>2, <3>1
    <3> QED BY <3>2, WrapIsInt
  <2>2. \A k \in 0..Len(ds) : f[k] = IF k = 0 THEN 0 ELSE f[k - 1] * 10 + ds[k]
    BY <1>2, <2>1
  <2> QED BY <1>2, <2>2 DEF ValueRun
<1>4. ValueRun(v, ds)
  BY <1>3
<1> HIDE DEF v
<1>5. v = [k \in 0..Len(ds) |-> IF k = 0 THEN 0 ELSE v[k - 1] * 10 + ds[k]]
  BY <1>4 DEF ValueRun
<1> DEFINE U == {k \in Nat : k <= Len(ds) => v[k] \in Int /\ v[k] = f[k]}
<1>6. Nat \subseteq U
  <2>1. 0 \in U
    BY <1>1, <1>2, <1>5
  <2>2. ASSUME NEW k \in Nat, k \in U PROVE k + 1 \in U
    <3>1. SUFFICES ASSUME k + 1 <= Len(ds) PROVE v[k + 1] \in Int /\ v[k + 1] = f[k + 1]
      OBVIOUS
    <3>2. k + 1 \in 0..Len(ds) /\ k + 1 # 0 /\ (k + 1) - 1 = k /\ k <= Len(ds) /\ k + 1 \in 1..Len(ds)
      BY <1>1, <3>1
    <3>3. v[k + 1] = v[k] * 10 + ds[k + 1]
      BY <1>5, <3>2
    <3>4. f[k + 1] = f[k] * 10 + ds[k + 1]
      BY <1>3, <3>2 DEF ValueRun
    <3>5. v[k] \in Int /\ v[k] = f[k] /\ ds[k + 1] \in Int
      BY <1>1, <2>2, <3>2
    <3> QED BY <3>3, <3>4, <3>5
  <2> HIDE DEF U
  <2> QED BY <2>1, <2>2, SetInduction
<1>7. v[Len(ds)] = f[Len(ds)]
  <2>1. Len(ds) \in U /\ Len(ds) <= Len(ds)
    BY <1>1, <1>6
  <2> QED BY <2>1 DEF U
<1>8. StepsFrom(f, Reading(ds, Whole), Len(ds), Int, 0)
  <2>1. f = [k \in 0..Len(ds) |-> IF k = 0 THEN 0 ELSE Whole[f[k - 1] * 10 + ds[k]]]
    BY <1>2
  <2> QED BY <2>1, WrapIsInt, LoopIsReading
<1> QED BY <1>7, <1>8 DEF Reads, WholeValue, v

\* and so does the loop of runtime_freestanding.c, which may wrap.
LEMMA WrapValueIs ==
    ASSUME NEW ds \in DigitSeqs, NEW n, Reads(ds, Wrapped, n)
    PROVE  WrapValue(ds) = n
<1> DEFINE v == CHOOSE f : WrapRun(f, ds)
<1>1. Len(ds) \in Nat /\ \A i \in 1..Len(ds) : ds[i] \in Int
  <2>1. \A i \in 1..Len(ds) : ds[i] \in 0..9
    BY ElementsOf DEF DigitSeqs
  <2>2. \A x \in 0..9 : x \in Int
    OBVIOUS
  <2> QED BY <2>1, <2>2, ReadingSteps, WrapIsInt
<1>2. PICK f \in [0..Len(ds) -> Int] :
         \A k \in 0..Len(ds) : f[k] = IF k = 0 THEN 0 ELSE Wrapped[f[k - 1] * 10 + ds[k]]
  BY WrapIsInt, LoopExists
<1>3. WrapRun(f, ds)
  <2>1. ASSUME NEW k \in 0..Len(ds), k # 0 PROVE Wrapped[f[k - 1] * 10 + ds[k]] = Wrap(f[k - 1] * 10 + ds[k])
    <3>1. k - 1 \in 0..Len(ds) /\ k \in 1..Len(ds)
      BY <1>1, <2>1
    <3>2. f[k - 1] * 10 + ds[k] \in Int
      BY <1>1, <1>2, <3>1
    <3> QED BY <3>2, WrapIsInt
  <2>2. \A k \in 0..Len(ds) : f[k] = IF k = 0 THEN 0 ELSE Wrap(f[k - 1] * 10 + ds[k])
    BY <1>2, <2>1
  <2> QED BY <1>2, <2>2 DEF WrapRun
<1>4. WrapRun(v, ds)
  BY <1>3
<1> HIDE DEF v
<1>5. v = [k \in 0..Len(ds) |-> IF k = 0 THEN 0 ELSE Wrap(v[k - 1] * 10 + ds[k])]
  BY <1>4 DEF WrapRun
<1> DEFINE U == {k \in Nat : k <= Len(ds) => v[k] \in Int /\ v[k] = f[k]}
<1>6. Nat \subseteq U
  <2>1. 0 \in U
    BY <1>1, <1>2, <1>5
  <2>2. ASSUME NEW k \in Nat, k \in U PROVE k + 1 \in U
    <3>1. SUFFICES ASSUME k + 1 <= Len(ds) PROVE v[k + 1] \in Int /\ v[k + 1] = f[k + 1]
      OBVIOUS
    <3>2. k + 1 \in 0..Len(ds) /\ k + 1 # 0 /\ (k + 1) - 1 = k /\ k <= Len(ds) /\ k + 1 \in 1..Len(ds)
      BY <1>1, <3>1
    <3>3. v[k + 1] = Wrap(v[k] * 10 + ds[k + 1])
      BY <1>5, <3>2
    <3>4. f[k + 1] = Wrap(f[k] * 10 + ds[k + 1])
      BY <1>3, <3>2 DEF WrapRun
    <3>5. v[k] \in Int /\ v[k] = f[k] /\ ds[k + 1] \in Int
      BY <1>1, <2>2, <3>2
    <3>6. \A x, y \in Int : Wrap(x * 10 + y) \in Int
      <4>1. \A x, y \in Int : x * 10 + y \in Int
        OBVIOUS
      <4> QED BY <4>1, WrapIsInt
    <3> QED BY <3>3, <3>4, <3>5, <3>6
  <2> HIDE DEF U
  <2> QED BY <2>1, <2>2, SetInduction
<1>7. v[Len(ds)] = f[Len(ds)]
  <2>1. Len(ds) \in U /\ Len(ds) <= Len(ds)
    BY <1>1, <1>6
  <2> QED BY <2>1 DEF U
<1>8. StepsFrom(f, Reading(ds, Wrapped), Len(ds), Int, 0)
  <2>1. f = [k \in 0..Len(ds) |-> IF k = 0 THEN 0 ELSE Wrapped[f[k - 1] * 10 + ds[k]]]
    BY <1>2
  <2> QED BY <2>1, WrapIsInt, LoopIsReading
<1> QED BY <1>7, <1>8 DEF Reads, WrapValue, v

\* A digit string, with a sign before it or not.
LEMMA SignedDigits ==
    ASSUME NEW ds \in DigitSeqs, ds # <<>>
    PROVE  /\ DigitsIn(ds) = ds
           /\ DigitsIn(<<Minus>> \o ds) = ds /\ <<Minus>> \o ds # ds
           /\ <<Minus>> \o ds \in Seq(Int) /\ ds \in Seq(Int)
<1>1. Len(ds) \in Nat /\ \A i \in 1..Len(ds) : ds[i] \in 0..9
  BY ElementsOf DEF DigitSeqs
<1>2. ds \in Seq(Int)
  <2>1. \A x \in 0..9 : x \in Int
    OBVIOUS
  <2>2. \A i \in 1..Len(ds) : ds[i] \in Int
    BY <1>1, <2>1
  <2>3. ds \in Seq(0..9)
    BY DEF DigitSeqs
  <2> QED BY <2>2, <2>3, SeqOver
<1>3. Len(ds) >= 1
  BY <1>1, <1>2
<1>4. ds[1] # Minus
  <2>1. ds[1] \in 0..9
    BY <1>1, <1>3
  <2>2. \A x \in 0..9 : x # Minus
    BY DEF Minus
  <2> QED BY <2>1, <2>2
<1> DEFINE m == Minus
           s == <<m>> \o ds
<1>5. m \in Int
  BY DEF Minus
<1> HIDE DEF m
<1>6. s \in Seq(Int) /\ Len(s) = 1 + Len(ds) /\ s[1] = m /\ \A i \in 1..Len(ds) : s[i + 1] = ds[i]
  BY <1>2, <1>5
<1> HIDE DEF s
<1>7. Tail(s) = ds
  <2>1. s # <<>> /\ Len(s) >= 1
    BY <1>1, <1>6
  <2>2. Tail(s) \in Seq(Int) /\ Len(Tail(s)) = Len(s) - 1 /\ \A i \in 1..Len(ds) : Tail(s)[i] = s[i + 1]
    BY <1>6, <2>1
  <2>3. Len(Tail(s)) = Len(ds) /\ \A i \in 1..Len(ds) : Tail(s)[i] = ds[i]
    BY <1>1, <1>6, <2>2
  <2> QED BY <1>2, <2>2, <2>3, SameElements
<1>8. s # ds /\ s # <<>>
  BY <1>1, <1>6
<1> QED BY <1>2, <1>4, <1>6, <1>7, <1>8 DEF DigitsIn, s, m

\* The null pointer is no text.
NullIsNoText == \A S : Null \notin Seq(S)

\* Wrapping keeps what fits, and exchanges the two numbers beside the range.
LEMMA WrapFits ==
    /\ \A x \in Ints : Wrap(x) = x
    /\ Wrap(MaxInt + 1) = MinInt /\ Wrap(-MinInt) = MinInt /\ Wrap(-(MaxInt + 1)) = MinInt
    /\ MaxInt + 1 = -MinInt
<1> DEFINE M == MaxInt - MinInt + 1
<1>1. MaxInt \in Nat \ {0} /\ MinInt = -MaxInt - 1 /\ M = 2 * MaxInt + 2
  BY IntAssumption
<1>2. ASSUME NEW x \in Ints PROVE Wrap(x) = x
  <2>1. x - MinInt \in 0..(M - 1)
    BY <1>1 DEF Ints
  <2>2. \A m \in Nat \ {0} : \A y \in 0..(m - 1) : y % m = y
    OBVIOUS
  <2>3. (x - MinInt) % M = x - MinInt
    BY <1>1, <2>1, <2>2
  <2> QED BY <1>1, <2>3 DEF Wrap, Ints
<1>3. Wrap(MaxInt + 1) = MinInt
  <2>1. (MaxInt + 1) - MinInt = M
    BY <1>1
  <2>2. M % M = 0
    BY <1>1
  <2> QED BY <1>1, <2>1, <2>2 DEF Wrap
<1>4. -MinInt = MaxInt + 1 /\ -(MaxInt + 1) = MinInt /\ MinInt \in Ints
  BY <1>1 DEF Ints
<1> QED BY <1>2, <1>3, <1>4

\* The digits of every magnitude are read back, by both loops.
LEMMA MagnitudesRead ==
    ASSUME NEW n \in 0..(MaxInt + 1)
    PROVE  LET ds == DigitsOf(n)
           IN  ds \in DigitSeqs /\ ds # <<>> /\ WholeValue(ds) = n /\ WrapValue(ds) = Wrap(n)
<1> DEFINE ds == DigitsOf(n)
<1>1. n \in Nat /\ MaxInt \in Nat \ {0}
  BY IntAssumption
<1>2. Keeps(Whole, n)
  <2>1. ASSUME NEW q \in Nat, NEW r \in 0..9 PROVE Whole[Whole[q] * 10 + r] = Whole[q * 10 + r]
    <3>1. q \in Int /\ Whole[q] = q
      BY WrapIsInt
    <3> QED BY <3>1
  <2> QED BY <2>1 DEF Keeps
<1>3. Keeps(Wrapped, n)
  <2>1. ASSUME NEW q \in Nat, NEW r \in 0..9, q * 10 + r <= n
        PROVE  Wrapped[Wrapped[q] * 10 + r] = Wrapped[q * 10 + r]
    <3>1. q \in Ints
      <4>1. q <= MaxInt
        BY <1>1, <2>1
      <4>2. MinInt <= q /\ q \in Int
        BY <1>1, IntAssumption
      <4> QED BY <1>1, <4>1, <4>2, IntAssumption DEF Ints
    <3>2. Wrapped[q] = q
      <4>1. q \in Int
        OBVIOUS
      <4>2. Wrapped[q] = Wrap(q)
        BY <4>1, WrapIsInt
      <4> QED BY <3>1, <4>2, WrapFits
    <3> QED BY <3>2
  <2> QED BY <2>1 DEF Keeps
<1>4. IsNumber(ds, Whole, Whole[n]) /\ IsNumber(ds, Wrapped, Wrapped[n])
  BY <1>1, <1>2, <1>3, WrapIsInt, DigitsRead
<1>5. Whole[n] = n /\ Wrapped[n] = Wrap(n)
  <2>1. n \in Int
    BY <1>1
  <2> QED BY <2>1, WrapIsInt
<1>6. ds \in DigitSeqs /\ ds # <<>> /\ Reads(ds, Whole, n) /\ Reads(ds, Wrapped, Wrap(n))
  BY <1>4, <1>5 DEF IsNumber
<1> HIDE DEF ds
<1>7. WholeValue(ds) = n /\ WrapValue(ds) = Wrap(n)
  BY <1>6, WholeValueIs, WrapValueIs
<1> QED BY <1>6, <1>7 DEF ds

\* A zero has its digit.
LEMMA DigitsOfZero == DigitsOf(0) = <<0>>
<1>1. 0 \in Nat
  OBVIOUS
<1>2. PICK g : DigitRun(g, 0) /\ DigitsOf(0) = g[0]
  BY <1>1, DigitsOfRuns
<1>3. 0 \in 0..0 /\ 0 < 10
  OBVIOUS
<1>4. g[0] = IF 0 < 10 THEN <<0>> ELSE Append(g[0 \div 10], 0 % 10)
  BY <1>2, <1>3 DEF DigitRun
<1> QED BY <1>2, <1>3, <1>4

\* Every integer, the smallest included, is read back from its text, and the loop of
\* runtime_freestanding.c writes the same text for every other.
LEMMA NumbersReadBack ==
    ASSUME NullIsNoText, NEW a \in Ints
    PROVE  /\ StrToInt(IntToStr(a)) = a /\ FsStrToInt(IntToStr(a)) = a
           /\ a # MinInt => FsIntToStr(a) = IntToStr(a)
           /\ NegChecked(a) # Panic => AbsI64(a) = Magnitude(a)
<1>1. MaxInt \in Nat \ {0} /\ MinInt = -MaxInt - 1 /\ a \in Int /\ MinInt <= a /\ a <= MaxInt
  BY IntAssumption DEF Ints
<1> DEFINE n == Magnitude(a)
           ds == DigitsOf(n)
<1>2. n \in 0..(MaxInt + 1) /\ (a < 0 => n = -a) /\ (~(a < 0) => n = a)
  BY <1>1 DEF Magnitude
<1> HIDE DEF n
<1>3. ds \in DigitSeqs /\ ds # <<>> /\ WholeValue(ds) = n /\ WrapValue(ds) = Wrap(n)
  BY <1>2, MagnitudesRead
<1>4. /\ DigitsIn(ds) = ds /\ DigitsIn(<<Minus>> \o ds) = ds /\ <<Minus>> \o ds # ds
      /\ <<Minus>> \o ds # Null /\ ds # Null
  <2> HIDE DEF ds
  <2>1. <<Minus>> \o ds \in Seq(Int) /\ ds \in Seq(Int)
    BY <1>3, SignedDigits
  <2>2. Null \notin Seq(Int)
    BY DEF NullIsNoText
  <2> QED BY <1>3, <2>1, <2>2, SignedDigits
<1>5. IntToStr(a) = IF a < 0 THEN <<Minus>> \o ds ELSE ds
  BY <1>2 DEF IntToStr
<1> HIDE DEF ds
<1>6. StrToInt(IntToStr(a)) = a
  <2>1. CASE a < 0
    <3>1. StrToInt(<<Minus>> \o ds) = -n
      BY <1>3, <1>4, StrToIntIs
    <3>2. -n = a
      BY <1>1, <1>2, <2>1
    <3> QED BY <1>5, <2>1, <3>1, <3>2
  <2>2. CASE ~(a < 0)
    BY <1>2, <1>3, <1>4, <1>5, <2>2, StrToIntIs
  <2> QED BY <2>1, <2>2
<1>7. FsStrToInt(IntToStr(a)) = a
  <2>1. CASE a < 0
    <3>1. FsStrToInt(<<Minus>> \o ds) = Wrap(-Wrap(n))
      BY <1>3, <1>4, StrToIntIs
    <3>2. Wrap(-Wrap(n)) = a
      <4>1. CASE a = MinInt
        <5>1. n = MaxInt + 1
          BY <1>1, <1>2, <2>1, <4>1
        <5> QED BY <4>1, <5>1, WrapFits
      <4>2. CASE a # MinInt
        <5>1. n \in Ints /\ -n = a
          BY <1>1, <1>2, <2>1, <4>2 DEF Ints
        <5> QED BY <5>1, WrapFits
      <4> QED BY <4>1, <4>2
    <3> QED BY <1>5, <2>1, <3>1, <3>2
  <2>2. CASE ~(a < 0)
    <3>1. FsStrToInt(ds) = Wrap(n) /\ n = a
      BY <1>2, <1>3, <1>4, <2>2, StrToIntIs
    <3> QED BY <1>5, <2>2, <3>1, WrapFits
  <2> QED BY <2>1, <2>2
<1>8. ASSUME a # MinInt PROVE FsIntToStr(a) = IntToStr(a) /\ AbsI64(a) = n
  <2>1. n \in Ints /\ -MaxInt <= a
    BY <1>1, <1>2, <1>8 DEF Ints
  <2>2. Wrap(n) = n
    BY <2>1, WrapFits
  <2>3. AbsI64(a) = n
    BY <1>2, <2>2 DEF AbsI64
  <2>4. CASE a < 0
    <3>1. n > 0
      BY <1>1, <1>2, <2>4
    <3>2. n # 0 /\ ~(n < 0)
      BY <1>2, <3>1
    <3>3. FsIntToStr(a) = <<Minus>> \o DigitsOf(n)
      <4>1. Wrap(-a) = n
        BY <1>2, <2>2, <2>4
      <4> QED BY <2>4, <3>2, <4>1 DEF FsIntToStr
    <3> QED BY <1>5, <2>3, <2>4, <3>3 DEF ds
  <2>5. CASE ~(a < 0)
    <3>1. n = a
      BY <1>2, <2>5
    <3>2. FsIntToStr(a) = <<>> \o (IF a = 0 THEN <<0>> ELSE DigitsOf(a))
      BY <2>5 DEF FsIntToStr
    <3>3. (IF a = 0 THEN <<0>> ELSE DigitsOf(a)) = ds
      BY <3>1, DigitsOfZero DEF ds
    <3>4. <<>> \o ds = ds
      <4>1. ds \in Seq(Int)
        BY <1>3, SignedDigits
      <4> QED BY <4>1
    <3> QED BY <1>5, <2>3, <2>5, <3>2, <3>3, <3>4
  <2> QED BY <2>4, <2>5
<1>9. NegChecked(a) # Panic => a # MinInt
  BY DEF NegChecked
<1> QED BY <1>6, <1>7, <1>8, <1>9 DEF n

------------------------------------------------------------------------------
\* Prefixes and suffixes of characters in C.
LEMMA PrefixIs ==
    ASSUME NEW T, NEW s \in Seq(T), NEW C
    PROVE  LET k == PrefixIn(s, C)
           IN  /\ k \in 0..Len(s) /\ \A i \in 1..k : s[i] \in C
               /\ k < Len(s) => s[k + 1] \notin C
<1> DEFINE S == {0} \cup {n \in 1..Len(s) : \A i \in 1..n : s[i] \in C}
           k == PrefixIn(s, C)
<1>1. Len(s) \in Nat
  OBVIOUS
<1>2. S \in SUBSET (0..Len(s)) /\ S # {}
  BY <1>1
<1>3. k \in S /\ \A n \in S : n <= k
  <2>1. k = Max(S)
    BY DEF PrefixIn
  <2> HIDE DEF S, k
  <2> QED BY <1>1, <1>2, <2>1, MaxOf
<1> HIDE DEF k
<1>4. k \in 0..Len(s) /\ \A i \in 1..k : s[i] \in C
  BY <1>1, <1>3
<1>5. ASSUME k < Len(s), s[k + 1] \in C PROVE FALSE
  <2>1. k + 1 \in 1..Len(s) /\ ~(k + 1 <= k)
    BY <1>1, <1>4, <1>5
  <2>2. \A i \in 1..(k + 1) : s[i] \in C
    <3>1. \A i \in 1..(k + 1) : i \in 1..k \/ i = k + 1
      BY <1>4
    <3> QED BY <1>4, <1>5, <3>1
  <2>3. k + 1 \in S
    BY <2>1, <2>2
  <2> QED BY <1>3, <2>1, <2>3
<1> QED BY <1>4, <1>5 DEF k

LEMMA SuffixIs ==
    ASSUME NEW T, NEW s \in Seq(T), NEW C
    PROVE  LET k == SuffixIn(s, C)
           IN  /\ Len(s) \in Nat /\ k \in 0..Len(s)
               /\ \A i \in (Len(s) - k + 1)..Len(s) : s[i] \in C
               /\ k < Len(s) => s[Len(s) - k] \notin C
<1> DEFINE k == SuffixIn(s, C)
           r == Reverse(s)
<1>1. /\ r \in Seq(T) /\ Len(r) = Len(s) /\ Len(s) \in Nat
      /\ \A i \in 1..Len(s) : r[i] = s[Len(s) - i + 1]
  BY ReverseIs
<1>2. k = PrefixIn(r, C)
  BY DEF SuffixIn
<1> HIDE DEF k, r
<1>3. k \in 0..Len(s) /\ (\A i \in 1..k : r[i] \in C) /\ (k < Len(s) => r[k + 1] \notin C)
  BY <1>1, <1>2, PrefixIs
<1>4. ASSUME NEW i \in (Len(s) - k + 1)..Len(s) PROVE s[i] \in C
  <2> DEFINE j == Len(s) - i + 1
  <2>1. j \in 1..k /\ j \in 1..Len(s) /\ Len(s) - j + 1 = i
    BY <1>1, <1>3, SMTT(30)
  <2> HIDE DEF j
  <2>2. r[j] \in C /\ r[j] = s[Len(s) - j + 1]
    BY <1>1, <1>3, <2>1
  <2> QED BY <2>1, <2>2
<1>5. ASSUME k < Len(s) PROVE s[Len(s) - k] \notin C
  <2>1. k + 1 \in 1..Len(s) /\ Len(s) - (k + 1) + 1 = Len(s) - k
    BY <1>1, <1>3, <1>5
  <2>2. r[k + 1] = s[Len(s) - (k + 1) + 1]
    BY <1>1, <2>1
  <2> QED BY <1>3, <1>5, <2>1, <2>2
<1> QED BY <1>1, <1>3, <1>4, <1>5 DEF k

\* The rest of a text.
LEMMA DropIs ==
    ASSUME NEW T, NEW s \in Seq(T), NEW n \in 0..Len(s)
    PROVE  /\ Drop(s, n) \in Seq(T) /\ Len(Drop(s, n)) = Len(s) - n
           /\ \A j \in 1..(Len(s) - n) : Drop(s, n)[j] = s[n + j]
  BY SubSeqRest DEF Drop

\* A slice of the four runtimes, while its end is an unsigned int.
LEMMA SlicesAgree ==
    ASSUME NullIsNoText, UIntMod \in Nat, NEW T, NEW s \in Seq(T),
           NEW start \in Nat, NEW len \in Nat, start + len < UIntMod
    PROVE  MinimalStrSlice(s, start, len) = StrSlice(s, start, len)
<1>1. s # Null /\ Len(s) \in Nat
  BY DEF NullIsNoText
<1> DEFINE L == Len(s)
           from == Min({start, L})
           n == IF (from + len) % UIntMod > L THEN L - from ELSE len
           m == Min({len, L - start})
<1>2. from = IF start <= L THEN start ELSE L
  BY <1>1, MinOfTwo
<1>3. OrEmpty(s) = s
  BY <1>1 DEF OrEmpty
<1>4. /\ MinimalStrSlice(s, start, len) = IF from + n > L THEN Overrun ELSE SubSeq(s, from + 1, from + n)
      /\ StrSlice(s, start, len) = IF start >= L THEN <<>> ELSE SubSeq(s, start + 1, start + m)
  BY <1>1, <1>3 DEF MinimalStrSlice, StrSlice
<1>5. start < L => m = IF len <= L - start THEN len ELSE L - start
  <2>1. start < L => L - start \in Nat
    BY <1>1
  <2> QED BY <2>1, MinOfTwo
<1> HIDE DEF from, m, L
<1>6. L \in Nat /\ from \in Nat /\ (from + len) % UIntMod = from + len
  <2>1. L \in Nat /\ from \in Nat /\ from <= start
    BY <1>1, <1>2 DEF L
  <2>2. from + len \in 0..(UIntMod - 1) /\ UIntMod \in Nat \ {0}
    BY <2>1
  <2>3. \A k \in Nat \ {0} : \A x \in 0..(k - 1) : x % k = x
    OBVIOUS
  <2> QED BY <2>1, <2>2, <2>3
<1>7. n = IF from + len > L THEN L - from ELSE len
  BY <1>6
<1> HIDE DEF n
<1>8. CASE start < L
  <2>1. from = start /\ n = m /\ ~(from + n > L) /\ ~(start >= L)
    BY <1>2, <1>5, <1>6, <1>7, <1>8
  <2> QED BY <1>4, <2>1
<1>9. CASE ~(start < L)
  <2>1. from = L /\ n = 0 /\ ~(from + n > L) /\ start >= L
    BY <1>2, <1>6, <1>7, <1>9
  <2>2. SubSeq(s, L + 1, L + 0) = <<>>
    <3>1. L + 0 = L /\ L + 1 > L
      BY <1>6
    <3>2. SubSeq(s, L + 1, L) = <<>>
      BY <1>6
    <3> QED BY <3>1, <3>2
  <2> QED BY <1>4, <2>1, <2>2
<1> QED BY <1>8, <1>9

\* What trimming takes off.
LEMMA TrimIs ==
    ASSUME NullIsNoText, NEW T, NEW s \in Seq(T)
    PROVE  LET n == PrefixIn(s, Blank)
               left == Drop(s, n)
               k == SuffixIn(left, Blank)
           IN  /\ n \in 0..Len(s) /\ left \in Seq(T) /\ Len(left) = Len(s) - n
               /\ k \in 0..Len(left) /\ Len(s) \in Nat
               /\ Trim(s) = SubSeq(left, 1, Len(left) - k)
               /\ s # Null /\ left # Null /\ OrEmpty(s) = s /\ OrEmpty(left) = left
<1> DEFINE n == PrefixIn(s, Blank)
           left == Drop(s, n)
<1>1. n \in 0..Len(s) /\ Len(s) \in Nat
  BY PrefixIs
<1>2. left \in Seq(T) /\ Len(left) = Len(s) - n
  <2> HIDE DEF n
  <2> QED BY <1>1, DropIs
<1>3. s # Null /\ left # Null /\ OrEmpty(s) = s /\ OrEmpty(left) = left
  <2> HIDE DEF left
  <2> QED BY <1>2 DEF NullIsNoText, OrEmpty
<1>4. SuffixIn(left, Blank) \in 0..Len(left)
  <2> HIDE DEF left
  <2> QED BY <1>2, SuffixIs
<1>5. Trim(s) = SubSeq(left, 1, Len(left) - SuffixIn(left, Blank))
  BY <1>3 DEF Trim, TrimLeft, TrimRight
<1> QED BY <1>1, <1>2, <1>3, <1>4, <1>5

\* The slice from 0 of at most the whole text.
LEMMA SliceFromStart ==
    ASSUME NullIsNoText, UIntMod \in Nat, NEW T, NEW s \in Seq(T), Len(s) < UIntMod,
           NEW m \in 0..Len(s)
    PROVE  FsStrSlice(s, 0, m) = SubSeq(s, 1, m)
<1>1. Len(s) \in Nat /\ m \in Nat /\ 0 \in Nat /\ 0 + m < UIntMod /\ 0 + m = m /\ 0 + 1 = 1
  OBVIOUS
<1>2. FsStrSlice(s, 0, m) = StrSlice(s, 0, m)
  BY <1>1, SlicesAgree DEF FsStrSlice
<1>3. s # Null
  BY DEF NullIsNoText
<1>4. CASE Len(s) = 0
  <2>1. m = 0 /\ 0 >= Len(s)
    BY <1>4
  <2>2. StrSlice(s, 0, m) = <<>>
    BY <1>3, <2>1 DEF StrSlice
  <2>3. SubSeq(s, 1, 0) = <<>>
    OBVIOUS
  <2> QED BY <1>2, <2>1, <2>2, <2>3
<1>5. CASE Len(s) # 0
  <2>1. ~(0 >= Len(s)) /\ Len(s) - 0 \in Nat /\ m <= Len(s) - 0
    BY <1>1, <1>5
  <2>2. Min({m, Len(s) - 0}) = m
    BY <1>1, <2>1, MinOfTwo
  <2>3. StrSlice(s, 0, m) = SubSeq(s, 0 + 1, 0 + m)
    BY <1>3, <2>1, <2>2 DEF StrSlice
  <2> QED BY <1>1, <1>2, <2>3
<1> QED BY <1>4, <1>5

\* The three ways of trimming.
LEMMA TrimsAgree ==
    ASSUME NullIsNoText, UIntMod \in Nat, NEW T, NEW s \in Seq(T), Len(s) < UIntMod
    PROVE  MinimalTrim(s) = Trim(s) /\ FsTrim(s) = Trim(s)
<1> DEFINE n == PrefixIn(s, Blank)
           left == Drop(s, n)
           k == SuffixIn(left, Blank)
<1>1. /\ n \in 0..Len(s) /\ left \in Seq(T) /\ Len(left) = Len(s) - n
      /\ k \in 0..Len(left) /\ Len(s) \in Nat
      /\ Trim(s) = SubSeq(left, 1, Len(left) - k)
      /\ OrEmpty(s) = s /\ OrEmpty(left) = left
  BY TrimIs
<1>2. MinimalTrim(s) = SubSeq(left, 1, Len(left) - k)
  BY <1>1 DEF MinimalTrim
<1>3. FsTrimLeft(s) = FsStrSlice(left, 0, Len(left))
  BY <1>1 DEF FsTrimLeft
<1> HIDE DEF left
<1>4. Len(left) \in Nat /\ Len(left) < UIntMod /\ Len(left) \in 0..Len(left) /\ Len(left) - k \in 0..Len(left)
  BY <1>1
<1>5. FsTrimLeft(s) = left
  BY <1>1, <1>3, <1>4, SliceFromStart, WholeSlice
<1>6. FsTrimRight(left) = FsStrSlice(left, 0, Len(left) - k)
  BY <1>1 DEF FsTrimRight
<1>7. FsTrimRight(left) = SubSeq(left, 1, Len(left) - k)
  <2> HIDE DEF k
  <2> QED BY <1>1, <1>4, <1>6, SliceFromStart
<1> QED BY <1>1, <1>2, <1>5, <1>7 DEF FsTrim

\* Searching character by character finds what strstr finds.
LEMMA FindsAgree ==
    ASSUME NEW T, NEW s \in Seq(T), NEW d \in Seq(T)
    PROVE  FsFind(s, d) = Find(s, d, 1)
<1> DEFINE Hit(i) == SubSeq(s, i, i + Len(d) - 1) = d
           hits == {i \in 1..(Len(s) - Len(d) + 1) : Hit(i)}
           Room(h) == Min({Len(d), Len(s) - h + 1})
           Same(h) == {n \in 0..Room(h) : SubSeq(s, h, h + n - 1) = SubSeq(d, 1, n)}
           found == {h \in 1..Len(s) : Max(Same(h)) = Len(d)}
<1>1. Len(s) \in Nat /\ Len(d) \in Nat
  OBVIOUS
<1>2. Find(s, d, 1) = IF hits = {} THEN 0 ELSE Min(hits)
  BY DEF Find
<1>3. FsFind(s, d) = IF d = <<>> THEN 1 ELSE IF found = {} THEN 0 ELSE Min(found)
  BY DEF FsFind
<1>4. CASE d = <<>>
  <2>1. Len(d) = 0
    BY <1>4
  <2>2. 1 \in hits
    <3>1. 1 \in 1..(Len(s) - Len(d) + 1) /\ 1 + Len(d) - 1 = 0
      BY <1>1, <2>1
    <3>2. SubSeq(s, 1, 0) = <<>>
      OBVIOUS
    <3> QED BY <1>4, <3>1, <3>2
  <2>3. hits \in SUBSET Nat /\ hits # {} /\ \A i \in hits : i >= 1
    BY <1>1, <2>1, <2>2
  <2> HIDE DEF hits
  <2>4. Min(hits) \in hits /\ Min(hits) <= 1
    BY <2>2, <2>3, MinOf
  <2>5. Min(hits) = 1
    <3>1. Min(hits) \in Nat /\ Min(hits) >= 1 /\ Min(hits) <= 1
      BY <2>3, <2>4
    <3> QED BY <3>1
  <2> QED BY <1>2, <1>3, <1>4, <2>3, <2>5
<1>5. CASE d # <<>>
  <2>1. Len(d) >= 1
    BY <1>1, <1>5
  <2>2. ASSUME NEW h \in 1..Len(s)
        PROVE  Max(Same(h)) = Len(d) <=> h <= Len(s) - Len(d) + 1 /\ Hit(h)
    <3>1. Len(s) - h + 1 \in Nat
      BY <1>1
    <3>2. Room(h) = IF Len(d) <= Len(s) - h + 1 THEN Len(d) ELSE Len(s) - h + 1
      BY <1>1, <3>1, MinOfTwo
    <3>3. Room(h) \in Nat /\ Room(h) <= Len(d)
      BY <1>1, <3>1, <3>2
    <3>4. 0 \in Same(h)
      <4>1. h + 0 - 1 = h - 1 /\ h \in Int /\ h - 1 < h
        BY <1>1
      <4>2. SubSeq(s, h, h - 1) = <<>> /\ SubSeq(d, 1, 0) = <<>>
        BY <4>1
      <4> HIDE DEF Room
      <4> QED BY <3>3, <4>1, <4>2
    <3>5. Same(h) \in SUBSET (0..Room(h)) /\ Same(h) # {}
      BY <3>4
    <3>6. SubSeq(d, 1, Len(d)) = d
      BY WholeSlice
    <3> DEFINE S == Same(h)
               R == Room(h)
    <3>7. Len(d) \in S <=> Len(d) <= R /\ Hit(h)
      BY <1>1, <3>6
    <3>8. Len(d) <= R <=> h <= Len(s) - Len(d) + 1
      BY <1>1, <3>2
    <3> HIDE DEF S, R, Room, Same
    <3>9. Max(S) \in S /\ \A n \in S : n <= Max(S)
      BY <3>3, <3>5, MaxOf DEF S, R
    <3>10. Max(S) \in Nat /\ Max(S) <= Len(d)
      <4>1. Max(S) \in 0..R /\ R \in Nat /\ R <= Len(d)
        BY <3>3, <3>5, <3>9 DEF S, R
      <4> QED BY <1>1, <4>1
    <3>11. Max(S) = Len(d) <=> Len(d) \in S
      BY <1>1, <3>9, <3>10
    <3> QED BY <3>7, <3>8, <3>11 DEF S
  <2>3. found = hits
    <3>1. \A i \in 1..(Len(s) - Len(d) + 1) : i \in 1..Len(s)
      BY <1>1, <2>1
    <3>2. \A i \in 1..Len(s) : i <= Len(s) - Len(d) + 1 <=> i \in 1..(Len(s) - Len(d) + 1)
      BY <1>1
    <3> HIDE DEF Same, Hit
    <3> QED BY <2>2, <3>1, <3>2
  <2> HIDE DEF found, hits
  <2> QED BY <1>2, <1>3, <1>5, <2>3
<1> QED BY <1>4, <1>5

\* The recursion of StrFormat.
FormatRun(f, p, a) ==
    f = [i \in 1..(Len(p) + 1) |->
            IF i > Len(p) THEN <<>>
            ELSE IF HoleAt(p, i) THEN OrEmpty(a[p[i + 1]]) \o f[i + 3]
            ELSE <<p[i]>> \o f[i + 1]]

\* The first character and the rest.
LEMMA SplitFirst ==
    ASSUME NEW T, NEW s \in Seq(T), NEW i \in 1..Len(s)
    PROVE  Drop(s, i - 1) = <<s[i]>> \o Drop(s, i)
<1> DEFINE L == Len(s)
           u == Drop(s, i - 1)
           v == Drop(s, i)
           w == <<s[i]>>
<1>1. L \in Nat /\ i - 1 \in 0..L /\ i \in 0..L /\ s[i] \in T
  OBVIOUS
<1>2. /\ u \in Seq(T) /\ Len(u) = L - (i - 1) /\ \A j \in 1..(L - (i - 1)) : u[j] = s[(i - 1) + j]
      /\ v \in Seq(T) /\ Len(v) = L - i /\ \A j \in 1..(L - i) : v[j] = s[i + j]
  BY <1>1, DropIs
<1>3. w \in Seq(T) /\ Len(w) = 1 /\ w[1] = s[i]
  BY <1>1
<1> HIDE DEF u, v, w
<1>9. /\ w \o v \in Seq(T) /\ Len(w \o v) = Len(w) + Len(v)
      /\ \A k \in 1..Len(w) : (w \o v)[k] = w[k]
      /\ \A j \in 1..Len(v) : (w \o v)[Len(w) + j] = v[j]
  <2>1. w \in Seq(T) /\ v \in Seq(T)
    BY <1>2, <1>3
  <2> QED BY <2>1, ConcatIs
<1>4. w \o v \in Seq(T) /\ Len(w \o v) = 1 + Len(v)
  BY <1>3, <1>9
<1>5. (w \o v)[1] = s[i] /\ \A j \in 1..Len(v) : (w \o v)[1 + j] = v[j]
  <2>1. (w \o v)[1] = w[1]
    <3>1. 1 \in 1..Len(w)
      BY <1>3
    <3> QED BY <1>9, <3>1
  <2>2. ASSUME NEW j \in 1..Len(v) PROVE (w \o v)[1 + j] = v[j]
    <3>1. (w \o v)[Len(w) + j] = v[j]
      BY <1>9
    <3> QED BY <1>3, <3>1
  <2> QED BY <1>3, <2>1, <2>2
<1>6. Len(u) = Len(w \o v) /\ Len(u) \in Nat
  BY <1>1, <1>2, <1>4
<1>7. ASSUME NEW j \in 1..Len(u) PROVE u[j] = (w \o v)[j]
  <2>1. j \in 1..(L - (i - 1)) /\ u[j] = s[(i - 1) + j]
    BY <1>2, <1>7
  <2>2. CASE j = 1
    <3>1. (i - 1) + j = i
      BY <1>1, <2>2
    <3> QED BY <1>5, <2>1, <2>2, <3>1
  <2>3. CASE j # 1
    <3>1. j - 1 \in 1..(L - i) /\ 1 + (j - 1) = j /\ i + (j - 1) = (i - 1) + j /\ j - 1 \in 1..Len(v)
      BY <1>1, <1>2, <2>1, <2>3
    <3>2. (w \o v)[1 + (j - 1)] = v[j - 1] /\ v[j - 1] = s[i + (j - 1)]
      BY <1>2, <1>5, <3>1
    <3> QED BY <2>1, <3>1, <3>2
  <2> QED BY <2>2, <2>3
<1>8. u = w \o v
  BY <1>2, <1>4, <1>6, <1>7, SameElements
<1> QED BY <1>8 DEF u, v, w

\* A pattern without holes is its own expansion.
LEMMA FormatWithoutHoles ==
    ASSUME NullIsNoText, NEW T, NEW p \in Seq(T), NEW a,
           \A i \in 1..Len(p) : ~HoleAt(p, i)
    PROVE  StrFormat(p, a) = p
<1> DEFINE L == Len(p)
<1>1. L \in Nat /\ p # Null
  BY DEF NullIsNoText
<1> DEFINE f == [i \in 1..(L + 1) |-> Drop(p, i - 1)]
           g == CHOOSE h : FormatRun(h, p, a)
<1>2. Drop(p, L) = <<>> /\ Drop(p, 0) = p
  <2>1. SubSeq(p, L + 1, L) = <<>>
    BY <1>1
  <2>2. 0 + 1 = 1
    OBVIOUS
  <2> QED BY <2>1, <2>2, WholeSlice DEF Drop
<1>3. FormatRun(f, p, a)
  <2>1. ASSUME NEW i \in 1..(L + 1)
        PROVE  f[i] = IF i > L THEN <<>>
                      ELSE IF HoleAt(p, i) THEN OrEmpty(a[p[i + 1]]) \o f[i + 3]
                      ELSE <<p[i]>> \o f[i + 1]
    <3>1. CASE i > L
      <4>1. i = L + 1 /\ (L + 1) - 1 = L
        BY <1>1, <3>1
      <4> QED BY <1>2, <3>1, <4>1
    <3>2. CASE ~(i > L)
      <4>1. i \in 1..L /\ i + 1 \in 1..(L + 1) /\ (i + 1) - 1 = i
        BY <1>1, <3>2
      <4>2. f[i + 1] = Drop(p, i) /\ ~HoleAt(p, i)
        BY <4>1
      <4>3. Drop(p, i - 1) = <<p[i]>> \o Drop(p, i)
        BY <4>1, SplitFirst
      <4> QED BY <3>2, <4>2, <4>3
    <3> QED BY <3>1, <3>2
  <2> HIDE DEF f
  <2>2. f = [i \in 1..(L + 1) |-> f[i]]
    BY DEF f
  <2> QED BY <2>1, <2>2 DEF FormatRun
<1>4. FormatRun(g, p, a)
  BY <1>3
<1>5. StrFormat(p, a) = g[1]
  BY <1>1 DEF StrFormat, FormatRun
<1> HIDE DEF g
<1>6. \A i \in 1..(L + 1) : g[i] = IF i > L THEN <<>> ELSE <<p[i]>> \o g[i + 1]
  <2>1. ASSUME NEW i \in 1..(L + 1), ~(i > L) PROVE ~HoleAt(p, i)
    <3>1. i \in 1..L
      BY <1>1, <2>1
    <3> QED BY <3>1
  <2> QED BY <1>4, <2>1 DEF FormatRun
<1> DEFINE U == {n \in Nat : n <= L => g[(L - n) + 1] = Drop(p, L - n)}
<1>7. 0 \in U
  <2>1. (L - 0) + 1 \in 1..(L + 1) /\ (L - 0) + 1 > L /\ L - 0 = L
    BY <1>1
  <2>2. g[(L - 0) + 1] = <<>>
    BY <1>6, <2>1
  <2> QED BY <1>2, <2>1, <2>2
<1>8. ASSUME NEW n \in Nat, n \in U PROVE n + 1 \in U
  <2>1. SUFFICES ASSUME n + 1 <= L PROVE g[(L - (n + 1)) + 1] = Drop(p, L - (n + 1))
    OBVIOUS
  <2> DEFINE i == L - n
  <2>2. (L - (n + 1)) + 1 = i /\ L - (n + 1) = i - 1 /\ i \in 1..(L + 1) /\ i \in 1..L /\ ~(i > L) /\ n <= L
    BY <1>1, <2>1
  <2>3. g[i + 1] = Drop(p, i)
    BY <1>8, <2>2
  <2> HIDE DEF i
  <2>4. g[i] = <<p[i]>> \o g[i + 1]
    BY <1>6, <2>2
  <2>5. Drop(p, i - 1) = <<p[i]>> \o Drop(p, i)
    BY <2>2, SplitFirst
  <2> QED BY <2>2, <2>3, <2>4, <2>5
<1> HIDE DEF U
<1>9. Nat \subseteq U
  BY <1>7, <1>8, SetInduction
<1>10. g[1] = p
  <2>1. L \in U /\ L <= L /\ (L - L) + 1 = 1 /\ L - L = 0
    BY <1>1, <1>9
  <2> QED BY <1>2, <2>1 DEF U
<1> QED BY <1>5, <1>10

\* In a text without a backslash the two sets of separators are one.
LEMMA OneSeparator ==
    ASSUME NEW T, "\\" \notin T, NEW s \in Seq(T)
    PROVE  /\ \A i \in 1..Len(s) : s[i] \in Slashes <=> s[i] \in Slash
           /\ PrefixIn(s, Slashes) = PrefixIn(s, Slash)
           /\ SuffixIn(s, Slashes) = SuffixIn(s, Slash)
<1>1. ASSUME NEW x \in T PROVE x \in Slashes <=> x \in Slash
  BY DEF Slashes, Slash
<1>2. ASSUME NEW t \in Seq(T)
      PROVE  /\ \A i \in 1..Len(t) : t[i] \in Slashes <=> t[i] \in Slash
             /\ PrefixIn(t, Slashes) = PrefixIn(t, Slash)
  <2>1. \A i \in 1..Len(t) : t[i] \in Slashes <=> t[i] \in Slash
    BY <1>1, ElementsOf
  <2>2. Len(t) \in Nat
    OBVIOUS
  <2>3. \A n \in 1..Len(t) : (\A i \in 1..n : t[i] \in Slashes) <=> (\A i \in 1..n : t[i] \in Slash)
    <3>1. \A n \in 1..Len(t) : \A i \in 1..n : i \in 1..Len(t)
      BY <2>2
    <3> QED BY <2>1, <3>1
  <2>4. {n \in 1..Len(t) : \A i \in 1..n : t[i] \in Slashes} = {n \in 1..Len(t) : \A i \in 1..n : t[i] \in Slash}
    BY <2>3
  <2> QED BY <2>1, <2>4 DEF PrefixIn
<1>3. Reverse(s) \in Seq(T)
  BY ReverseIs
<1> QED BY <1>2, <1>3 DEF SuffixIn

\* Joining, parents and extensions of paths without a backslash.
LEMMA JoinsOfPaths ==
    ASSUME NullIsNoText, NEW T, "\\" \notin T, NEW a \in Seq(T), NEW b \in Seq(T)
    PROVE  /\ JoinWith(a, b, Slashes) = JoinWith(a, b, Slash)
           /\ a # <<>> /\ Last(a) # "/" => FsPathJoin(a, b) = JoinWith(a, b, Slash)
<1>1. a # Null /\ b # Null /\ <<"/">> # Null
  <2>1. <<"/">> \in Seq({"/"})
    OBVIOUS
  <2> QED BY <2>1 DEF NullIsNoText
<1>2. a # <<>> => (Last(a) \in Slashes <=> Last(a) \in Slash)
  <2>1. a # <<>> => Len(a) \in 1..Len(a)
    OBVIOUS
  <2> QED BY <2>1, OneSeparator DEF Last
<1>3. JoinWith(a, b, Slashes) = JoinWith(a, b, Slash)
  BY <1>1, <1>2 DEF JoinWith
<1>4. FsPathJoin(a, b) = a \o <<"/">> \o b
  BY <1>1 DEF FsPathJoin, FsJoin2, OrEmpty
<1>5. a # <<>> /\ Last(a) # "/" => JoinWith(a, b, Slash) = a \o <<"/">> \o b
  BY <1>1 DEF JoinWith, Slash
<1> QED BY <1>3, <1>4, <1>5

LEMMA ParentsOfPaths ==
    ASSUME NullIsNoText, NEW T, "\\" \notin T, NEW p \in Seq(T)
    PROVE  ParentWith(p, Slashes) = ParentWith(p, Slash)
<1> DEFINE name == SubSeq(p, 1, Len(p) - SuffixIn(p, Slash))
           ends == {0} \cup {i \in 1..Len(name) : name[i] \in Slash}
           dir == SubSeq(name, 1, Max(ends))
           rest == SubSeq(dir, 1, Len(dir) - SuffixIn(dir, Slash))
<1>1. name \in Seq(T)
  <2>1. SuffixIn(p, Slash) \in 0..Len(p) /\ Len(p) \in Nat
    BY SuffixIs
  <2>2. Len(p) - SuffixIn(p, Slash) \in 0..Len(p)
    BY <2>1
  <2> QED BY <2>2, SubSeqPrefix
<1>2. name = SubSeq(p, 1, Len(p) - SuffixIn(p, Slashes))
  BY OneSeparator
<1> HIDE DEF name
<1>3. ends = {0} \cup {i \in 1..Len(name) : name[i] \in Slashes}
  <2>1. \A i \in 1..Len(name) : name[i] \in Slashes <=> name[i] \in Slash
    BY <1>1, OneSeparator
  <2> QED BY <2>1
<1>4. dir \in Seq(T)
  <2>1. Len(name) \in Nat /\ ends \in SUBSET (0..Len(name)) /\ ends # {}
    BY <1>1
  <2> HIDE DEF ends
  <2>2. Max(ends) \in 0..Len(name)
    BY <2>1, MaxOf
  <2> QED BY <1>1, <2>2, SubSeqPrefix
<1>5. dir = SubSeq(name, 1, Max({0} \cup {i \in 1..Len(name) : name[i] \in Slashes}))
  BY <1>3
<1> HIDE DEF dir, ends
<1>6. rest = SubSeq(dir, 1, Len(dir) - SuffixIn(dir, Slashes))
  BY <1>4, OneSeparator
<1>7. ParentWith(p, Slashes) = IF p = Null THEN <<>> ELSE IF rest = <<>> THEN <<".">> ELSE rest
  <2> HIDE DEF rest
  <2> QED BY <1>2, <1>5, <1>6 DEF ParentWith
<1>8. ParentWith(p, Slash) = IF p = Null THEN <<>> ELSE IF rest = <<>> THEN <<".">> ELSE rest
  BY DEF ParentWith, rest, dir, ends, name
<1> QED BY <1>7, <1>8

LEMMA ExtensionsOfPaths ==
    ASSUME NullIsNoText, NEW T, "\\" \notin T, NEW p \in Seq(T)
    PROVE  ExtWith(p, Slashes) = ExtWith(p, Slash)
<1>1. Len(p) \in Nat /\ \A i \in 1..Len(p) : p[i] # "\\"
  BY ElementsOf
<1>2. ASSUME NEW c PROVE LastAt(p, c) \in 0..Len(p)
  <2> DEFINE S == {0} \cup {i \in 1..Len(p) : p[i] = c}
  <2>1. S \in SUBSET (0..Len(p)) /\ S # {}
    BY <1>1
  <2>2. LastAt(p, c) = Max(S)
    BY DEF LastAt
  <2> HIDE DEF S
  <2> QED BY <1>1, <2>1, <2>2, MaxOf
<1> DEFINE dot == LastAt(p, ".")
           back == LastAt(p, "\\")
<1>3. back = 0
  <2> DEFINE S == {0} \cup {i \in 1..Len(p) : p[i] = "\\"}
  <2>1. \A x \in S : x = 0
    BY <1>1
  <2>2. 0 \in S /\ S \in SUBSET (0..Len(p)) /\ S # {}
    BY <1>1
  <2>3. back = Max(S)
    BY DEF LastAt
  <2> HIDE DEF S, back
  <2>4. Max(S) \in S
    BY <1>1, <2>2, MaxOf
  <2> QED BY <2>1, <2>3, <2>4
<1>4. dot \in Nat
  <2>1. dot \in 0..Len(p)
    BY <1>2
  <2> HIDE DEF dot
  <2> QED BY <1>1, <2>1
<1>5. ~(back > dot)
  <2> HIDE DEF back, dot
  <2> QED BY <1>3, <1>4
<1>6. (\E c \in Slashes : LastAt(p, c) > dot) <=> (\E c \in Slash : LastAt(p, c) > dot)
  <2> HIDE DEF dot
  <2> QED BY <1>5 DEF Slashes, Slash, back
<1> QED BY <1>6 DEF ExtWith

\* Splitting, joining, formatting and escaping in the small runtimes.
LEMMA WordsAgree ==
    ASSUME NullIsNoText, NEW T, NEW s \in Seq(T), NEW d \in Seq(T), d # <<>>
    PROVE  /\ MinimalSplitCount(s, d) = SplitCount(s, d)
           /\ \A k : MinimalSplitPart(s, d, k) = SplitPart(s, d, k)
           /\ \A k : WinSplit(s, d, k) = <<SplitCount(s, d), SplitPart(s, d, k)>>
<1>1. ~NoSplit(s, d)
  BY DEF NoSplit, NullIsNoText
<1>2. MinimalSplitCount(s, d) = SplitCount(s, d)
  BY <1>1 DEF MinimalSplitCount
<1>3. ASSUME NEW k PROVE MinimalSplitPart(s, d, k) = SplitPart(s, d, k)
  BY <1>1 DEF MinimalSplitPart, SplitPart
<1> QED BY <1>2, <1>3 DEF WinSplit

LEMMA JoinsAgree ==
    ASSUME NullIsNoText, NEW T, NEW a \in Seq(T), NEW b \in Seq(T), NEW sep, a # <<>>, b # <<>>
    PROVE  /\ MinimalJoin2(a, b, sep) = Join2(a, b, sep) /\ WinJoin2(a, b, sep) = Join2(a, b, sep)
           /\ FsJoin2(a, b, sep) = Join2(a, b, sep)
<1>1. OrEmpty(a) = a /\ OrEmpty(b) = b
  BY DEF NullIsNoText, OrEmpty
<1> QED BY <1>1 DEF MinimalJoin2, WinJoin2, FsJoin2, Join2

LEMMA FormatsAgree ==
    ASSUME NullIsNoText, NEW T, NEW p \in Seq(T), \A i \in 1..Len(p) : ~HoleAt(p, i)
    PROVE  LET none == [d \in Digit |-> Null]
           IN  \A thin \in {MinimalFormat(p, none), WinFormat(p, none), FsFormat(p, none)} :
                   thin = StrFormat(p, none)
<1> DEFINE none == [d \in Digit |-> Null]
<1>1. OrEmpty(p) = p /\ OrEmpty(Null) = <<>>
  BY DEF NullIsNoText, OrEmpty
<1>2. none["0"] = Null
  BY DEF Digit
<1> HIDE DEF none
<1>3. MinimalFormat(p, none) = p /\ WinFormat(p, none) = p /\ FsFormat(p, none) = p
  BY <1>1, <1>2 DEF MinimalFormat, WinFormat, FsFormat
<1>4. StrFormat(p, none) = p
  BY FormatWithoutHoles
<1> QED BY <1>3, <1>4 DEF none

------------------------------------------------------------------------------
\* Slices and trimmed texts are windows of the text.
\* The functions of Text, as cuts.
LEMMA DropIsCut ==
    ASSUME NEW T, NEW s \in Seq(T), NEW n \in 0..Len(s)
    PROVE  Drop(s, n) = Cut(s, n, Len(s)) /\ SubSeq(s, 1, n) = Cut(s, 0, n)
<1>1. 0 + 1 = 1
  OBVIOUS
<1> QED BY <1>1 DEF Drop, Cut

\* A slice is a window, and trimming takes off blanks only and all of them.
LEMMA SlicesAreWindows ==
    ASSUME NullIsNoText, NEW T, NEW s \in Seq(T), NEW start \in Nat, NEW len \in Nat
    PROVE  SliceIsWindow(s, start, len)
<1> DEFINE L == Len(s)
           r == StrSlice(s, start, len)
           m == Min({len, L - start})
<1>1. L \in Nat /\ s # Null
  BY DEF NullIsNoText
<1>2. /\ Len(r) = IF start >= L THEN 0 ELSE m
      /\ \A i \in 1..Len(r) : r[i] = s[start + i]
  <2>1. CASE start >= L
    <3>1. r = <<>> /\ Len(<<>>) = 0
      BY <1>1, <2>1 DEF StrSlice
    <3> HIDE DEF r
    <3> QED BY <2>1, <3>1
  <2>2. CASE ~(start >= L)
    <3>1. r = Cut(s, start, start + m)
      BY <1>1, <2>2 DEF StrSlice, Cut
    <3>2. L - start \in Nat
      BY <1>1, <2>2
    <3>3. m \in Nat /\ m <= L - start
      BY <3>2, MinOfTwo
    <3> HIDE DEF m, r
    <3>4. CutPlaces(s, start, start + m) /\ (start + m) - start = m
      BY <1>1, <2>2, <3>3 DEF CutPlaces
    <3>5. Len(r) = m /\ \A i \in 1..m : r[i] = s[start + i]
      BY <3>1, <3>4, CutIs
    <3> QED BY <2>2, <3>5
  <2> QED BY <2>1, <2>2
<1> DEFINE n == PrefixIn(s, Blank)
           left == Drop(s, n)
           k == SuffixIn(left, Blank)
           e == L - k
           t == Trim(s)
<1>3. /\ n \in 0..L /\ left \in Seq(T) /\ Len(left) = L - n
      /\ k \in 0..Len(left) /\ t = SubSeq(left, 1, Len(left) - k)
  BY TrimIs
<1>4. (\A i \in 1..n : s[i] \in Blank) /\ (n < L => s[n + 1] \notin Blank)
  BY PrefixIs
<1>5. left = Cut(s, n, L)
  <2> HIDE DEF n
  <2> QED BY <1>3, DropIsCut
<1>6. /\ \A i \in (Len(left) - k + 1)..Len(left) : left[i] \in Blank
      /\ k < Len(left) => left[Len(left) - k] \notin Blank
  <2>1. left \in Seq(T)
    BY <1>3
  <2> HIDE DEF left
  <2> QED BY <2>1, SuffixIs
<1> HIDE DEF t, left, k, n, e
<1>7. e = L - k /\ n \in Nat /\ n <= e /\ e <= L /\ k \in Nat /\ e \in Nat /\ Len(left) - k = e - n
  BY <1>1, <1>3 DEF e
<1>8. CutPlaces(s, 0, n) /\ CutPlaces(s, n, e) /\ CutPlaces(s, e, L) /\ CutPlaces(s, n, L) /\ CutPlaces(s, 0, e)
  BY <1>1, <1>7 DEF CutPlaces
<1>9. t = Cut(s, n, e)
  <2>1. SubSeq(left, 1, e - n) = Cut(left, 0, e - n)
    <3>1. 0 + 1 = 1
      OBVIOUS
    <3> QED BY <3>1 DEF Cut
  <2>2. Cut(Cut(s, n, L), 0, e - n) = Cut(s, n + 0, n + (e - n))
    <3>1. 0 \in Nat /\ e - n \in Nat /\ 0 <= e - n /\ e - n <= L - n
      BY <1>1, <1>7
    <3> DEFINE z == 0
    <3>2. z \in Nat /\ z <= e - n
      BY <3>1
    <3> HIDE DEF z
    <3>3. Cut(Cut(s, n, L), z, e - n) = Cut(s, n + z, n + (e - n))
      BY <1>8, <3>1, <3>2, CutCut
    <3> QED BY <3>3 DEF z
  <2>3. n + 0 = n /\ n + (e - n) = e
    BY <1>7
  <2> QED BY <1>3, <1>5, <1>7, <2>1, <2>2, <2>3
<1>10. s = SubSeq(s, 1, n) \o t \o Drop(s, e)
  <2>1. SubSeq(s, 1, n) = Cut(s, 0, n) /\ Drop(s, e) = Cut(s, e, L)
    <3>1. n \in 0..L /\ e \in 0..L
      BY <1>7
    <3> QED BY <3>1, DropIsCut
  <2>2. Cut(s, 0, n) \o Cut(s, n, e) = Cut(s, 0, e)
    BY <1>8, CutJoin
  <2>3. Cut(s, 0, e) \o Cut(s, e, L) = Cut(s, 0, L)
    BY <1>8, CutJoin
  <2> QED BY <1>9, <2>1, <2>2, <2>3, CutWhole
<1>11. \A i \in (1..n) \cup ((e + 1)..L) : s[i] \in Blank
  <2>1. ASSUME NEW i \in (e + 1)..L PROVE s[i] \in Blank
    <3> DEFINE j == i - n
    <3>1. j \in (Len(left) - k + 1)..Len(left) /\ j \in 1..(L - n) /\ n + j = i
      BY <1>1, <1>3, <1>7
    <3> HIDE DEF j
    <3>2. left[j] = s[n + j]
      BY <1>5, <1>8, <3>1, CutIs
    <3> QED BY <1>6, <3>1, <3>2
  <2> QED BY <1>4, <2>1
<1>12. ASSUME t # <<>> PROVE Head(t) \notin Blank /\ Last(t) \notin Blank
  <2>1. t \in Seq(T) /\ Len(t) = e - n /\ \A x \in 1..(e - n) : t[x] = s[n + x]
    BY <1>8, <1>9, CutIs
  <2>2. n < e /\ 1 \in 1..(e - n) /\ e - n \in 1..(e - n)
    <3>1. Len(t) # 0
      BY <1>12, <2>1, ConcatEmpty
    <3> QED BY <1>7, <2>1, <3>1
  <2>3. Head(t) = s[n + 1]
    <3>1. Head(t) = t[1]
      OBVIOUS
    <3> QED BY <2>1, <2>2, <3>1
  <2>4. Last(t) = s[e]
    <3>1. n + (e - n) = e
      BY <1>7
    <3> QED BY <2>1, <2>2, <3>1 DEF Last
  <2>5. s[e] \notin Blank
    <3>1. k < Len(left) /\ Len(left) - k \in 1..(L - n) /\ n + (Len(left) - k) = e
      BY <1>1, <1>3, <1>7, <2>2
    <3>2. left[Len(left) - k] = s[n + (Len(left) - k)]
      BY <1>5, <1>8, <3>1, CutIs
    <3> QED BY <1>6, <3>1, <3>2
  <2>6. n < L
    BY <1>1, <1>7, <2>2
  <2> QED BY <1>4, <2>3, <2>4, <2>5, <2>6
<1>13. \E a, b \in 0..L :
          /\ s = SubSeq(s, 1, a) \o t \o Drop(s, b)
          /\ \A i \in (1..a) \cup ((b + 1)..L) : s[i] \in Blank
  <2>1. n \in 0..L /\ e \in 0..L
    BY <1>7
  <2> QED BY <2>1, <1>10, <1>11
<1> QED BY <1>2, <1>12, <1>13, Zenon DEF SliceIsWindow, t

------------------------------------------------------------------------------
(* Splitting: where the parts begin, the parts of a text with something    *)
(* before it, and what a delimiter put between them gives.                  *)

\* The delimiter is at place i.
Match(s, d, i) == SubSeq(s, i, i + Len(d) - 1) = d

\* Find is the first place from p on where the delimiter is.
LEMMA FindIs ==
    ASSUME NEW T, NEW s \in Seq(T), NEW d \in Seq(T), NEW p \in Nat \ {0}
    PROVE  /\ Len(s) \in Nat /\ Len(d) \in Nat
           /\ Find(s, d, p) \in Nat
           /\ Find(s, d, p) # 0 => /\ p <= Find(s, d, p) /\ Find(s, d, p) <= Len(s) - Len(d) + 1
                                   /\ Match(s, d, Find(s, d, p))
           /\ \A i \in p..(Len(s) - Len(d) + 1) :
                 Match(s, d, i) => Find(s, d, p) # 0 /\ Find(s, d, p) <= i
<1> DEFINE hits == {i \in p..(Len(s) - Len(d) + 1) : Match(s, d, i)}
           f == Find(s, d, p)
<1>1. Len(s) \in Nat /\ Len(d) \in Nat
  OBVIOUS
<1>2. f = IF hits = {} THEN 0 ELSE Min(hits)
  BY DEF Find, Match
<1>3. hits \in SUBSET Nat /\ \A i \in hits : i # 0
  BY <1>1
<1>4. \A i \in p..(Len(s) - Len(d) + 1) : i \in Nat /\ p <= i /\ i <= Len(s) - Len(d) + 1
  BY <1>1
<1>5. CASE hits = {}
  <2>1. f = 0
    BY <1>2, <1>5
  <2>2. \A i \in p..(Len(s) - Len(d) + 1) : ~Match(s, d, i)
    BY <1>5
  <2> HIDE DEF hits, f
  <2>3. f \in Nat
    BY <2>1
  <2> QED BY <1>1, <2>1, <2>2, <2>3 DEF f
<1>6. CASE hits # {}
  <2> DEFINE m == Min(hits)
  <2>1. f = m
    BY <1>2, <1>6
  <2>2. m \in hits /\ \A i \in hits : m <= i
    <3> HIDE DEF hits
    <3> QED BY <1>3, <1>6, MinOf
  <2> HIDE DEF f, m
  <2>3. m \in Nat /\ m # 0 /\ p <= m /\ m <= Len(s) - Len(d) + 1 /\ Match(s, d, m)
    BY <1>3, <1>4, <2>2
  <2>4. \A i \in p..(Len(s) - Len(d) + 1) : Match(s, d, i) => m <= i
    BY <2>2
  <2> HIDE DEF hits
  <2> QED BY <1>1, <2>1, <2>3, <2>4 DEF f
<1> QED BY <1>5, <1>6

\* Where the part after the one at p begins, 0 if there is none.
StartAfter(s, d, p) ==
    LET hit == IF p = 0 THEN 0 ELSE Find(s, d, p)
    IN  IF hit = 0 THEN 0 ELSE hit + Len(d)

PartRun(b, s, d, k) ==
    b = [i \in 0..k |-> IF i = 0 THEN 1
                        ELSE LET hit == IF b[i - 1] = 0 THEN 0 ELSE Find(s, d, b[i - 1])
                             IN  IF hit = 0 THEN 0 ELSE hit + Len(d)]

\* The next part begins inside the text or at its end, behind a delimiter.
LEMMA StartAfterIs ==
    ASSUME NEW T, NEW s \in Seq(T), NEW d \in Seq(T), NEW p \in 0..(Len(s) + 1)
    PROVE  /\ StartAfter(s, d, p) \in 0..(Len(s) + 1)
           /\ StartAfter(s, d, p) # 0 => p # 0 /\ p + Len(d) <= StartAfter(s, d, p)
<1>1. Len(s) \in Nat /\ Len(d) \in Nat
  OBVIOUS
<1>2. CASE p = 0
  <2>1. StartAfter(s, d, p) = 0
    BY <1>2 DEF StartAfter
  <2> QED BY <1>1, <2>1
<1>3. CASE p # 0
  <2> DEFINE f == Find(s, d, p)
  <2>1. p \in Nat \ {0}
    BY <1>1, <1>3
  <2>2. f \in Nat /\ (f # 0 => p <= f /\ f <= Len(s) - Len(d) + 1)
    BY <2>1, FindIs
  <2>3. StartAfter(s, d, p) = IF f = 0 THEN 0 ELSE f + Len(d)
    BY <1>3 DEF StartAfter
  <2> HIDE DEF f
  <2> QED BY <1>1, <1>3, <2>1, <2>2, <2>3
<1> QED BY <1>2, <1>3

\* There is a table of where the parts begin.
LEMMA PartRunExists ==
    ASSUME NEW T, NEW s \in Seq(T), NEW d \in Seq(T), NEW k \in Nat
    PROVE  \E b : PartRun(b, s, d, k)
<1> DEFINE S == 0..(Len(s) + 1)
           F == [i \in 1..k |-> [p \in S |-> StartAfter(s, d, p)]]
           one == 1
<1>1. Len(s) \in Nat /\ one \in S
  OBVIOUS
<1>2. StepsOn(F, k, S)
  <2>1. \A p \in S : StartAfter(s, d, p) \in S
    BY StartAfterIs
  <2> HIDE DEF S
  <2> QED BY <2>1 DEF StepsOn
<1> HIDE DEF one
<1>3. PICK f : StepsFrom(f, F, k, S, one)
  <2> HIDE DEF F, S
  <2> QED BY <1>1, <1>2, RecursionExists
<1>4. ASSUME NEW i \in 0..k
      PROVE  f[i] = IF i = 0 THEN 1
                    ELSE LET hit == IF f[i - 1] = 0 THEN 0 ELSE Find(s, d, f[i - 1])
                         IN  IF hit = 0 THEN 0 ELSE hit + Len(d)
  <2>1. CASE i = 0
    BY <1>3, <2>1 DEF StepsFrom, one
  <2>2. CASE i # 0
    <3>1. i \in 1..k /\ i - 1 \in 0..k
      BY <2>2
    <3>2. f[i] = F[i][f[i - 1]] /\ f[i - 1] \in S
      <4> HIDE DEF F, S
      <4> QED BY <1>3, <3>1 DEF StepsFrom
    <3>3. f[i] = StartAfter(s, d, f[i - 1])
      <4> HIDE DEF S
      <4> QED BY <3>1, <3>2
    <3> QED BY <2>2, <3>3 DEF StartAfter
  <2> QED BY <2>1, <2>2
<1>5. f = [i \in 0..k |-> f[i]]
  BY <1>3 DEF StepsFrom
<1>6. PartRun(f, s, d, k)
  <2> HIDE DEF S, F
  <2> QED BY <1>4, <1>5 DEF PartRun
<1> QED BY <1>6

\* Each part but the first begins where StartAfter says.
LEMMA PartRunSteps ==
    ASSUME NEW s, NEW d, NEW k \in Nat, NEW b, PartRun(b, s, d, k)
    PROVE  b[0] = 1 /\ \A i \in 1..k : b[i] = StartAfter(s, d, b[i - 1])
<1>1. 0 \in 0..k /\ \A i \in 1..k : i \in 0..k /\ i # 0
  OBVIOUS
<1>2. b[0] = 1
  BY <1>1 DEF PartRun
<1>3. ASSUME NEW i \in 1..k PROVE b[i] = StartAfter(s, d, b[i - 1])
  <2>1. b[i] = LET hit == IF b[i - 1] = 0 THEN 0 ELSE Find(s, d, b[i - 1])
               IN  IF hit = 0 THEN 0 ELSE hit + Len(d)
    BY <1>1 DEF PartRun
  <2> QED BY <2>1 DEF StartAfter
<1> QED BY <1>2, <1>3

\* PartStart is that table.
LEMMA PartStartIs ==
    ASSUME NEW T, NEW s \in Seq(T), NEW d \in Seq(T)
    PROVE  /\ PartStart(s, d, 0) = 1
           /\ \A k \in Nat : PartStart(s, d, k + 1) = StartAfter(s, d, PartStart(s, d, k))
<1> DEFINE run(k) == CHOOSE b : PartRun(b, s, d, k)
<1>1. \A k : PartStart(s, d, k) = run(k)[k]
  BY DEF PartStart, PartRun
<1>2. ASSUME NEW k \in Nat
      PROVE  run(k)[0] = 1 /\ \A i \in 1..k : run(k)[i] = StartAfter(s, d, run(k)[i - 1])
  <2>1. PartRun(run(k), s, d, k)
    BY PartRunExists
  <2> HIDE DEF run
  <2> QED BY <2>1, PartRunSteps
<1> HIDE DEF run
<1>3. ASSUME NEW k \in Nat PROVE PartStart(s, d, k + 1) = StartAfter(s, d, PartStart(s, d, k))
  <2> DEFINE f == run(k)
             g == run(k + 1)
             U == {i \in Nat : i <= k => f[i] = g[i]}
  <2>1. f[0] = 1 /\ \A i \in 1..k : f[i] = StartAfter(s, d, f[i - 1])
    BY <1>2
  <2>2. k + 1 \in Nat /\ k + 1 \in 1..(k + 1) /\ (k + 1) - 1 = k /\ k <= k
    OBVIOUS
  <2>3. g[0] = 1 /\ \A i \in 1..(k + 1) : g[i] = StartAfter(s, d, g[i - 1])
    BY <1>2, <2>2
  <2> HIDE DEF f, g
  <2>4. 0 \in U
    BY <2>1, <2>3
  <2>5. ASSUME NEW i \in Nat, i \in U PROVE i + 1 \in U
    <3>1. SUFFICES ASSUME i + 1 <= k PROVE f[i + 1] = g[i + 1]
      OBVIOUS
    <3>2. i + 1 \in 1..k /\ i + 1 \in 1..(k + 1) /\ (i + 1) - 1 = i /\ i <= k
      BY <3>1
    <3>3. f[i] = g[i]
      BY <2>5, <3>2
    <3>4. f[i + 1] = StartAfter(s, d, f[(i + 1) - 1]) /\ g[i + 1] = StartAfter(s, d, g[(i + 1) - 1])
      BY <2>1, <2>3, <3>2
    <3> QED BY <3>2, <3>3, <3>4
  <2> HIDE DEF U
  <2>6. Nat \subseteq U
    BY <2>4, <2>5, SetInduction
  <2>7. f[k] = g[k]
    BY <2>2, <2>6 DEF U
  <2>8. g[k + 1] = StartAfter(s, d, g[(k + 1) - 1])
    BY <2>2, <2>3
  <2> QED BY <1>1, <2>2, <2>7, <2>8 DEF f, g
<1>4. PartStart(s, d, 0) = 1
  BY <1>1, <1>2
<1> QED BY <1>3, <1>4

\* The parts begin one after the other, and there are SplitCount of them.
LEMMA PartStartsGrow ==
    ASSUME NEW T, NEW s \in Seq(T), NEW d \in Seq(T), d # <<>>, NEW k \in Nat
    PROVE  /\ PartStart(s, d, k) \in 0..(Len(s) + 1)
           /\ PartStart(s, d, k) # 0 => k + 1 <= PartStart(s, d, k)
<1> DEFINE Good(x, n) == x \in 0..(Len(s) + 1) /\ (x # 0 => n + 1 <= x)
           U == {n \in Nat : Good(PartStart(s, d, n), n)}
<1>1. Len(s) \in Nat /\ Len(d) \in Nat /\ Len(d) >= 1
  OBVIOUS
<1>2. 0 \in U
  <2>1. PartStart(s, d, 0) = 1
    BY PartStartIs
  <2>2. Good(1, 0)
    BY <1>1
  <2> QED BY <2>1, <2>2
<1>3. ASSUME NEW n \in Nat, n \in U PROVE n + 1 \in U
  <2> DEFINE x == PartStart(s, d, n)
             y == StartAfter(s, d, x)
  <2>1. x \in 0..(Len(s) + 1) /\ (x # 0 => n + 1 <= x)
    BY <1>3
  <2>2. PartStart(s, d, n + 1) = y
    BY PartStartIs
  <2> HIDE DEF x
  <2>3. y \in 0..(Len(s) + 1) /\ (y # 0 => x # 0 /\ x + Len(d) <= y)
    BY <2>1, StartAfterIs
  <2> HIDE DEF y
  <2>4. Good(y, n + 1)
    BY <1>1, <2>1, <2>3
  <2> QED BY <2>2, <2>4
<1> HIDE DEF U
<1>4. Nat \subseteq U
  BY <1>2, <1>3, SetInduction
<1> QED BY <1>4 DEF U

\* m is the number of parts: the parts that begin somewhere are the first m.
Begins(s, d, m) == m \in Nat \ {0} /\ \A k \in Nat : PartStart(s, d, k) # 0 <=> k < m

\* SplitCount is the number of parts.
LEMMA SplitCountIs ==
    ASSUME NullIsNoText, NEW T, NEW s \in Seq(T), NEW d \in Seq(T), d # <<>>
    PROVE  Begins(s, d, SplitCount(s, d))
<1> DEFINE Z == {k \in Nat : PartStart(s, d, k) = 0}
           L == Len(s)
<1>1. L \in Nat /\ ~NoSplit(s, d)
  BY DEF NoSplit, NullIsNoText
<1>2. L + 1 \in Z
  <2>1. L + 1 \in Nat
    BY <1>1
  <2> DEFINE x == PartStart(s, d, L + 1)
  <2>2. x \in 0..(L + 1) /\ (x # 0 => (L + 1) + 1 <= x)
    BY <2>1, PartStartsGrow
  <2> HIDE DEF x
  <2>3. x = 0
    BY <1>1, <2>2
  <2> QED BY <2>1, <2>3 DEF x
<1>3. PICK m \in Z : \A k \in Z : m <= k
  BY <1>2, LeastNumber
<1>4. m \in Nat \ {0} /\ m <= L + 1
  <2>1. m # 0
    BY PartStartIs
  <2> QED BY <1>2, <1>3, <2>1
<1>5. \A k \in Nat : k < m => PartStart(s, d, k) # 0
  BY <1>3, <1>4
<1> DEFINE U == {n \in Nat : PartStart(s, d, m + n) = 0}
<1>6. Nat \subseteq U
  <2>1. 0 \in U
    <3>1. m + 0 = m
      BY <1>4
    <3> QED BY <1>3, <3>1
  <2>2. ASSUME NEW n \in Nat, n \in U PROVE n + 1 \in U
    <3>1. m + (n + 1) = (m + n) + 1 /\ m + n \in Nat
      BY <1>4
    <3>2. PartStart(s, d, (m + n) + 1) = StartAfter(s, d, PartStart(s, d, m + n))
      BY <3>1, PartStartIs
    <3>3. StartAfter(s, d, 0) = 0
      BY DEF StartAfter
    <3> QED BY <2>2, <3>1, <3>2, <3>3
  <2> HIDE DEF U
  <2> QED BY <2>1, <2>2, SetInduction
<1>7. ASSUME NEW k \in Nat, ~(k < m) PROVE PartStart(s, d, k) = 0
  <2>1. k - m \in Nat /\ m + (k - m) = k
    BY <1>4, <1>7
  <2>2. PartStart(s, d, m + (k - m)) = 0
    BY <1>6, <2>1
  <2> QED BY <2>1, <2>2
<1>8. {k \in 1..L : PartStart(s, d, k) # 0} = 1..(m - 1)
  <2>1. \A k \in 1..L : k \in Nat /\ (k < m <=> k \in 1..(m - 1))
    BY <1>1, <1>4
  <2>2. \A k \in 1..(m - 1) : k \in 1..L
    BY <1>1, <1>4
  <2> QED BY <1>5, <1>7, <2>1, <2>2
<1>9. Cardinality(1..(m - 1)) = m - 1
  <2>1. 1 \in Int /\ m - 1 \in Int /\ (m - 1) - 1 + 1 = m - 1 /\ (1 > m - 1 => m - 1 = 0)
    BY <1>4
  <2> QED BY <2>1, FS_Interval
<1>10. SplitCount(s, d) = 1 + (m - 1)
  BY <1>1, <1>8, <1>9 DEF SplitCount
<1>11. 1 + (m - 1) = m
  BY <1>4
<1> QED BY <1>4, <1>5, <1>7, <1>10, <1>11 DEF Begins

\* A part is the text from its beginning to its end.
PartEnd(s, d, p) == IF Find(s, d, p) = 0 THEN Len(s) ELSE Find(s, d, p) - 1

\* A part is a cut.
LEMMA PartFromIs ==
    ASSUME NEW T, NEW s \in Seq(T), NEW d \in Seq(T), d # <<>>, NEW p \in 1..(Len(s) + 1)
    PROVE  /\ CutPlaces(s, p - 1, PartEnd(s, d, p))
           /\ PartFrom(s, d, p) = Cut(s, p - 1, PartEnd(s, d, p))
           /\ PartFrom(s, d, p) \in Seq(T)
<1> DEFINE f == Find(s, d, p)
<1>1. Len(s) \in Nat /\ Len(d) \in Nat /\ Len(d) >= 1 /\ p \in Nat \ {0}
  OBVIOUS
<1>2. f \in Nat /\ (f # 0 => p <= f /\ f <= Len(s) - Len(d) + 1)
  BY <1>1, FindIs
<1>3. PartFrom(s, d, p) = IF f = 0 THEN Drop(s, p - 1) ELSE SubSeq(s, p, f - 1)
  BY <1>1 DEF PartFrom
<1>4. PartEnd(s, d, p) = IF f = 0 THEN Len(s) ELSE f - 1
  BY DEF PartEnd
<1> HIDE DEF f
<1>5. CutPlaces(s, p - 1, PartEnd(s, d, p))
  BY <1>1, <1>2, <1>4 DEF CutPlaces
<1>6. PartFrom(s, d, p) = Cut(s, p - 1, PartEnd(s, d, p))
  <2>1. (p - 1) + 1 = p
    BY <1>1
  <2> QED BY <1>3, <1>4, <2>1 DEF Drop, Cut
<1>7. Cut(s, p - 1, PartEnd(s, d, p)) \in Seq(T)
  BY <1>5, CutIs
<1> QED BY <1>5, <1>6, <1>7

\* Places in the rest of a text are places in the text, n further on.
FurtherOn(x, y, n) == IF x = 0 THEN y = 0 ELSE y = x + n

\* A cut of what is left of a text is a cut of the text.
LEMMA DropPlaces ==
    ASSUME NEW T, NEW s \in Seq(T), NEW n \in 0..Len(s), NEW t, t = Drop(s, n)
    PROVE  /\ t \in Seq(T) /\ Len(t) = Len(s) - n /\ Len(s) \in Nat /\ Len(t) \in Nat /\ n \in Nat
           /\ \A i, j : CutPlaces(t, i, j) =>
                 /\ CutPlaces(s, n + i, n + j)
                 /\ Cut(t, i, j) = Cut(s, n + i, n + j)
<1>1. t \in Seq(T) /\ Len(t) = Len(s) - n /\ Len(s) \in Nat
  BY DropIs
<1>2. Len(t) \in Nat /\ n \in Nat
  BY <1>1
<1>3. t = Cut(s, n, Len(s)) /\ CutPlaces(s, n, Len(s))
  BY DropIsCut, CutWhole
<1>4. ASSUME NEW i, NEW j, CutPlaces(t, i, j)
      PROVE  CutPlaces(s, n + i, n + j) /\ Cut(t, i, j) = Cut(s, n + i, n + j)
  <2>1. i \in Nat /\ j \in Nat /\ i <= j /\ j <= Len(s) - n
    BY <1>1, <1>4 DEF CutPlaces
  <2>2. CutPlaces(s, n + i, n + j) /\ Cut(Cut(s, n, Len(s)), i, j) = Cut(s, n + i, n + j)
    BY <1>3, <2>1, CutCut
  <2> QED BY <1>3, <2>2
<1> QED BY <1>1, <1>2, <1>4

\* A delimiter in what is left of a text is one in the text.
LEMMA MatchShift ==
    ASSUME NEW T, NEW s \in Seq(T), NEW d \in Seq(T), NEW n \in 0..Len(s),
           NEW i \in Nat \ {0}, i <= (Len(s) - n) - Len(d) + 1
    PROVE  Match(Drop(s, n), d, i) <=> Match(s, d, i + n)
<1> DEFINE t == Drop(s, n)
           D == Len(d)
<1>1. /\ t \in Seq(T) /\ Len(t) = Len(s) - n /\ Len(s) \in Nat /\ Len(t) \in Nat /\ n \in Nat
      /\ \A x, y : CutPlaces(t, x, y) => Cut(t, x, y) = Cut(s, n + x, n + y)
  BY DropPlaces
<1>2. D \in Nat
  OBVIOUS
<1> HIDE DEF t, D
<1>3. CutPlaces(t, i - 1, (i - 1) + D)
  <2>1. i <= Len(t) - D + 1
    BY <1>1 DEF D
  <2> QED BY <1>1, <1>2, <2>1 DEF CutPlaces
<1>4. Cut(t, i - 1, (i - 1) + D) = Cut(s, n + (i - 1), n + ((i - 1) + D))
  BY <1>1, <1>3
<1>5. /\ (i - 1) + 1 = i /\ (i - 1) + D = i + D - 1
      /\ (n + (i - 1)) + 1 = i + n /\ n + ((i - 1) + D) = (i + n) + D - 1
  BY <1>1, <1>2
<1>6. SubSeq(t, i, i + D - 1) = SubSeq(s, i + n, (i + n) + D - 1)
  BY <1>4, <1>5 DEF Cut
<1> QED BY <1>6 DEF Match, t, D

\* Searching what is left of a text finds what searching from there on finds.
LEMMA FindShift ==
    ASSUME NEW T, NEW s \in Seq(T), NEW d \in Seq(T), NEW n \in 0..Len(s), NEW p \in Nat \ {0}
    PROVE  FurtherOn(Find(Drop(s, n), d, p), Find(s, d, p + n), n)
<1> DEFINE t == Drop(s, n)
           x == Find(t, d, p)
           y == Find(s, d, p + n)
           D == Len(d)
           S == Len(s)
<1>1. t \in Seq(T) /\ Len(t) = S - n /\ S \in Nat /\ Len(t) \in Nat /\ n \in Nat
  BY DropPlaces
<1>2. p + n \in Nat \ {0} /\ D \in Nat
  BY <1>1
<1>3. /\ x \in Nat
      /\ x # 0 => p <= x /\ x <= Len(t) - D + 1 /\ Match(t, d, x)
      /\ \A i \in p..(Len(t) - D + 1) : Match(t, d, i) => x # 0 /\ x <= i
  <2> HIDE DEF t
  <2> QED BY <1>1, FindIs
<1>4. /\ y \in Nat
      /\ y # 0 => p + n <= y /\ y <= S - D + 1 /\ Match(s, d, y)
      /\ \A i \in (p + n)..(S - D + 1) : Match(s, d, i) => y # 0 /\ y <= i
  BY <1>2, FindIs
<1>5. \A i \in Nat \ {0} : i <= (S - n) - D + 1 => (Match(t, d, i) <=> Match(s, d, i + n))
  BY MatchShift
<1> HIDE DEF t, x, y, D, S
<1>6. ASSUME x # 0 PROVE y # 0 /\ y <= x + n
  <2>1. x + n \in (p + n)..(S - D + 1) /\ x \in Nat \ {0} /\ x <= (S - n) - D + 1
    BY <1>1, <1>2, <1>3, <1>6
  <2>2. Match(s, d, x + n)
    BY <1>3, <1>5, <1>6, <2>1
  <2> QED BY <1>4, <2>1, <2>2
<1>7. ASSUME y # 0 PROVE x # 0 /\ x + n <= y
  <2> DEFINE i == y - n
  <2>1. i \in p..(Len(t) - D + 1) /\ i \in Nat \ {0} /\ i <= (S - n) - D + 1 /\ i + n = y
    BY <1>1, <1>2, <1>4, <1>7
  <2> HIDE DEF i
  <2>2. Match(t, d, i)
    BY <1>4, <1>5, <1>7, <2>1
  <2>3. x # 0 /\ x <= i
    BY <1>3, <2>1, <2>2
  <2> QED BY <1>1, <1>3, <2>1, <2>3
<1>8. CASE x = 0
  <2>1. y = 0
    BY <1>7, <1>8
  <2> QED BY <1>8, <2>1 DEF FurtherOn, x, y, t
<1>9. CASE x # 0
  <2>1. y = x + n
    BY <1>1, <1>3, <1>4, <1>6, <1>7, <1>9
  <2> QED BY <1>9, <2>1 DEF FurtherOn, x, y, t
<1> QED BY <1>8, <1>9

\* The parts of what is left of a text begin where those of the text do.
LEMMA StartShift ==
    ASSUME NEW T, NEW s \in Seq(T), NEW d \in Seq(T), NEW n \in 0..Len(s), NEW p \in Nat, NEW q,
           FurtherOn(p, q, n)
    PROVE  FurtherOn(StartAfter(Drop(s, n), d, p), StartAfter(s, d, q), n)
<1> DEFINE t == Drop(s, n)
<1>1. n \in Nat /\ Len(d) \in Nat /\ t \in Seq(T)
  BY DropPlaces
<1>2. CASE p = 0
  <2>1. q = 0
    BY <1>2 DEF FurtherOn
  <2> QED BY <1>2, <2>1 DEF FurtherOn, StartAfter
<1>3. CASE p # 0
  <2> DEFINE x == Find(t, d, p)
             y == Find(s, d, p + n)
  <2>1. q = p + n /\ q # 0 /\ p \in Nat \ {0}
    BY <1>1, <1>3 DEF FurtherOn
  <2>2. FurtherOn(x, y, n)
    BY <2>1, FindShift
  <2>3. x \in Nat
    <3> HIDE DEF t
    <3> QED BY <1>1, <2>1, FindIs
  <2>4. StartAfter(t, d, p) = IF x = 0 THEN 0 ELSE x + Len(d)
    BY <1>3 DEF StartAfter
  <2>5. StartAfter(s, d, q) = IF y = 0 THEN 0 ELSE y + Len(d)
    BY <2>1 DEF StartAfter
  <2> HIDE DEF x, y, t
  <2>6. CASE x = 0
    BY <2>2, <2>4, <2>5, <2>6 DEF FurtherOn, t
  <2>7. CASE x # 0
    <3>1. y = x + n /\ y # 0 /\ x + Len(d) # 0 /\ y + Len(d) = (x + Len(d)) + n
      BY <1>1, <2>2, <2>3, <2>7 DEF FurtherOn
    <3> QED BY <2>4, <2>5, <2>7, <3>1 DEF FurtherOn, t
  <2> QED BY <2>6, <2>7
<1> QED BY <1>2, <1>3

\* A part of what is left of a text is a part of the text.
LEMMA PartShift ==
    ASSUME NEW T, NEW s \in Seq(T), NEW d \in Seq(T), d # <<>>, NEW n \in 0..Len(s),
           NEW p \in 1..(Len(Drop(s, n)) + 1)
    PROVE  PartFrom(s, d, p + n) = PartFrom(Drop(s, n), d, p)
<1> DEFINE t == Drop(s, n)
           x == PartEnd(t, d, p)
<1>1. /\ t \in Seq(T) /\ Len(t) = Len(s) - n /\ Len(s) \in Nat /\ Len(t) \in Nat /\ n \in Nat
      /\ \A i, j : CutPlaces(t, i, j) => Cut(t, i, j) = Cut(s, n + i, n + j)
  BY DropPlaces
<1>2. p \in 1..(Len(t) + 1) /\ p \in Nat \ {0} /\ p + n \in 1..(Len(s) + 1)
  BY <1>1
<1>3. CutPlaces(t, p - 1, x) /\ PartFrom(t, d, p) = Cut(t, p - 1, x)
  <2> HIDE DEF t
  <2> QED BY <1>1, <1>2, PartFromIs
<1>4. PartFrom(s, d, p + n) = Cut(s, (p + n) - 1, PartEnd(s, d, p + n))
  BY <1>2, PartFromIs
<1>5. PartEnd(s, d, p + n) = n + x
  <2> DEFINE f == Find(t, d, p)
             g == Find(s, d, p + n)
  <2>1. FurtherOn(f, g, n)
    BY <1>2, FindShift
  <2>2. f \in Nat
    <3> HIDE DEF t
    <3> QED BY <1>1, <1>2, FindIs
  <2>3. x = IF f = 0 THEN Len(t) ELSE f - 1
    BY DEF PartEnd
  <2>4. PartEnd(s, d, p + n) = IF g = 0 THEN Len(s) ELSE g - 1
    BY DEF PartEnd
  <2> HIDE DEF f, g, t, x
  <2>5. CASE f = 0
    BY <1>1, <2>1, <2>3, <2>4, <2>5 DEF FurtherOn
  <2>6. CASE f # 0
    BY <1>1, <2>1, <2>2, <2>3, <2>4, <2>6 DEF FurtherOn
  <2> QED BY <2>5, <2>6
<1>6. (p + n) - 1 = n + (p - 1)
  BY <1>1, <1>2
<1> QED BY <1>1, <1>3, <1>4, <1>5, <1>6

\* The parts of a text are SplitCount texts, each from its beginning.
LEMMA PartsAre ==
    ASSUME NullIsNoText, NEW T, NEW s \in Seq(T), NEW d \in Seq(T), d # <<>>
    PROVE  /\ PartsOf(s, d) \in Seq(Seq(T)) /\ Len(PartsOf(s, d)) = SplitCount(s, d)
           /\ SplitCount(s, d) \in Nat \ {0}
           /\ \A k \in 1..SplitCount(s, d) :
                 /\ PartStart(s, d, k - 1) \in 1..(Len(s) + 1)
                 /\ PartsOf(s, d)[k] = PartFrom(s, d, PartStart(s, d, k - 1))
<1> DEFINE m == SplitCount(s, d)
           q == PartsOf(s, d)
<1>1. Begins(s, d, m)
  BY SplitCountIs
<1>2. m \in Nat \ {0} /\ \A k \in Nat : PartStart(s, d, k) # 0 <=> k < m
  BY <1>1 DEF Begins
<1>3. ~NoSplit(s, d)
  BY DEF NoSplit, NullIsNoText
<1>4. q = [k \in 1..m |-> SplitPart(s, d, k - 1)]
  BY DEF PartsOf
<1> HIDE DEF m, q
<1>5. ASSUME NEW k \in 1..m
      PROVE  /\ PartStart(s, d, k - 1) \in 1..(Len(s) + 1)
             /\ SplitPart(s, d, k - 1) = PartFrom(s, d, PartStart(s, d, k - 1))
             /\ SplitPart(s, d, k - 1) \in Seq(T)
  <2> DEFINE p == PartStart(s, d, k - 1)
  <2>1. k - 1 \in Nat /\ k - 1 < m
    BY <1>2
  <2>2. p \in 0..(Len(s) + 1) /\ p # 0
    BY <1>2, <2>1, PartStartsGrow
  <2>3. SplitPart(s, d, k - 1) = PartFrom(s, d, p)
    BY <1>3 DEF SplitPart
  <2> HIDE DEF p
  <2>4. p \in 1..(Len(s) + 1)
    BY <2>2
  <2>5. PartFrom(s, d, p) \in Seq(T)
    BY <2>4, PartFromIs
  <2> QED BY <2>3, <2>4, <2>5 DEF p
<1>6. \A k \in 1..m : q[k] = SplitPart(s, d, k - 1)
  BY <1>4
<1>7. q \in Seq(Seq(T)) /\ Len(q) = m
  BY <1>2, <1>4, <1>5
<1> QED BY <1>2, <1>5, <1>6, <1>7 DEF m, q

\* The number of parts, from where they begin.
LEMMA PartsCounted ==
    ASSUME NullIsNoText, NEW T, NEW s \in Seq(T), NEW d \in Seq(T), d # <<>>, NEW m, Begins(s, d, m)
    PROVE  SplitCount(s, d) = m
<1> DEFINE c == SplitCount(s, d)
<1>1. Begins(s, d, c)
  BY SplitCountIs
<1> HIDE DEF c
<1>2. m \in Nat /\ c \in Nat /\ \A k \in Nat : k < m <=> k < c
  BY <1>1 DEF Begins
<1>3. ~(c < m) /\ ~(m < c)
  BY <1>2
<1>4. c = m
  BY <1>2, <1>3
<1> QED BY <1>4 DEF c

\* The parts of an empty text, of one that begins with the delimiter, and of others.
StartsWith(s, d) == Len(d) <= Len(s) /\ Match(s, d, 1)

\* The only part of an empty text is empty.
LEMMA PartsOfEmpty ==
    ASSUME NullIsNoText, NEW T, NEW s \in Seq(T), NEW d \in Seq(T), d # <<>>, s = <<>>
    PROVE  SplitCount(s, d) = 1 /\ PartsOf(s, d)[1] = <<>>
<1>1. Len(s) = 0 /\ Len(d) \in Nat /\ Len(d) >= 1 /\ Len(s) \in Nat
  OBVIOUS
<1>2. ~NoSplit(s, d)
  BY DEF NoSplit, NullIsNoText
<1>3. SplitCount(s, d) = 1
  <2>1. {k \in 1..Len(s) : PartStart(s, d, k) # 0} = {}
    BY <1>1
  <2> QED BY <1>2, <2>1, FS_EmptySet DEF SplitCount
<1>4. PartStart(s, d, 0) = 1 /\ 1 - 1 = 0
  <2>1. PartStart(s, d, 0) = 1
    BY PartStartIs
  <2> QED BY <2>1
<1>5. Find(s, d, 1) = 0
  <2>1. 1 \in Nat \ {0}
    OBVIOUS
  <2> DEFINE f == Find(s, d, 1)
  <2>2. f \in Nat /\ (f # 0 => 1 <= f /\ f <= Len(s) - Len(d) + 1)
    BY <2>1, FindIs
  <2> HIDE DEF f
  <2>3. f = 0
    BY <1>1, <2>2
  <2> QED BY <2>3 DEF f
<1>6. PartFrom(s, d, 1) = <<>>
  <2>1. PartFrom(s, d, 1) = Drop(s, 0)
    BY <1>5 DEF PartFrom
  <2>2. SubSeq(s, 0 + 1, 0) = <<>>
    OBVIOUS
  <2> QED BY <1>1, <2>1, <2>2 DEF Drop
<1>7. PartsOf(s, d)[1] = PartFrom(s, d, PartStart(s, d, 1 - 1))
  <2> DEFINE one == 1
  <2>1. one \in 1..SplitCount(s, d)
    BY <1>3
  <2> HIDE DEF one
  <2>2. PartsOf(s, d)[one] = PartFrom(s, d, PartStart(s, d, one - 1))
    BY <2>1, PartsAre
  <2> QED BY <2>2 DEF one
<1> QED BY <1>3, <1>4, <1>6, <1>7

AfterDelimiter(s, d, t) ==
    /\ SplitCount(s, d) = SplitCount(t, d) + 1 /\ PartsOf(s, d)[1] = <<>>
    /\ \A k \in 1..SplitCount(t, d) : PartsOf(s, d)[k + 1] = PartsOf(t, d)[k]

\* A delimiter at the beginning is an empty part before the others.
LEMMA PartsAtDelimiter ==
    ASSUME NullIsNoText, NEW T, NEW s \in Seq(T), NEW d \in Seq(T), d # <<>>, StartsWith(s, d),
           NEW t, t = Drop(s, Len(d))
    PROVE  AfterDelimiter(s, d, t)
<1> DEFINE n == Len(d)
           m == SplitCount(t, d)
<1>1. n \in Nat /\ n >= 1 /\ n <= Len(s) /\ Len(s) \in Nat /\ n \in 0..Len(s)
  BY DEF StartsWith
<1>2. t \in Seq(T) /\ Len(t) = Len(s) - n
  BY <1>1, DropPlaces
<1>3. Find(s, d, 1) = 1
  <2> DEFINE f == Find(s, d, 1)
  <2>1. 1 \in Nat \ {0} /\ 1 \in 1..(Len(s) - Len(d) + 1) /\ Match(s, d, 1)
    BY <1>1 DEF StartsWith
  <2>2. f \in Nat /\ (f # 0 => 1 <= f)
    BY <2>1, FindIs
  <2>3. f # 0 /\ f <= 1
    BY <2>1, FindIs
  <2> HIDE DEF f
  <2>4. f = 1
    BY <2>2, <2>3
  <2> QED BY <2>4 DEF f
<1>4. StartAfter(s, d, 1) = 1 + n
  BY <1>3 DEF StartAfter
<1> DEFINE U == {k \in Nat : FurtherOn(PartStart(t, d, k), PartStart(s, d, k + 1), n)}
<1>5. 0 \in U
  <2>1. PartStart(t, d, 0) = 1 /\ PartStart(s, d, 0) = 1
    BY <1>2, PartStartIs
  <2>2. PartStart(s, d, 0 + 1) = StartAfter(s, d, PartStart(s, d, 0))
    <3>1. 0 \in Nat
      OBVIOUS
    <3> QED BY <3>1, PartStartIs
  <2> QED BY <1>4, <2>1, <2>2 DEF FurtherOn
<1>6. ASSUME NEW k \in Nat, k \in U PROVE k + 1 \in U
  <2> DEFINE p == PartStart(t, d, k)
             q == PartStart(s, d, k + 1)
  <2>1. FurtherOn(p, q, n)
    BY <1>6
  <2>2. p \in Nat
    <3>1. p \in 0..(Len(t) + 1)
      BY <1>2, PartStartsGrow
    <3> HIDE DEF p
    <3> QED BY <3>1
  <2>3. PartStart(t, d, k + 1) = StartAfter(t, d, p) /\ PartStart(s, d, (k + 1) + 1) = StartAfter(s, d, q)
    <3>1. k + 1 \in Nat
      OBVIOUS
    <3> QED BY <1>2, <3>1, PartStartIs
  <2> HIDE DEF p, q, n
  <2>4. FurtherOn(StartAfter(Drop(s, n), d, p), StartAfter(s, d, q), n)
    BY <1>1, <2>1, <2>2, StartShift
  <2> QED BY <2>3, <2>4 DEF n
<1> HIDE DEF U
<1>7. \A k \in Nat : FurtherOn(PartStart(t, d, k), PartStart(s, d, k + 1), n)
  BY <1>5, <1>6, SetInduction DEF U
<1>8. m \in Nat \ {0} /\ \A k \in Nat : PartStart(t, d, k) # 0 <=> k < m
  BY <1>2, SplitCountIs DEF Begins
<1>9. Begins(s, d, m + 1)
  <2>1. ASSUME NEW k \in Nat PROVE PartStart(s, d, k) # 0 <=> k < m + 1
    <3>1. CASE k = 0
      <4>1. PartStart(s, d, 0) = 1
        BY PartStartIs
      <4>2. 0 < m + 1
        BY <1>8
      <4> QED BY <3>1, <4>1, <4>2
    <3>2. CASE k # 0
      <4> DEFINE j == k - 1
      <4>1. j \in Nat /\ j + 1 = k /\ (j < m <=> k < m + 1)
        BY <1>8, <3>2
      <4> HIDE DEF j, m
      <4> DEFINE p == PartStart(t, d, j)
                 q == PartStart(s, d, k)
      <4>2. FurtherOn(p, q, n)
        BY <1>7, <4>1
      <4>3. p \in Nat
        <5>1. p \in 0..(Len(t) + 1)
          BY <1>2, <4>1, PartStartsGrow
        <5> HIDE DEF p
        <5> QED BY <5>1
      <4>5. p # 0 <=> j < m
        BY <1>8, <4>1
      <4> HIDE DEF p, q
      <4>4. p # 0 <=> q # 0
        BY <1>1, <4>2, <4>3 DEF FurtherOn
      <4> QED BY <4>1, <4>4, <4>5 DEF q
    <3> QED BY <3>1, <3>2
  <2>2. m + 1 \in Nat \ {0}
    BY <1>8
  <2> HIDE DEF m
  <2> QED BY <2>1, <2>2 DEF Begins
<1>10. SplitCount(s, d) = m + 1
  BY <1>9, PartsCounted
<1>11. PartsOf(s, d)[1] = <<>>
  <2>1. 1 \in 1..SplitCount(s, d) /\ 1 - 1 = 0
    BY <1>8, <1>10
  <2>2. PartsOf(s, d)[1] = PartFrom(s, d, PartStart(s, d, 0))
    BY <2>1, PartsAre
  <2>3. PartFrom(s, d, 1) = SubSeq(s, 1, 0)
    BY <1>3 DEF PartFrom
  <2>4. SubSeq(s, 1, 0) = <<>>
    OBVIOUS
  <2> QED BY <2>2, <2>3, <2>4, PartStartIs
<1>12. ASSUME NEW k \in 1..m PROVE PartsOf(s, d)[k + 1] = PartsOf(t, d)[k]
  <2> DEFINE j == k - 1
             p == PartStart(t, d, j)
             q == PartStart(s, d, k)
  <2>1. j \in Nat /\ j + 1 = k /\ k + 1 \in 1..SplitCount(s, d) /\ (k + 1) - 1 = k
    BY <1>8, <1>10
  <2>2. PartsOf(s, d)[k + 1] = PartFrom(s, d, q)
    <3>1. PartsOf(s, d)[k + 1] = PartFrom(s, d, PartStart(s, d, (k + 1) - 1))
      BY <2>1, PartsAre
    <3> QED BY <2>1, <3>1
  <2>3. PartsOf(t, d)[k] = PartFrom(t, d, p) /\ p \in 1..(Len(t) + 1)
    BY <1>2, PartsAre
  <2>4. FurtherOn(p, q, n)
    <3> HIDE DEF n
    <3>1. FurtherOn(PartStart(t, d, j), PartStart(s, d, j + 1), n)
      BY <1>7, <2>1
    <3> QED BY <2>1, <3>1
  <2> HIDE DEF p, q, n, j
  <2>5. q = p + n
    BY <2>3, <2>4 DEF FurtherOn
  <2>6. PartFrom(s, d, p + n) = PartFrom(Drop(s, n), d, p)
    <3>1. p \in 1..(Len(Drop(s, n)) + 1)
      BY <2>3 DEF n
    <3> QED BY <1>1, <3>1, PartShift
  <2> QED BY <2>2, <2>3, <2>5, <2>6 DEF n
<1> QED BY <1>10, <1>11, <1>12 DEF AfterDelimiter

AfterOther(s, d, t) ==
    /\ SplitCount(s, d) = SplitCount(t, d)
    /\ PartsOf(s, d)[1] = <<s[1]>> \o PartsOf(t, d)[1]
    /\ \A k \in 2..SplitCount(t, d) : PartsOf(s, d)[k] = PartsOf(t, d)[k]

\* Another character at the beginning is the beginning of the first part.
LEMMA PartsAtOther ==
    ASSUME NullIsNoText, NEW T, NEW s \in Seq(T), NEW d \in Seq(T), d # <<>>, s # <<>>,
           ~StartsWith(s, d), NEW t, t = Drop(s, 1)
    PROVE  AfterOther(s, d, t)
<1> DEFINE n == 1
           m == SplitCount(t, d)
           D == Len(d)
<1>1. n \in Nat /\ Len(s) \in Nat /\ n \in 0..Len(s) /\ D \in Nat /\ D >= 1 /\ 1 <= Len(s)
  OBVIOUS
<1>2. t \in Seq(T) /\ Len(t) = Len(s) - n
  BY <1>1, DropPlaces
<1>14. PartStart(t, d, 0) = 1 /\ PartStart(s, d, 0) = 1
  BY <1>2, PartStartIs
<1>3. FurtherOn(Find(t, d, 1), Find(s, d, 1), n)
  <2> DEFINE f == Find(s, d, 1)
             g == Find(s, d, 1 + n)
             L == Len(s)
  <2>1. 1 \in Nat \ {0} /\ 1 + n \in Nat \ {0}
    OBVIOUS
  <2>2. /\ f \in Nat
        /\ f # 0 => 1 <= f /\ f <= L - D + 1 /\ Match(s, d, f)
        /\ \A i \in 1..(L - D + 1) : Match(s, d, i) => f # 0 /\ f <= i
    BY <2>1, FindIs
  <2>3. /\ g \in Nat
        /\ g # 0 => 1 + n <= g /\ g <= L - D + 1 /\ Match(s, d, g)
        /\ \A i \in (1 + n)..(L - D + 1) : Match(s, d, i) => g # 0 /\ g <= i
    BY <2>1, FindIs
  <2>4. ~(D <= L /\ Match(s, d, 1))
    BY DEF StartsWith
  <2>5. FurtherOn(Find(Drop(s, n), d, 1), g, n)
    BY <1>1, <2>1, FindShift
  <2> HIDE DEF f, g, D, L
  <2>6. L \in Nat
    BY <1>1 DEF L
  <2>7. f # 1
    <3>1. ASSUME f = 1 PROVE FALSE
      <4>1. D <= L /\ Match(s, d, 1)
        BY <1>1, <2>2, <2>6, <3>1
      <4> QED BY <2>4, <4>1
    <3> QED BY <3>1
  <2>8. f = g
    <3>1. ASSUME f # 0 PROVE g # 0 /\ g <= f
      <4>1. f \in (1 + n)..(L - D + 1)
        BY <1>1, <2>2, <2>6, <2>7, <3>1
      <4> QED BY <2>2, <2>3, <3>1, <4>1
    <3>2. ASSUME g # 0 PROVE f # 0 /\ f <= g
      <4>1. g \in 1..(L - D + 1)
        BY <1>1, <2>3, <2>6, <3>2
      <4> QED BY <2>2, <2>3, <3>2, <4>1
    <3> QED BY <2>2, <2>3, <3>1, <3>2
  <2> QED BY <2>5, <2>8 DEF f
<1>4. FurtherOn(StartAfter(t, d, 1), StartAfter(s, d, 1), n)
  <2> DEFINE f == Find(s, d, 1)
             g == Find(t, d, 1)
  <2>1. StartAfter(t, d, 1) = (IF g = 0 THEN 0 ELSE g + D) /\ StartAfter(s, d, 1) = (IF f = 0 THEN 0 ELSE f + D)
    BY DEF StartAfter
  <2>2. 1 \in Nat \ {0}
    OBVIOUS
  <2>3. f \in Nat /\ g \in Nat
    BY <1>2, <2>2, FindIs
  <2>4. FurtherOn(g, f, n)
    BY <1>3
  <2> HIDE DEF f, g, D, n
  <2>5. CASE g = 0
    BY <2>1, <2>4, <2>5 DEF FurtherOn
  <2>6. CASE g # 0
    <3>1. f = g + n /\ f # 0 /\ g + D # 0 /\ f + D = (g + D) + n
      BY <1>1, <2>3, <2>4, <2>6 DEF FurtherOn, n
    <3> QED BY <2>1, <2>6, <3>1 DEF FurtherOn
  <2> QED BY <2>5, <2>6
<1> DEFINE U == {k \in Nat : FurtherOn(PartStart(t, d, k + 1), PartStart(s, d, k + 1), n)}
<1>5. 0 \in U
  <2>1. 0 \in Nat
    OBVIOUS
  <2>2. PartStart(s, d, 0 + 1) = StartAfter(s, d, 1) /\ PartStart(t, d, 0 + 1) = StartAfter(t, d, 1)
    BY <1>2, <1>14, <2>1, PartStartIs
  <2> HIDE DEF n
  <2> QED BY <1>4, <2>1, <2>2
<1>6. ASSUME NEW k \in Nat, k \in U PROVE k + 1 \in U
  <2> DEFINE p == PartStart(t, d, k + 1)
             q == PartStart(s, d, k + 1)
  <2>1. FurtherOn(p, q, n) /\ k + 1 \in Nat
    BY <1>6
  <2>2. p \in Nat
    <3>1. p \in 0..(Len(t) + 1)
      BY <1>2, <2>1, PartStartsGrow
    <3> HIDE DEF p
    <3> QED BY <3>1
  <2>3. PartStart(t, d, (k + 1) + 1) = StartAfter(t, d, p) /\ PartStart(s, d, (k + 1) + 1) = StartAfter(s, d, q)
    BY <1>2, <2>1, PartStartIs
  <2> HIDE DEF p, q, n
  <2>4. FurtherOn(StartAfter(Drop(s, n), d, p), StartAfter(s, d, q), n)
    BY <1>1, <2>1, <2>2, StartShift
  <2> QED BY <2>1, <2>3, <2>4 DEF n
<1> HIDE DEF U
<1>7. \A k \in Nat : FurtherOn(PartStart(t, d, k + 1), PartStart(s, d, k + 1), n)
  BY <1>5, <1>6, SetInduction DEF U
<1>8. m \in Nat \ {0} /\ \A k \in Nat : PartStart(t, d, k) # 0 <=> k < m
  BY <1>2, SplitCountIs DEF Begins
<1>13. ASSUME NEW k \in Nat \ {0}
       PROVE  /\ FurtherOn(PartStart(t, d, k), PartStart(s, d, k), n)
              /\ PartStart(t, d, k) # 0 <=> PartStart(s, d, k) # 0
  <2> DEFINE j == k - 1
             p == PartStart(t, d, k)
             q == PartStart(s, d, k)
  <2>1. j \in Nat /\ j + 1 = k /\ k \in Nat
    OBVIOUS
  <2> HIDE DEF j
  <2>2. FurtherOn(p, q, n)
    <3>1. FurtherOn(PartStart(t, d, j + 1), PartStart(s, d, j + 1), n)
      BY <1>7, <2>1
    <3> QED BY <2>1, <3>1
  <2>3. p \in Nat
    <3>1. p \in 0..(Len(t) + 1)
      BY <1>2, <2>1, PartStartsGrow
    <3> HIDE DEF p
    <3> QED BY <3>1
  <2> HIDE DEF p, q
  <2>4. p # 0 <=> q # 0
    BY <1>1, <2>2, <2>3 DEF FurtherOn
  <2> QED BY <2>2, <2>4 DEF p, q
<1>9. Begins(s, d, m)
  <2>1. ASSUME NEW k \in Nat PROVE PartStart(s, d, k) # 0 <=> k < m
    <3>1. CASE k = 0
      BY <1>8, <1>14, <3>1
    <3>2. CASE k # 0
      <4>1. PartStart(t, d, k) # 0 <=> PartStart(s, d, k) # 0
        BY <1>13, <3>2
      <4> HIDE DEF m
      <4> QED BY <1>8, <4>1
    <3> QED BY <3>1, <3>2
  <2>2. m \in Nat \ {0}
    BY <1>8
  <2> HIDE DEF m
  <2> QED BY <2>1, <2>2 DEF Begins
<1>10. SplitCount(s, d) = m
  BY <1>9, PartsCounted
<1>11. PartsOf(s, d)[1] = <<s[1]>> \o PartsOf(t, d)[1]
  <2> DEFINE L == Len(s)
             e == PartEnd(t, d, 1)
  <2>1. 1 \in 1..SplitCount(s, d) /\ 1 \in 1..m /\ 1 - 1 = 0 /\ 1 \in 1..(Len(s) + 1) /\ 1 \in 1..(Len(t) + 1)
    BY <1>1, <1>2, <1>8, <1>10
  <2>2. PartsOf(s, d)[1] = PartFrom(s, d, 1) /\ PartsOf(t, d)[1] = PartFrom(t, d, 1)
    <3>1. \A k \in 1..SplitCount(s, d) : PartsOf(s, d)[k] = PartFrom(s, d, PartStart(s, d, k - 1))
      BY PartsAre
    <3>2. t \in Seq(T)
      BY <1>2
    <3>3. \A k \in 1..SplitCount(t, d) : PartsOf(t, d)[k] = PartFrom(t, d, PartStart(t, d, k - 1))
      BY <3>2, PartsAre
    <3>4. PartsOf(s, d)[1] = PartFrom(s, d, PartStart(s, d, 1 - 1))
      BY <2>1, <3>1
    <3>5. PartsOf(t, d)[1] = PartFrom(t, d, PartStart(t, d, 1 - 1))
      BY <2>1, <3>3
    <3> QED BY <1>14, <2>1, <3>4, <3>5
  <2>3. PartFrom(s, d, 1) = Cut(s, 1 - 1, PartEnd(s, d, 1)) /\ CutPlaces(s, 1 - 1, PartEnd(s, d, 1))
    BY <2>1, PartFromIs
  <2>4. PartFrom(t, d, 1) = Cut(t, 1 - 1, e) /\ CutPlaces(t, 1 - 1, e)
    BY <1>2, <2>1, PartFromIs
  <2>5. PartEnd(s, d, 1) = n + e
    <3> DEFINE f == Find(s, d, 1)
               g == Find(t, d, 1)
    <3>1. 1 \in Nat \ {0}
      OBVIOUS
    <3>2. f \in Nat /\ g \in Nat
      BY <1>2, <3>1, FindIs
    <3>3. FurtherOn(g, f, n)
      BY <1>3
    <3>4. /\ PartEnd(s, d, 1) = IF f = 0 THEN Len(s) ELSE f - 1
          /\ e = IF g = 0 THEN Len(t) ELSE g - 1
      BY DEF PartEnd
    <3> HIDE DEF f, g, e
    <3>5. CASE g = 0
      BY <1>1, <1>2, <3>3, <3>4, <3>5 DEF FurtherOn
    <3>6. CASE g # 0
      BY <1>1, <3>2, <3>3, <3>4, <3>6 DEF FurtherOn
    <3> QED BY <3>5, <3>6
  <2> HIDE DEF e
  <2>6. CutPlaces(t, 0, e) /\ CutPlaces(s, 0, n + e)
    <3>1. 1 - 1 = 0
      OBVIOUS
    <3> QED BY <2>3, <2>4, <2>5, <3>1
  <2>7. Cut(t, 0, e) = Cut(s, n + 0, n + e)
    <3> HIDE DEF n
    <3> QED BY <1>1, <2>6, DropPlaces DEF n
  <2>8. Cut(s, 0, n + e) = <<s[0 + 1]>> \o Cut(s, 0 + 1, n + e)
    <3>1. 0 < n + e
      BY <2>6 DEF CutPlaces
    <3> DEFINE z == 0
               w == n + e
    <3>2. CutPlaces(s, z, w) /\ z < w
      BY <2>6, <3>1
    <3> HIDE DEF z, w
    <3>3. Cut(s, z, w) = <<s[z + 1]>> \o Cut(s, z + 1, w)
      BY <3>2, CutFirst
    <3> QED BY <3>3 DEF z, w
  <2>9. 0 + 1 = 1 /\ n + 0 = 1 /\ 1 - 1 = 0
    OBVIOUS
  <2> QED BY <2>2, <2>3, <2>4, <2>5, <2>7, <2>8, <2>9
<1>12. ASSUME NEW k \in 2..m PROVE PartsOf(s, d)[k] = PartsOf(t, d)[k]
  <2> DEFINE j == k - 1
             p == PartStart(t, d, j)
             q == PartStart(s, d, j)
  <2>1. j \in Nat \ {0} /\ k \in 1..m
    BY <1>8
  <2>2. PartsOf(s, d)[k] = PartFrom(s, d, q)
    <3>1. k \in 1..SplitCount(s, d)
      BY <1>10, <2>1
    <3> QED BY <3>1, PartsAre
  <2>3. PartsOf(t, d)[k] = PartFrom(t, d, p) /\ p \in 1..(Len(t) + 1)
    BY <1>2, <2>1, PartsAre
  <2>4. FurtherOn(p, q, n)
    BY <1>13, <2>1
  <2> HIDE DEF p, q, n, j
  <2>5. q = p + n
    BY <2>3, <2>4 DEF FurtherOn
  <2>6. PartFrom(s, d, p + n) = PartFrom(Drop(s, n), d, p)
    <3>1. p \in 1..(Len(Drop(s, n)) + 1)
      BY <2>3 DEF n
    <3> QED BY <1>1, <3>1, PartShift
  <2> QED BY <2>2, <2>3, <2>5, <2>6 DEF n
<1> QED BY <1>10, <1>11, <1>12 DEF AfterOther

\* The texts put between each other one after the other.
Joins(f, q, r, T) ==
    /\ f \in [1..Len(q) -> Seq(T)] /\ f[1] = q[1]
    /\ \A i \in 2..Len(q) : f[i] = f[i - 1] \o (r \o q[i])
    /\ Between(q, r) = f[Len(q)]

\* Between puts the texts one behind the other.
LEMMA BetweenSteps ==
    ASSUME NEW T, NEW q \in Seq(Seq(T)), NEW r \in Seq(T), Len(q) # 0
    PROVE  \E f : Joins(f, q, r, T)
<1> DEFINE n == Len(q)
           w == [k \in 1..n |-> IF k = 1 THEN q[1] ELSE r \o q[k]]
<1>1. n \in Nat /\ n >= 1 /\ 1 \in 1..n /\ \A k \in 1..n : q[k] \in Seq(T)
  OBVIOUS
<1>2. \A k \in 1..n : r \o q[k] \in Seq(T)
  BY <1>1
<1>3. w \in Seq(Seq(T)) /\ Len(w) = n
  BY <1>1, <1>2
<1>4. w[1] = q[1] /\ \A i \in 2..n : w[i] = r \o q[i]
  <2>1. \A i \in 2..n : i \in 1..n /\ i # 1
    OBVIOUS
  <2> QED BY <1>1, <2>1
<1>5. Between(q, r) = FlattenSeq(w)
  BY DEF Between
<1> HIDE DEF w
<1>6. PICK f \in [1..Len(w) -> Seq(T)] : FlatSteps(f, w) /\ FlattenSeq(w) = f[Len(w)]
  BY <1>1, <1>3, FlattenSteps
<1>7. f \in [1..n -> Seq(T)] /\ f[1] = q[1] /\ Between(q, r) = f[n]
  BY <1>3, <1>4, <1>5, <1>6 DEF FlatSteps
<1>8. \A i \in 2..n : f[i] = f[i - 1] \o (r \o q[i])
  BY <1>3, <1>4, <1>6 DEF FlatSteps
<1> QED BY <1>7, <1>8 DEF Joins

\* It makes a text, of a single one that one.
LEMMA BetweenType ==
    ASSUME NEW T, NEW q \in Seq(Seq(T)), NEW r \in Seq(T), Len(q) # 0
    PROVE  Between(q, r) \in Seq(T) /\ (Len(q) = 1 => Between(q, r) = q[1])
<1>1. PICK f : Joins(f, q, r, T)
  BY BetweenSteps
<1>2. Len(q) \in 1..Len(q)
  OBVIOUS
<1> QED BY <1>1, <1>2 DEF Joins

\* An empty text before the others.
LEMMA BetweenCons ==
    ASSUME NEW T, NEW q \in Seq(Seq(T)), NEW u \in Seq(Seq(T)), NEW r \in Seq(T), Len(q) # 0,
           Len(u) = Len(q) + 1, u[1] = <<>>, \A k \in 1..Len(q) : u[k + 1] = q[k]
    PROVE  Between(u, r) = r \o Between(q, r)
<1> DEFINE n == Len(q)
<1>1. n \in Nat /\ n >= 1 /\ 1 \in 1..n /\ n \in 1..n /\ \A k \in 1..n : q[k] \in Seq(T)
  OBVIOUS
<1>2. PICK f : Joins(f, q, r, T)
  BY BetweenSteps
<1>3. PICK g : Joins(g, u, r, T)
  <2>1. Len(u) # 0
    BY <1>1
  <2> QED BY <2>1, BetweenSteps
<1>4. /\ f \in [1..n -> Seq(T)] /\ f[1] = q[1] /\ Between(q, r) = f[n]
      /\ \A i \in 2..n : f[i] = f[i - 1] \o (r \o q[i])
  BY <1>2 DEF Joins
<1>5. /\ g[1] = <<>> /\ Between(u, r) = g[n + 1]
      /\ \A i \in 2..(n + 1) : g[i] = g[i - 1] \o (r \o u[i])
  BY <1>3 DEF Joins
<1> HIDE DEF n
<1>10. \A k \in 1..n : u[k + 1] = q[k]
  BY DEF n
<1> DEFINE U == {k \in Nat : k + 1 <= n => g[(k + 1) + 1] = r \o f[k + 1]}
<1>6. 0 \in U
  <2>1. (0 + 1) + 1 = 2 /\ 0 + 1 = 1 /\ 2 \in 2..(n + 1) /\ 2 - 1 = 1 /\ 1 + 1 = 2
    BY <1>1
  <2>2. u[2] = q[1] /\ q[1] \in Seq(T)
    BY <1>1, <1>10, <2>1
  <2>3. g[2] = <<>> \o (r \o q[1])
    BY <1>5, <2>1, <2>2
  <2>4. <<>> \o (r \o q[1]) = r \o q[1]
    <3>1. r \o q[1] \in Seq(T)
      BY <2>2
    <3> QED BY <3>1, ConcatEmpty
  <2> QED BY <1>4, <2>1, <2>3, <2>4
<1>7. ASSUME NEW k \in Nat, k \in U PROVE k + 1 \in U
  <2> DEFINE i == k + 1
             j == i + 1
  <2>0. i \in Nat
    OBVIOUS
  <2>1. SUFFICES ASSUME j <= n PROVE g[j + 1] = r \o f[j]
    BY <2>0, Zenon
  <2>2. i \in 1..n /\ j \in 2..n /\ j \in 1..n /\ j + 1 \in 2..(n + 1) /\ (j + 1) - 1 = j /\ j - 1 = i /\ k + 1 <= n
    BY <1>1, <2>1
  <2>3. g[j] = r \o f[i]
    BY <1>7, <2>2
  <2> HIDE DEF i, j
  <2>4. g[j + 1] = g[j] \o (r \o u[j + 1]) /\ u[j + 1] = q[j]
    BY <1>5, <1>10, <2>2
  <2>5. f[j] = f[i] \o (r \o q[j])
    BY <1>4, <2>2
  <2>6. f[i] \in Seq(T) /\ r \o q[j] \in Seq(T)
    <3>1. f[i] \in Seq(T)
      BY <1>4, <2>2
    <3>2. q[j] \in Seq(T)
      BY <1>1, <2>2
    <3>3. r \o q[j] \in Seq(T)
      BY <3>2
    <3> QED BY <3>1, <3>3
  <2>7. (r \o f[i]) \o (r \o q[j]) = r \o (f[i] \o (r \o q[j]))
    <3> DEFINE a == f[i]
               b == r \o q[j]
    <3>1. a \in Seq(T) /\ b \in Seq(T)
      BY <2>6
    <3> HIDE DEF a, b
    <3>2. Regroups(r, a, b)
      BY <3>1, ConcatRegroups, Zenon
    <3> QED BY <3>2 DEF a, b, Regroups
  <2> QED BY <2>3, <2>4, <2>5, <2>7
<1> HIDE DEF U
<1>8. Nat \subseteq U
  BY <1>6, <1>7, SetInduction
<1>9. g[n + 1] = r \o f[n]
  <2>1. n - 1 \in Nat /\ (n - 1) + 1 = n /\ n <= n
    BY <1>1
  <2>2. g[((n - 1) + 1) + 1] = r \o f[(n - 1) + 1]
    BY <1>8, <2>1 DEF U
  <2> QED BY <2>1, <2>2
<1> QED BY <1>4, <1>5, <1>9

\* A text before the first one.
LEMMA BetweenHead ==
    ASSUME NEW T, NEW q \in Seq(Seq(T)), NEW u \in Seq(Seq(T)), NEW r \in Seq(T), NEW x \in Seq(T),
           Len(q) # 0, Len(u) = Len(q), u[1] = x \o q[1], \A k \in 2..Len(q) : u[k] = q[k]
    PROVE  Between(u, r) = x \o Between(q, r)
<1> DEFINE n == Len(q)
<1>1. n \in Nat /\ n >= 1 /\ 1 \in 1..n /\ n \in 1..n /\ \A k \in 1..n : q[k] \in Seq(T)
  OBVIOUS
<1>2. PICK f : Joins(f, q, r, T)
  BY BetweenSteps
<1>3. PICK g : Joins(g, u, r, T)
  <2>1. Len(u) # 0
    BY <1>1
  <2> QED BY <2>1, BetweenSteps
<1>4. /\ f \in [1..n -> Seq(T)] /\ f[1] = q[1] /\ Between(q, r) = f[n]
      /\ \A i \in 2..n : f[i] = f[i - 1] \o (r \o q[i])
  BY <1>2 DEF Joins
<1>5. /\ g[1] = x \o q[1] /\ Between(u, r) = g[n]
      /\ \A i \in 2..n : g[i] = g[i - 1] \o (r \o u[i])
  BY <1>3 DEF Joins
<1> HIDE DEF n
<1>10. \A k \in 2..n : u[k] = q[k]
  BY DEF n
<1> DEFINE U == {k \in Nat : k + 1 <= n => g[k + 1] = x \o f[k + 1]}
<1>6. 0 \in U
  <2>1. 0 + 1 = 1
    OBVIOUS
  <2> QED BY <1>4, <1>5, <2>1
<1>7. ASSUME NEW k \in Nat, k \in U PROVE k + 1 \in U
  <2> DEFINE i == k + 1
             j == i + 1
  <2>1. SUFFICES ASSUME j <= n PROVE g[j] = x \o f[j]
    OBVIOUS
  <2>2. i \in 1..n /\ j \in 2..n /\ j \in 1..n /\ j - 1 = i /\ k + 1 <= n
    BY <1>1, <2>1
  <2>3. g[i] = x \o f[i]
    BY <1>7, <2>2
  <2> HIDE DEF i, j
  <2>4. g[j] = g[i] \o (r \o q[j])
    BY <1>5, <1>10, <2>2
  <2>5. f[j] = f[i] \o (r \o q[j])
    BY <1>4, <2>2
  <2>6. f[i] \in Seq(T) /\ r \o q[j] \in Seq(T)
    BY <1>1, <1>4, <2>2
  <2>7. (x \o f[i]) \o (r \o q[j]) = x \o (f[i] \o (r \o q[j]))
    <3> DEFINE a == f[i]
               b == r \o q[j]
    <3>1. a \in Seq(T) /\ b \in Seq(T)
      BY <2>6
    <3> HIDE DEF a, b
    <3>2. Regroups(x, a, b)
      BY <3>1, ConcatRegroups, Zenon
    <3> QED BY <3>2 DEF a, b, Regroups
  <2> QED BY <2>3, <2>4, <2>5, <2>7
<1> HIDE DEF U
<1>8. Nat \subseteq U
  BY <1>6, <1>7, SetInduction
<1>9. g[n] = x \o f[n]
  <2>1. n - 1 \in Nat /\ (n - 1) + 1 = n /\ n <= n
    BY <1>1
  <2>2. g[(n - 1) + 1] = x \o f[(n - 1) + 1]
    BY <1>8, <2>1 DEF U
  <2> QED BY <2>1, <2>2
<1> QED BY <1>4, <1>5, <1>9

\* A text with r instead of every delimiter.
Replaced(s, d, r) == Between(PartsOf(s, d), r)

ReplacedRule(s, d, r) ==
    /\ s = <<>> => Replaced(s, d, r) = <<>>
    /\ StartsWith(s, d) => Replaced(s, d, r) = r \o Replaced(Drop(s, Len(d)), d, r)
    /\ s # <<>> /\ ~StartsWith(s, d) => Replaced(s, d, r) = <<s[1]>> \o Replaced(Drop(s, 1), d, r)

\* Replacing goes on behind each delimiter and each other character.
LEMMA ReplacedSteps ==
    ASSUME NullIsNoText, NEW T, NEW s \in Seq(T), NEW d \in Seq(T), d # <<>>, NEW r \in Seq(T)
    PROVE  Replaced(s, d, r) \in Seq(T) /\ ReplacedRule(s, d, r)
<1> DEFINE u == PartsOf(s, d)
<1>1. u \in Seq(Seq(T)) /\ Len(u) = SplitCount(s, d) /\ Len(u) \in Nat \ {0} /\ Len(u) # 0
  BY PartsAre
<1>2. Replaced(s, d, r) \in Seq(T) /\ (Len(u) = 1 => Replaced(s, d, r) = u[1])
  <2> HIDE DEF u
  <2>1. Between(u, r) \in Seq(T) /\ (Len(u) = 1 => Between(u, r) = u[1])
    BY <1>1, BetweenType
  <2> QED BY <2>1 DEF Replaced, u
<1>3. ASSUME s = <<>> PROVE Replaced(s, d, r) = <<>>
  BY <1>1, <1>2, <1>3, PartsOfEmpty
<1>4. ASSUME StartsWith(s, d) PROVE Replaced(s, d, r) = r \o Replaced(Drop(s, Len(d)), d, r)
  <2> DEFINE t == Drop(s, Len(d))
             q == PartsOf(t, d)
  <2>1. t \in Seq(T)
    <3>1. Len(d) \in 0..Len(s)
      BY <1>4 DEF StartsWith
    <3> QED BY <3>1, DropIs
  <2>2. /\ SplitCount(s, d) = SplitCount(t, d) + 1 /\ u[1] = <<>>
        /\ \A k \in 1..SplitCount(t, d) : u[k + 1] = q[k]
    BY <1>4, PartsAtDelimiter DEF AfterDelimiter
  <2> HIDE DEF t
  <2>3. q \in Seq(Seq(T)) /\ Len(q) = SplitCount(t, d) /\ Len(q) # 0
    BY <2>1, PartsAre
  <2> HIDE DEF q, u
  <2>4. Len(u) = Len(q) + 1 /\ \A k \in 1..Len(q) : u[k + 1] = q[k]
    BY <1>1, <2>2, <2>3
  <2>5. Between(u, r) = r \o Between(q, r)
    BY <1>1, <2>2, <2>3, <2>4, BetweenCons
  <2> QED BY <2>5 DEF Replaced, q, u, t
<1>5. ASSUME s # <<>>, ~StartsWith(s, d) PROVE Replaced(s, d, r) = <<s[1]>> \o Replaced(Drop(s, 1), d, r)
  <2> DEFINE t == Drop(s, 1)
             q == PartsOf(t, d)
             x == <<s[1]>>
  <2>1. t \in Seq(T) /\ x \in Seq(T)
    <3>1. 1 \in 0..Len(s) /\ s[1] \in T
      BY <1>5
    <3> QED BY <3>1, DropIs
  <2>2. /\ SplitCount(s, d) = SplitCount(t, d) /\ u[1] = x \o q[1]
        /\ \A k \in 2..SplitCount(t, d) : u[k] = q[k]
    BY <1>5, PartsAtOther DEF AfterOther
  <2> HIDE DEF t, x
  <2>3. q \in Seq(Seq(T)) /\ Len(q) = SplitCount(t, d) /\ Len(q) # 0
    BY <2>1, PartsAre
  <2> HIDE DEF q, u
  <2>4. Len(u) = Len(q) /\ \A k \in 2..Len(q) : u[k] = q[k]
    BY <1>1, <2>2, <2>3
  <2>5. Between(u, r) = x \o Between(q, r)
    <3>1. u \in Seq(Seq(T)) /\ q \in Seq(Seq(T)) /\ x \in Seq(T) /\ Len(q) # 0
      BY <1>1, <2>1, <2>3
    <3>2. u[1] = x \o q[1]
      BY <2>2
    <3> QED BY <2>4, <3>1, <3>2, BetweenHead
  <2> QED BY <2>5 DEF Replaced, q, u, t, x
<1> QED BY <1>2, <1>3, <1>4, <1>5 DEF ReplacedRule

\* A text is what is before a place and what is behind it.
LEMMA FirstAndRest ==
    ASSUME NEW T, NEW s \in Seq(T), NEW n \in 0..Len(s)
    PROVE  s = SubSeq(s, 1, n) \o Drop(s, n)
<1> DEFINE z == 0
           L == Len(s)
<1>1. L \in Nat /\ CutPlaces(s, z, n) /\ CutPlaces(s, n, L)
  BY DEF CutPlaces
<1>2. Drop(s, n) = Cut(s, n, L) /\ SubSeq(s, 1, n) = Cut(s, z, n)
  BY DropIsCut
<1>3. Cut(s, z, L) = s
  BY CutWhole
<1> HIDE DEF z, L
<1>4. Cut(s, z, n) \o Cut(s, n, L) = Cut(s, z, L)
  BY <1>1, CutJoin
<1> QED BY <1>2, <1>3, <1>4 DEF L

\* A delimiter put between the parts gives the text back.
LEMMA PartsJoin ==
    ASSUME NullIsNoText, NEW T, NEW s \in Seq(T), NEW d \in Seq(T), d # <<>>
    PROVE  Replaced(s, d, d) = s
<1> DEFINE U == {n \in Nat : \A t \in Seq(T) : Len(t) <= n => Replaced(t, d, d) = t}
<1>1. 0 \in U
  <2>1. ASSUME NEW t \in Seq(T), Len(t) <= 0 PROVE Replaced(t, d, d) = t
    <3>1. t = <<>>
      BY <2>1
    <3>9. ReplacedRule(t, d, d)
      BY ReplacedSteps, Zenon
    <3> QED BY <3>1, <3>9 DEF ReplacedRule
  <2> QED BY <2>1
<1>2. ASSUME NEW n \in Nat, n \in U PROVE n + 1 \in U
  <2>1. ASSUME NEW t \in Seq(T), Len(t) <= n + 1 PROVE Replaced(t, d, d) = t
    <3>9. ReplacedRule(t, d, d)
      BY ReplacedSteps, Zenon
    <3>1. CASE t = <<>>
      BY <3>1, <3>9 DEF ReplacedRule
    <3>2. CASE t # <<>> /\ StartsWith(t, d)
      <4> DEFINE v == Drop(t, Len(d))
      <4>1. Len(d) \in 0..Len(t) /\ SubSeq(t, 1, 1 + Len(d) - 1) = d /\ Len(d) >= 1
        BY <3>2 DEF StartsWith, Match
      <4>2. 1 + Len(d) - 1 = Len(d) /\ Len(t) \in Nat
        OBVIOUS
      <4>3. v \in Seq(T) /\ Len(v) = Len(t) - Len(d)
        BY <4>1, DropIs
      <4>4. t = d \o v
        BY <4>1, <4>2, FirstAndRest
      <4>5. Replaced(t, d, d) = d \o Replaced(v, d, d)
        BY <3>2, <3>9 DEF ReplacedRule
      <4> HIDE DEF v
      <4>6. Len(v) <= n
        BY <2>1, <4>1, <4>2, <4>3
      <4>7. Replaced(v, d, d) = v
        BY <1>2, <4>3, <4>6
      <4> QED BY <4>4, <4>5, <4>7
    <3>3. CASE t # <<>> /\ ~StartsWith(t, d)
      <4> DEFINE v == Drop(t, 1)
      <4>1. 1 \in 0..Len(t) /\ 1 \in 1..Len(t) /\ 1 - 1 = 0 /\ Len(t) \in Nat
        BY <3>3
      <4>2. v \in Seq(T) /\ Len(v) = Len(t) - 1
        BY <4>1, DropIs
      <4>3. t = <<t[1]>> \o v
        <5>1. Drop(t, 1 - 1) = <<t[1]>> \o v
          BY <4>1, SplitFirst
        <5>2. Drop(t, 0) = t
          <6>1. 0 + 1 = 1
            OBVIOUS
          <6> QED BY <6>1, WholeSlice DEF Drop
        <5> QED BY <4>1, <5>1, <5>2
      <4>4. Replaced(t, d, d) = <<t[1]>> \o Replaced(v, d, d)
        BY <3>3, <3>9 DEF ReplacedRule
      <4> HIDE DEF v
      <4>5. Len(v) <= n
        BY <2>1, <4>1, <4>2
      <4>6. Replaced(v, d, d) = v
        BY <1>2, <4>2, <4>5
      <4> QED BY <4>3, <4>4, <4>6
    <3> QED BY <3>1, <3>2, <3>3
  <2> QED BY <2>1
<1> HIDE DEF U
<1>3. Nat \subseteq U
  BY <1>1, <1>2, SetInduction
<1>4. Len(s) \in Nat /\ Len(s) <= Len(s)
  OBVIOUS
<1> QED BY <1>3, <1>4 DEF U

\* No part holds a delimiter.
LEMMA PartsWithout ==
    ASSUME NullIsNoText, NEW T, NEW s \in Seq(T), NEW d \in Seq(T), d # <<>>,
           NEW k \in 1..SplitCount(s, d)
    PROVE  Find(PartsOf(s, d)[k], d, 1) = 0
<1> DEFINE u == PartsOf(s, d)[k]
           p == PartStart(s, d, k - 1)
           e == PartEnd(s, d, p)
           x == Find(u, d, 1)
           y == Find(s, d, p)
           D == Len(d)
           L == Len(s)
<1>1. p \in 1..(L + 1) /\ u = PartFrom(s, d, p)
  BY PartsAre
<1> HIDE DEF p
<1>2. CutPlaces(s, p - 1, e) /\ u = Cut(s, p - 1, e)
  BY <1>1, PartFromIs
<1>3. D \in Nat /\ D >= 1 /\ L \in Nat /\ p \in Nat \ {0} /\ 1 \in Nat \ {0}
  BY <1>1
<1>4. /\ y \in Nat
      /\ \A i \in p..(L - D + 1) : Match(s, d, i) => y # 0 /\ y <= i
  BY <1>3, FindIs
<1>5. e = IF y = 0 THEN L ELSE y - 1
  BY DEF PartEnd
<1> HIDE DEF u, e, y
<1>6. u \in Seq(T) /\ Len(u) = e - (p - 1) /\ e \in Nat /\ p - 1 <= e /\ e <= L
  <2>1. u \in Seq(T) /\ Len(u) = e - (p - 1)
    BY <1>2, CutIs
  <2> QED BY <1>2, <2>1 DEF CutPlaces
<1>7. x \in Nat /\ (x # 0 => 1 <= x /\ x <= Len(u) - D + 1 /\ Match(u, d, x))
  BY <1>3, <1>6, FindIs
<1> HIDE DEF x, D, L
<1>8. ASSUME x # 0 PROVE FALSE
  <2> DEFINE a == x - 1
             b == a + D
             i == (p - 1) + x
  <2>1. a \in Nat /\ b \in Nat /\ a <= b /\ b <= e - (p - 1)
    BY <1>3, <1>6, <1>7, <1>8
  <2>2. i \in p..(L - D + 1)
    BY <1>3, <1>6, <1>7, <1>8
  <2>5. a + 1 = x /\ b = x + D - 1 /\ ((p - 1) + a) + 1 = i /\ (p - 1) + b = i + D - 1
    BY <1>3, <1>7
  <2> HIDE DEF a, b, i
  <2>3. Cut(Cut(s, p - 1, e), a, b) = Cut(s, (p - 1) + a, (p - 1) + b)
    BY <1>2, <2>1, CutCut
  <2>4. Match(s, d, i)
    <3>1. Match(u, d, x)
      BY <1>7, <1>8
    <3>2. SubSeq(u, x, x + D - 1) = d
      BY <3>1 DEF Match, D
    <3>3. SubSeq(s, i, i + D - 1) = SubSeq(u, x, x + D - 1)
      BY <1>2, <2>3, <2>5 DEF Cut
    <3> QED BY <3>2, <3>3 DEF Match, D
  <2>6. y # 0 /\ y <= i
    BY <1>4, <2>2, <2>4
  <2>7. i = (p - 1) + x
    BY DEF i
  <2> QED BY <1>3, <1>4, <1>5, <1>6, <1>7, <1>8, <2>6, <2>7
<1> QED BY <1>8 DEF x, u

\* What a run checks of strings_split, for all texts and delimiters.
THEOREM SplitsInvert ==
    ASSUME NullIsNoText, NEW T, NEW s \in Seq(T), NEW d \in Seq(T)
    PROVE  SplitInverts(s, d)
<1>1. CASE d = <<>>
  <2> DEFINE q == PartsOf(s, d)
  <2>1. NoSplit(s, d) /\ SplitCount(s, d) = 1 /\ s # Null
    BY <1>1 DEF NoSplit, SplitCount, NullIsNoText
  <2>2. SplitPart(s, d, 0) = s /\ SplitPart(s, d, 1) = <<>>
    BY <2>1 DEF SplitPart, OrEmpty
  <2>3. q = [k \in 1..1 |-> SplitPart(s, d, k - 1)]
    BY <2>1 DEF PartsOf
  <2>4. q \in Seq(Seq(T)) /\ Len(q) = 1 /\ q[1] = s /\ Len(q) # 0
    <3>1. \A k \in 1..1 : SplitPart(s, d, k - 1) = s
      <4>1. \A k \in 1..1 : k - 1 = 0
        OBVIOUS
      <4> QED BY <2>2, <4>1
    <3> QED BY <2>3, <3>1
  <2>5. Between(q, d) = s
    <3> HIDE DEF q
    <3> QED BY <2>4, BetweenType
  <2> QED BY <1>1, <2>1, <2>2, <2>5 DEF SplitInverts
<1>2. CASE d # <<>>
  <2> DEFINE m == SplitCount(s, d)
  <2>1. Between(PartsOf(s, d), d) = s
    BY <1>2, PartsJoin DEF Replaced
  <2>2. \A k \in 1..m : Find(PartsOf(s, d)[k], d, 1) = 0
    BY <1>2, PartsWithout
  <2>3. SplitPart(s, d, m) = <<>>
    <3>1. m \in Nat \ {0} /\ \A k \in Nat : PartStart(s, d, k) # 0 <=> k < m
      BY <1>2, SplitCountIs DEF Begins
    <3> HIDE DEF m
    <3>2. PartStart(s, d, m) = 0
      BY <3>1
    <3>3. ~NoSplit(s, d)
      BY <1>2 DEF NoSplit, NullIsNoText
    <3>4. PartFrom(s, d, 0) = <<>>
      BY DEF PartFrom
    <3> QED BY <3>2, <3>3, <3>4 DEF SplitPart
  <2> QED BY <2>1, <2>2, <2>3 DEF SplitInverts
<1> QED BY <1>1, <1>2

------------------------------------------------------------------------------
(* Escaped texts, and what the compiler reads.                             *)

\* The recursion of CReads.
ReadChar(c) == CASE c = "n" -> "\n" [] c = "r" -> "\r" [] c = "t" -> "\t" [] OTHER -> c

ReadRun(f, s) ==
    f = [i \in 1..(Len(s) + 2) |->
            IF i > Len(s) THEN <<>>
            ELSE IF s[i] = "\\" THEN <<ReadChar(s[i + 1])>> \o f[i + 2]
            ELSE <<s[i]>> \o f[i + 1]]

\* There is a table of what the compiler reads from each place on.
LEMMA ReadRunExists ==
    ASSUME NEW T, NEW s \in Seq(T)
    PROVE  \E f : ReadRun(f, s)
<1> DEFINE L == Len(s)
           n == L + 1
           V == T \cup {"\n", "\r", "\t", s[L + 1]}
           S == Seq(V)
           A == [0..n -> S]
           StepTo(j, h) == IF L + 2 - j > L THEN <<>>
                         ELSE IF s[L + 2 - j] = "\\" THEN <<ReadChar(s[(L + 2 - j) + 1])>> \o h[j - 2]
                         ELSE <<s[L + 2 - j]>> \o h[j - 1]
           F == [j \in 0..n |-> [h \in A |-> StepTo(j, h)]]
<1>1. L \in Nat /\ n \in Nat /\ S # {} /\ <<>> \in S
  <2>1. L \in Nat /\ n \in Nat
    OBVIOUS
  <2>2. <<>> \in S
    OBVIOUS
  <2> QED BY <2>1, <2>2
<1>2. \A i \in 1..(L + 1) : s[i] \in V
  <2>1. \A i \in 1..(L + 1) : i \in 1..L \/ i = L + 1
    BY <1>1
  <2>2. \A i \in 1..L : s[i] \in T
    OBVIOUS
  <2> QED BY <2>1, <2>2
<1>3. \A v \in V : ReadChar(v) \in V
  BY DEF ReadChar
<1>4. \A v \in V : \A x \in S : <<v>> \o x \in S
  <2> HIDE DEF V
  <2> QED OBVIOUS
<1>5. ASSUME NEW j \in 0..n, ~(L + 2 - j > L)
      PROVE  /\ L + 2 - j \in 1..(L + 1) /\ (L + 2 - j) + 1 \in 1..(L + 1)
             /\ j - 1 \in 0..(j - 1) /\ j - 2 \in 0..(j - 1) /\ j - 1 \in 0..n /\ j - 2 \in 0..n
  BY <1>1, <1>5
<1> HIDE DEF V, S, n
<1>6. ASSUME NEW j \in 0..n, NEW h \in A PROVE StepTo(j, h) \in S
  <2>1. CASE L + 2 - j > L
    BY <1>1, <2>1
  <2>2. CASE ~(L + 2 - j > L)
    <3> DEFINE c == s[L + 2 - j]
               v == ReadChar(s[(L + 2 - j) + 1])
    <3>1. c \in V /\ v \in V /\ h[j - 2] \in S /\ h[j - 1] \in S
      BY <1>2, <1>3, <1>5, <2>2
    <3> HIDE DEF c, v
    <3>2. <<v>> \o h[j - 2] \in S /\ <<c>> \o h[j - 1] \in S
      BY <1>4, <3>1
    <3>3. StepTo(j, h) = IF c = "\\" THEN <<v>> \o h[j - 2] ELSE <<c>> \o h[j - 1]
      BY <2>2 DEF c, v
    <3> HIDE DEF StepTo
    <3> QED BY <3>2, <3>3
  <2> QED BY <2>1, <2>2
<1>7. ASSUME NEW j \in 0..n, NEW g \in A, NEW h \in A, \A i \in 0..(j - 1) : g[i] = h[i]
      PROVE  StepTo(j, g) = StepTo(j, h)
  <2>1. CASE L + 2 - j > L
    BY <2>1
  <2>2. CASE ~(L + 2 - j > L)
    <3>1. g[j - 1] = h[j - 1] /\ g[j - 2] = h[j - 2]
      BY <1>5, <1>7, <2>2
    <3> QED BY <3>1
  <2> QED BY <2>1, <2>2
<1> HIDE DEF StepTo
<1>8. Below(F, n, S)
  <2>1. F \in [0..n -> [A -> S]]
    BY <1>6
  <2>2. \A j \in 0..n : \A h \in A : F[j][h] = StepTo(j, h)
    OBVIOUS
  <2> HIDE DEF F
  <2>3. \A j \in 0..n : \A g, h \in A : (\A i \in 0..(j - 1) : g[i] = h[i]) => F[j][g] = F[j][h]
    <3> HIDE DEF A
    <3> QED BY <1>7, <2>2
  <2> QED BY <2>1, <2>3 DEF Below
<1>9. PICK g \in A : \A j \in 0..n : g[j] = StepTo(j, g)
  <2>1. Computes(F, n, S)
    <3> HIDE DEF F
    <3> QED BY <1>1, <1>8, CourseOfValues
  <2>2. PICK g \in A : \A j \in 0..n : g[j] = F[j][g]
    BY <2>1 DEF Computes
  <2>3. \A j \in 0..n : g[j] = StepTo(j, g)
    BY <2>2
  <2> QED BY <2>3
<1> DEFINE f == [i \in 1..(L + 2) |-> g[L + 2 - i]]
<1>10. ASSUME NEW i \in 1..(L + 2)
       PROVE  f[i] = IF i > L THEN <<>>
                     ELSE IF s[i] = "\\" THEN <<ReadChar(s[i + 1])>> \o f[i + 2]
                     ELSE <<s[i]>> \o f[i + 1]
  <2> DEFINE j == L + 2 - i
  <2>1. j \in 0..n /\ L + 2 - j = i
    BY <1>1 DEF n
  <2>2. f[i] = g[j]
    OBVIOUS
  <2>3. ~(i > L) => /\ i + 1 \in 1..(L + 2) /\ i + 2 \in 1..(L + 2)
                    /\ L + 2 - (i + 1) = j - 1 /\ L + 2 - (i + 2) = j - 2
    BY <1>1
  <2>4. ~(i > L) => f[i + 1] = g[j - 1] /\ f[i + 2] = g[j - 2]
    BY <2>3
  <2>5. g[j] = StepTo(j, g)
    BY <1>9, <2>1
  <2> HIDE DEF f, j
  <2> QED BY <2>1, <2>2, <2>4, <2>5 DEF StepTo
<1>11. f = [i \in 1..(L + 2) |-> f[i]]
  OBVIOUS
<1>12. ReadRun(f, s)
  <2> HIDE DEF f
  <2> QED BY <1>10, <1>11 DEF ReadRun
<1> QED BY <1>12

\* What the C compiler reads, from place i on.
ReadSteps(f, s) ==
    /\ CReads(s) = f[1]
    /\ \A i \in 1..(Len(s) + 2) :
          f[i] = IF i > Len(s) THEN <<>>
                 ELSE IF s[i] = "\\" THEN <<ReadChar(s[i + 1])>> \o f[i + 2]
                 ELSE <<s[i]>> \o f[i + 1]

\* CReads is the first entry of that table.
LEMMA ReadStepsExist ==
    ASSUME NEW T, NEW s \in Seq(T)
    PROVE  \E f : ReadSteps(f, s)
<1> DEFINE f == CHOOSE g : ReadRun(g, s)
<1>1. CReads(s) = f[1]
  BY DEF CReads, ReadRun, ReadChar
<1>2. ReadRun(f, s)
  BY ReadRunExists
<1> HIDE DEF f
<1>3. \A i \in 1..(Len(s) + 2) :
         f[i] = IF i > Len(s) THEN <<>>
                ELSE IF s[i] = "\\" THEN <<ReadChar(s[i + 1])>> \o f[i + 2]
                ELSE <<s[i]>> \o f[i + 1]
  BY <1>2 DEF ReadRun
<1> QED BY <1>1, <1>3 DEF ReadSteps

\* An escape is the character, or a backslash and a letter that is read as it.
LEMMA EscapeIs ==
    ASSUME NEW c
    PROVE  \/ Escape(c) = <<c>> /\ c # "\\"
           \/ \E x : Escape(c) = <<"\\", x>> /\ ReadChar(x) = c
  BY DEF Escape, ReadChar

\* The C compiler reads an escaped text back, and it fits its buffer.
LEMMA EscapesRead ==
    ASSUME NullIsNoText, NEW T, NEW s \in Seq(T)
    PROVE  /\ CReads(EscapeCString(s, Len(s))) = s
           /\ Len(EscapeCString(s, Len(s))) <= 2 * Len(s)
<1> DEFINE n == Len(s)
           e == EscapeCString(s, n)
           w == [i \in 1..n |-> Escape(s[i])]
           V == T \cup {"\\", "n", "r", "t", "\""}
<1>1. n \in Nat /\ s # Null /\ \A i \in 1..n : s[i] \in T
  BY DEF NullIsNoText
<1>2. CASE n = 0
  <2>1. e = <<>> /\ s = <<>>
    BY <1>2 DEF EscapeCString
  <2> HIDE DEF e
  <2>2. e \in Seq(T) /\ Len(e) = 0
    BY <2>1
  <2>3. PICK f : ReadSteps(f, e)
    BY <2>2, ReadStepsExist
  <2>4. f[1] = <<>>
    <3>1. 1 \in 1..(Len(e) + 2) /\ 1 > Len(e)
      BY <2>2
    <3> QED BY <2>3, <3>1 DEF ReadSteps
  <2>5. CReads(e) = s /\ Len(e) <= 2 * n
    BY <1>1, <2>1, <2>2, <2>3, <2>4 DEF ReadSteps
  <2> QED BY <2>5 DEF e
<1>3. CASE n # 0
  <2>1. e = FlattenSeq(w)
    BY <1>1, <1>3 DEF EscapeCString
  <2>2. ASSUME NEW i \in 1..n
        PROVE  /\ w[i] = Escape(s[i]) /\ w[i] \in Seq(V) /\ Len(w[i]) \in 1..2
               /\ \/ w[i] = <<s[i]>> /\ s[i] # "\\"
                  \/ \E x : w[i] = <<"\\", x>> /\ ReadChar(x) = s[i]
    <3>1. ASSUME NEW c \in T PROVE Escape(c) \in Seq(V) /\ Len(Escape(c)) \in 1..2
      <4>1. "\\" \in V /\ "n" \in V /\ "r" \in V /\ "t" \in V /\ "\"" \in V /\ c \in V
        OBVIOUS
      <4> HIDE DEF V
      <4>2. /\ <<"\\", "n">> \in Seq(V) /\ <<"\\", "r">> \in Seq(V) /\ <<"\\", "t">> \in Seq(V)
            /\ <<"\\", "\\">> \in Seq(V) /\ <<"\\", "\"">> \in Seq(V) /\ <<c>> \in Seq(V)
        <5>1. \A x, y \in V : <<x, y>> \in Seq(V)
          OBVIOUS
        <5>2. \A x \in V : <<x>> \in Seq(V)
          OBVIOUS
        <5> QED BY <4>1, <5>1, <5>2
      <4>3. /\ Len(<<"\\", "n">>) = 2 /\ Len(<<"\\", "r">>) = 2 /\ Len(<<"\\", "t">>) = 2
            /\ Len(<<"\\", "\\">>) = 2 /\ Len(<<"\\", "\"">>) = 2 /\ Len(<<c>>) = 1 /\ 1 \in 1..2 /\ 2 \in 1..2
        OBVIOUS
      <4> QED BY <4>2, <4>3 DEF Escape
    <3> HIDE DEF V
    <3>2. w[i] = Escape(s[i])
      OBVIOUS
    <3>3. \/ Escape(s[i]) = <<s[i]>> /\ s[i] # "\\"
          \/ \E x : Escape(s[i]) = <<"\\", x>> /\ ReadChar(x) = s[i]
      BY EscapeIs
    <3> HIDE DEF w
    <3> QED BY <1>1, <3>1, <3>2, <3>3
  <2>3. w \in Seq(Seq(V)) /\ Len(w) = n
    <3> HIDE DEF V
    <3>1. \A i \in 1..n : Escape(s[i]) \in Seq(V)
      BY <2>2
    <3> QED BY <1>1, <3>1
  <2> HIDE DEF w, e, V
  <2>4. PICK o : Laid(o, w)
    BY <1>3, <2>3, FlattenPlaces
  <2>5. e \in Seq(V)
    BY <1>3, <2>1, <2>3, FlattenPlaces
  <2> DEFINE L == Len(e)
  <2>6. /\ o \in [0..n -> Nat] /\ o[0] = 0 /\ o[n] = L /\ L \in Nat
        /\ \A k \in 1..n : /\ o[k] = o[k - 1] + Len(w[k]) /\ o[k] <= L
                           /\ \A x \in 1..Len(w[k]) : e[o[k - 1] + x] = w[k][x]
    <3>1. L \in Nat
      BY <2>5
    <3> QED BY <2>1, <2>3, <2>4, <3>1 DEF Laid
  <2>7. PICK f : ReadSteps(f, e)
    BY <2>5, ReadStepsExist
  <2>16. \A i \in 1..(L + 2) :
            f[i] = IF i > L THEN <<>>
                   ELSE IF e[i] = "\\" THEN <<ReadChar(e[i + 1])>> \o f[i + 2]
                   ELSE <<e[i]>> \o f[i + 1]
    BY <2>7 DEF ReadSteps
  <2> HIDE DEF L
  <2>8. ASSUME NEW k \in 1..n, f[o[k] + 1] = Drop(s, k)
        PROVE  f[o[k - 1] + 1] = Drop(s, k - 1)
    <3> DEFINE a == o[k - 1]
               b == o[k]
    <3>1. k - 1 \in 0..n /\ k \in 0..n
      BY <1>1
    <3>2. /\ a \in Nat /\ b \in Nat /\ b = a + Len(w[k]) /\ b <= L
          /\ \A x \in 1..Len(w[k]) : e[a + x] = w[k][x]
      BY <2>6, <3>1
    <3>8. f[b + 1] = Drop(s, k)
      BY <2>8
    <3> HIDE DEF a, b
    <3>3. Drop(s, k - 1) = <<s[k]>> \o Drop(s, k)
      BY SplitFirst
    <3>4. Len(w[k]) \in 1..2 /\ a + 1 \in 1..(L + 2) /\ ~(a + 1 > L)
      <4>1. Len(w[k]) \in 1..2
        BY <2>2
      <4>2. \A x, y \in Nat : \A l \in 1..2 : y = x + l /\ y <= L => x + 1 \in 1..(L + 2) /\ ~(x + 1 > L)
        BY <2>6
      <4>3. b = a + Len(w[k]) /\ b <= L /\ a \in Nat /\ b \in Nat
        BY <3>2
      <4> QED BY <4>1, <4>2, <4>3
    <3>5. f[a + 1] = IF e[a + 1] = "\\" THEN <<ReadChar(e[(a + 1) + 1])>> \o f[(a + 1) + 2]
                     ELSE <<e[a + 1]>> \o f[(a + 1) + 1]
      BY <2>16, <3>4
    <3>6. CASE w[k] = <<s[k]>> /\ s[k] # "\\"
      <4>1. Len(w[k]) = 1 /\ w[k][1] = s[k]
        BY <3>6
      <4>2. b = a + 1
        BY <3>2, <4>1
      <4>3. e[a + 1] = s[k]
        <5>1. 1 \in 1..Len(w[k])
          BY <4>1
        <5> QED BY <3>2, <4>1, <5>1
      <4>4. f[a + 1] = <<s[k]>> \o f[b + 1]
        BY <3>5, <3>6, <4>2, <4>3
      <4> QED BY <3>3, <3>8, <4>4 DEF a
    <3>7. CASE \E x : w[k] = <<"\\", x>> /\ ReadChar(x) = s[k]
      <4>1. PICK x : w[k] = <<"\\", x>> /\ ReadChar(x) = s[k]
        BY <3>7
      <4>2. Len(w[k]) = 2 /\ w[k][1] = "\\" /\ w[k][2] = x
        BY <4>1
      <4>3. b + 1 = (a + 1) + 2 /\ (a + 1) + 1 = a + 2 /\ 1 \in 1..Len(w[k]) /\ 2 \in 1..Len(w[k])
        BY <3>2, <4>2
      <4>4. e[a + 1] = "\\" /\ e[a + 2] = x
        BY <3>2, <4>2, <4>3
      <4>5. f[a + 1] = <<s[k]>> \o f[b + 1]
        BY <3>5, <4>1, <4>3, <4>4
      <4> QED BY <3>3, <3>8, <4>5 DEF a
    <3>9. \/ w[k] = <<s[k]>> /\ s[k] # "\\"
          \/ \E x : w[k] = <<"\\", x>> /\ ReadChar(x) = s[k]
      BY <2>2
    <3> QED BY <3>6, <3>7, <3>9
  <2> DEFINE U == {m \in Nat : m <= n => f[o[n - m] + 1] = Drop(s, n - m)}
  <2>9. 0 \in U
    <3>1. n - 0 = n /\ L + 1 \in 1..(L + 2) /\ L + 1 > L
      BY <1>1, <2>6
    <3>2. f[L + 1] = <<>>
      BY <2>16, <3>1
    <3>3. Drop(s, n) = <<>>
      <4>1. SubSeq(s, n + 1, n) = <<>>
        BY <1>1
      <4> QED BY <4>1 DEF Drop
    <3> QED BY <2>6, <3>1, <3>2, <3>3
  <2>10. ASSUME NEW m \in Nat, m \in U PROVE m + 1 \in U
    <3>1. SUFFICES ASSUME m + 1 <= n PROVE f[o[n - (m + 1)] + 1] = Drop(s, n - (m + 1))
      OBVIOUS
    <3> DEFINE k == n - m
    <3>2. k \in 1..n /\ n - (m + 1) = k - 1 /\ m <= n
      BY <1>1, <3>1
    <3>3. f[o[k] + 1] = Drop(s, k)
      BY <2>10, <3>2
    <3> HIDE DEF k
    <3> QED BY <2>8, <3>2, <3>3
  <2> HIDE DEF U
  <2>11. Nat \subseteq U
    BY <2>9, <2>10, SetInduction
  <2>12. CReads(e) = s
    <3>1. n \in U /\ n - n = 0 /\ 0 + 1 = 1 /\ n <= n
      BY <1>1, <2>11
    <3>2. f[1] = Drop(s, 0)
      BY <2>6, <3>1 DEF U
    <3>3. Drop(s, 0) = s
      BY <3>1, WholeSlice DEF Drop
    <3> QED BY <2>7, <3>2, <3>3 DEF ReadSteps
  <2> DEFINE W == {k \in Nat : k <= n => o[k] <= 2 * k}
  <2>13. Nat \subseteq W
    <3>1. 0 \in W
      BY <2>6
    <3>2. ASSUME NEW k \in Nat, k \in W PROVE k + 1 \in W
      <4>1. SUFFICES ASSUME k + 1 <= n PROVE o[k + 1] <= 2 * (k + 1)
        OBVIOUS
      <4>2. k + 1 \in 1..n /\ k \in 0..n /\ k + 1 \in 0..n /\ (k + 1) - 1 = k /\ k <= n
        BY <1>1, <4>1
      <4>3. o[k + 1] = o[k] + Len(w[k + 1])
        <5>1. o[k + 1] = o[(k + 1) - 1] + Len(w[k + 1])
          BY <2>6, <4>2
        <5> QED BY <4>2, <5>1
      <4>4. Len(w[k + 1]) \in 1..2
        BY <2>2, <4>2
      <4>5. o[k] \in Nat /\ o[k] <= 2 * k
        BY <2>6, <3>2, <4>2
      <4>6. \A x, y \in Nat : x <= 2 * k /\ y \in 1..2 => x + y <= 2 * (k + 1)
        OBVIOUS
      <4>7. Len(w[k + 1]) \in Nat
        BY <4>4
      <4> QED BY <4>3, <4>4, <4>5, <4>6, <4>7
    <3> HIDE DEF W
    <3> QED BY <3>1, <3>2, SetInduction
  <2>14. L <= 2 * n
    <3>1. n \in W /\ n <= n
      BY <1>1, <2>13
    <3> QED BY <2>6, <3>1
  <2> QED BY <2>12, <2>14 DEF e, L
<1> QED BY <1>2, <1>3

------------------------------------------------------------------------------
(* Formats: the reference and the scan of the code, from place to place.   *)

\* The two of a text of two.
LEMMA ConcatDrop ==
    ASSUME NEW T, NEW a \in Seq(T), NEW b \in Seq(T)
    PROVE  SubSeq(a \o b, 1, Len(a)) = a /\ Drop(a \o b, Len(a)) = b /\ Len(a) <= Len(a \o b)
<1> DEFINE c == a \o b
           n == Len(a)
           u == SubSeq(c, 1, n)
           v == Drop(c, n)
<1>1. /\ c \in Seq(T) /\ Len(c) = n + Len(b) /\ n \in Nat /\ Len(b) \in Nat
      /\ (\A i \in 1..n : c[i] = a[i]) /\ (\A j \in 1..Len(b) : c[n + j] = b[j])
  BY ConcatIs
<1> HIDE DEF c
<1>2. n \in 0..Len(c) /\ Len(c) - n = Len(b)
  BY <1>1
<1>3. u \in Seq(T) /\ Len(u) = n /\ \A i \in 1..n : u[i] = c[i]
  BY <1>1, <1>2, SubSeqPrefix
<1>4. v \in Seq(T) /\ Len(v) = Len(c) - n /\ \A j \in 1..(Len(c) - n) : v[j] = c[n + j]
  BY <1>1, <1>2, DropIs
<1> HIDE DEF u, v
<1>5. u = a
  BY <1>1, <1>3, SameElements
<1>6. v = b
  BY <1>1, <1>2, <1>4, SameElements
<1> QED BY <1>2, <1>5, <1>6 DEF u, v, c

\* A text begins with three characters.
LEMMA StartsWithThree ==
    ASSUME NEW T, NEW s \in Seq(T), NEW x \in T, NEW y \in T, NEW z \in T
    PROVE  StartsWith(s, <<x, y, z>>) <=> Len(s) >= 3 /\ s[1] = x /\ s[2] = y /\ s[3] = z
<1> DEFINE d == <<x, y, z>>
           u == SubSeq(s, 1, 3)
<1>1. d \in Seq(T) /\ Len(d) = 3 /\ d[1] = x /\ d[2] = y /\ d[3] = z /\ Len(s) \in Nat
  OBVIOUS
<1> HIDE DEF d
<1>2. 1 + Len(d) - 1 = 3
  BY <1>1
<1>3. StartsWith(s, d) <=> Len(s) >= 3 /\ u = d
  BY <1>1, <1>2 DEF StartsWith, Match
<1>4. ASSUME Len(s) >= 3 PROVE u = d <=> s[1] = x /\ s[2] = y /\ s[3] = z
  <2>1. 3 \in 0..Len(s)
    BY <1>1, <1>4
  <2>2. u \in Seq(T) /\ Len(u) = 3 /\ \A i \in 1..3 : u[i] = s[i]
    BY <2>1, SubSeqPrefix
  <2> HIDE DEF u
  <2>3. u[1] = s[1] /\ u[2] = s[2] /\ u[3] = s[3]
    BY <2>2
  <2>4. ASSUME s[1] = x, s[2] = y, s[3] = z PROVE u = d
    <3>1. \A i \in 1..3 : i = 1 \/ i = 2 \/ i = 3
      OBVIOUS
    <3>2. \A i \in 1..Len(d) : u[i] = d[i]
      BY <1>1, <2>3, <2>4, <3>1
    <3> QED BY <1>1, <2>2, <3>2, SameElements
  <2> QED BY <1>1, <2>3, <2>4
<1> QED BY <1>3, <1>4 DEF d

\* The references of a format: {1} left out, and the first argument for {0}.
Hole0 == <<"{", "0", "}">>
Hole1 == <<"{", "1", "}">>
Emptied(s) == Replaced(s, Hole1, <<>>)
Pieces(s) == [k \in 1..Len(PartsOf(s, Hole0)) |-> Emptied(PartsOf(s, Hole0)[k])]
Expanded(s) == Between(Pieces(s), Hole1)

HoleChars == {"{", "0", "1", "}"}

\* Both holes are texts of three characters.
LEMMA HolesAre ==
    ASSUME NEW T, HoleChars \subseteq T
    PROVE  /\ Hole0 \in Seq(T) /\ Hole1 \in Seq(T) /\ <<>> \in Seq(T)
           /\ Hole0 # <<>> /\ Hole1 # <<>> /\ Len(Hole0) = 3 /\ Len(Hole1) = 3
           /\ "{" \in T /\ "0" \in T /\ "1" \in T /\ "}" \in T
<1>1. "{" \in T /\ "0" \in T /\ "1" \in T /\ "}" \in T
  BY DEF HoleChars
<1>2. \A x, y, z \in T : <<x, y, z>> \in Seq(T)
  OBVIOUS
<1>3. Hole0 \in Seq(T) /\ Hole1 \in Seq(T)
  BY <1>1, <1>2 DEF Hole0, Hole1
<1>4. Len(Hole0) = 3 /\ Len(Hole1) = 3 /\ Len(<<>>) = 0 /\ <<>> \in Seq(T)
  BY DEF Hole0, Hole1
<1>5. Hole0 # <<>> /\ Hole1 # <<>>
  BY DEF Hole0, Hole1
<1> QED BY <1>1, <1>3, <1>4, <1>5

\* What is between the holes {0}, without the holes {1}.
LEMMA PiecesAre ==
    ASSUME NullIsNoText, NEW T, HoleChars \subseteq T, NEW s \in Seq(T)
    PROVE  /\ PartsOf(s, Hole0) \in Seq(Seq(T)) /\ Len(PartsOf(s, Hole0)) = SplitCount(s, Hole0)
           /\ Pieces(s) \in Seq(Seq(T)) /\ Len(Pieces(s)) = SplitCount(s, Hole0)
           /\ SplitCount(s, Hole0) \in Nat \ {0} /\ Len(Pieces(s)) # 0
           /\ \A k \in 1..SplitCount(s, Hole0) :
                 PartsOf(s, Hole0)[k] \in Seq(T) /\ Pieces(s)[k] = Emptied(PartsOf(s, Hole0)[k])
<1> DEFINE q == PartsOf(s, Hole0)
           n == SplitCount(s, Hole0)
<1>1. Hole0 \in Seq(T) /\ Hole1 \in Seq(T) /\ <<>> \in Seq(T) /\ Hole0 # <<>> /\ Hole1 # <<>>
  BY HolesAre
<1>2. q \in Seq(Seq(T)) /\ Len(q) = n /\ n \in Nat \ {0}
  BY <1>1, PartsAre
<1>3. Pieces(s) = [k \in 1..Len(q) |-> Emptied(q[k])]
  BY DEF Pieces
<1> HIDE DEF q, n
<1>4. ASSUME NEW k \in 1..n PROVE q[k] \in Seq(T) /\ Emptied(q[k]) \in Seq(T)
  <2>1. q[k] \in Seq(T)
    BY <1>2
  <2> DEFINE t == q[k]
             e == <<>>
  <2>2. t \in Seq(T) /\ e \in Seq(T)
    BY <1>1, <2>1
  <2> HIDE DEF t, e
  <2>3. Replaced(t, Hole1, e) \in Seq(T)
    BY <1>1, <2>2, ReplacedSteps
  <2> QED BY <2>1, <2>3 DEF Emptied, t, e
<1>5. Pieces(s) \in Seq(Seq(T)) /\ Len(Pieces(s)) = n
  BY <1>2, <1>3, <1>4
<1>6. \A k \in 1..n : Pieces(s)[k] = Emptied(q[k])
  BY <1>2, <1>3
<1>7. Len(Pieces(s)) # 0
  BY <1>2, <1>5
<1> QED BY <1>2, <1>4, <1>5, <1>6, <1>7 DEF q, n

\* Leaving out the holes {1} goes on behind each and behind other characters.
LEMMA EmptiedSteps ==
    ASSUME NullIsNoText, NEW T, HoleChars \subseteq T, NEW s \in Seq(T)
    PROVE  /\ s = <<>> => Emptied(s) = <<>>
           /\ StartsWith(s, Hole1) => Emptied(s) = Emptied(Drop(s, 3))
           /\ s # <<>> /\ ~StartsWith(s, Hole1) => Emptied(s) = <<s[1]>> \o Emptied(Drop(s, 1))
<1> DEFINE e == <<>>
           t == Drop(s, 3)
<1>1. Hole1 \in Seq(T) /\ Hole1 # <<>> /\ e \in Seq(T) /\ Len(Hole1) = 3
  BY HolesAre
<1>2. ReplacedRule(s, Hole1, e)
  <2> HIDE DEF e
  <2> QED BY <1>1, ReplacedSteps, Zenon
<1>3. ASSUME StartsWith(s, Hole1) PROVE e \o Replaced(t, Hole1, e) = Replaced(t, Hole1, e)
  <2>1. t \in Seq(T)
    <3>1. 3 \in 0..Len(s)
      BY <1>1, <1>3 DEF StartsWith
    <3> QED BY <3>1, DropIs
  <2> HIDE DEF t
  <2>2. Replaced(t, Hole1, e) \in Seq(T)
    <3> HIDE DEF e
    <3> QED BY <1>1, <2>1, ReplacedSteps
  <2> QED BY <2>2, ConcatEmpty
<1> HIDE DEF t
<1> QED BY <1>1, <1>2, <1>3 DEF ReplacedRule, Emptied, t

\* Expanding the rest gives expanding the text.
LEMMA ExpandedEmpty ==
    ASSUME NullIsNoText, NEW T, HoleChars \subseteq T, NEW s \in Seq(T), s = <<>>
    PROVE  Expanded(s) = <<>>
<1> DEFINE q == PartsOf(s, Hole0)
           w == Pieces(s)
<1>1. Hole0 \in Seq(T) /\ Hole0 # <<>> /\ Hole1 \in Seq(T)
  BY HolesAre
<1>2. SplitCount(s, Hole0) = 1 /\ q[1] = <<>>
  <2>1. s = <<>>
    OBVIOUS
  <2> QED BY <1>1, <2>1, PartsOfEmpty
<1>3. w \in Seq(Seq(T)) /\ Len(w) = SplitCount(s, Hole0) /\ \A k \in 1..SplitCount(s, Hole0) : w[k] = Emptied(q[k])
  BY PiecesAre
<1> HIDE DEF q, w
<1>4. Emptied(<<>>) = <<>>
  <2> DEFINE e == <<>>
  <2>1. e \in Seq(T) /\ e = <<>>
    OBVIOUS
  <2> HIDE DEF e
  <2>2. e = <<>> => Emptied(e) = <<>>
    BY <2>1, EmptiedSteps
  <2> QED BY <2>1, <2>2
<1>5. Len(w) = 1 /\ w[1] = <<>> /\ Len(w) # 0
  <2>1. 1 \in 1..1
    OBVIOUS
  <2> QED BY <1>2, <1>3, <1>4, <2>1
<1>6. Between(w, Hole1) = w[1]
  BY <1>1, <1>3, <1>5, BetweenType
<1> QED BY <1>5, <1>6 DEF Expanded, w

\* A hole {0} at the beginning becomes the first argument.
LEMMA ExpandedHole0 ==
    ASSUME NullIsNoText, NEW T, HoleChars \subseteq T, NEW s \in Seq(T), StartsWith(s, Hole0)
    PROVE  Expanded(s) = Hole1 \o Expanded(Drop(s, 3))
<1> DEFINE t == Drop(s, 3)
           u == Pieces(s)
           w == Pieces(t)
           m == SplitCount(t, Hole0)
<1>1. Hole0 \in Seq(T) /\ Hole0 # <<>> /\ Hole1 \in Seq(T) /\ Len(Hole0) = 3
  BY HolesAre
<1>2. t \in Seq(T)
  <2>1. 3 \in 0..Len(s)
    BY <1>1 DEF StartsWith
  <2> QED BY <2>1, DropIs
<1>3. t = Drop(s, Len(Hole0))
  BY <1>1
<1> HIDE DEF t
<1>4. /\ SplitCount(s, Hole0) = m + 1 /\ PartsOf(s, Hole0)[1] = <<>>
      /\ \A k \in 1..m : PartsOf(s, Hole0)[k + 1] = PartsOf(t, Hole0)[k]
  <2>1. StartsWith(s, Hole0)
    OBVIOUS
  <2>2. AfterDelimiter(s, Hole0, t)
    BY <1>1, <1>3, <2>1, PartsAtDelimiter, Zenon
  <2> QED BY <2>2 DEF AfterDelimiter, m
<1>5. /\ u \in Seq(Seq(T)) /\ Len(u) = SplitCount(s, Hole0)
      /\ \A k \in 1..SplitCount(s, Hole0) : u[k] = Emptied(PartsOf(s, Hole0)[k])
  BY PiecesAre
<1>6. /\ w \in Seq(Seq(T)) /\ Len(w) = m /\ m \in Nat \ {0} /\ Len(w) # 0
      /\ \A k \in 1..m : w[k] = Emptied(PartsOf(t, Hole0)[k])
  BY <1>2, PiecesAre
<1> HIDE DEF u, w, m
<1>7. u[1] = <<>>
  <2> DEFINE e == <<>>
  <2>1. e \in Seq(T) /\ e = <<>>
    OBVIOUS
  <2> HIDE DEF e
  <2>2. e = <<>> => Emptied(e) = <<>>
    BY <2>1, EmptiedSteps
  <2>3. 1 \in 1..(m + 1)
    BY <1>6
  <2> QED BY <1>4, <1>5, <2>1, <2>2, <2>3
<1>8. ASSUME NEW k \in 1..Len(w) PROVE u[k + 1] = w[k]
  <2>1. k \in 1..m /\ k + 1 \in 1..(m + 1)
    BY <1>6
  <2>2. u[k + 1] = Emptied(PartsOf(s, Hole0)[k + 1])
    BY <1>4, <1>5, <2>1
  <2> QED BY <1>4, <1>6, <2>1, <2>2
<1>9. Len(u) = Len(w) + 1
  BY <1>4, <1>5, <1>6
<1>10. Between(u, Hole1) = Hole1 \o Between(w, Hole1)
  BY <1>1, <1>5, <1>6, <1>7, <1>8, <1>9, BetweenCons
<1> QED BY <1>10 DEF Expanded, u, w, t

\* The first part of a text that does not begin with the delimiter: the same
\* first character, and a beginning of the text.
LEMMA FirstPart ==
    ASSUME NullIsNoText, NEW T, NEW s \in Seq(T), NEW d \in Seq(T), d # <<>>
    PROVE  LET u == PartsOf(s, d)[1]
           IN  u \in Seq(T) /\ Len(u) <= Len(s) /\ \A i \in 1..Len(u) : u[i] = s[i]
<1> DEFINE u == PartsOf(s, d)[1]
           e == PartEnd(s, d, 1)
           z == 0
<1>1. 1 \in 1..SplitCount(s, d) /\ 1 \in 1..(Len(s) + 1) /\ 1 - 1 = z /\ Len(s) \in Nat
  <2>1. SplitCount(s, d) \in Nat \ {0}
    BY PartsAre
  <2> QED BY <2>1
<1>2. u = PartFrom(s, d, 1)
  <2>1. u = PartFrom(s, d, PartStart(s, d, 1 - 1))
    BY <1>1, PartsAre
  <2> QED BY <1>1, <2>1, PartStartIs
<1>3. u = Cut(s, z, e) /\ CutPlaces(s, z, e)
  <2>1. CutPlaces(s, 1 - 1, e) /\ PartFrom(s, d, 1) = Cut(s, 1 - 1, e)
    BY <1>1, PartFromIs
  <2> QED BY <1>1, <1>2, <2>1
<1>4. z = 0
  OBVIOUS
<1> HIDE DEF u, e, z
<1>5. u \in Seq(T) /\ Len(u) = e - z /\ \A x \in 1..(e - z) : u[x] = s[z + x]
  BY <1>3, CutIs
<1>6. e \in Nat /\ e <= Len(s) /\ e - z = e /\ \A x \in 1..e : z + x = x
  BY <1>3, <1>4 DEF CutPlaces
<1> QED BY <1>5, <1>6 DEF u

\* Another character at the beginning stays.
LEMMA ExpandedOther ==
    ASSUME NullIsNoText, NEW T, HoleChars \subseteq T, NEW s \in Seq(T), s # <<>>,
           ~StartsWith(s, Hole0), ~StartsWith(s, Hole1)
    PROVE  Expanded(s) = <<s[1]>> \o Expanded(Drop(s, 1))
<1> DEFINE t == Drop(s, 1)
           u == Pieces(s)
           w == Pieces(t)
           m == SplitCount(t, Hole0)
           x == <<s[1]>>
           v == PartsOf(t, Hole0)[1]
           y == PartsOf(s, Hole0)[1]
<1>1. Hole0 \in Seq(T) /\ Hole0 # <<>> /\ Hole1 \in Seq(T) /\ "{" \in T /\ "1" \in T /\ "}" \in T
  BY HolesAre
<1>2. t \in Seq(T) /\ x \in Seq(T) /\ Len(x) = 1 /\ x[1] = s[1]
  <2>1. 1 \in 0..Len(s) /\ s[1] \in T
    OBVIOUS
  <2> QED BY <2>1, DropIs
<1>3. /\ SplitCount(s, Hole0) = m /\ y = x \o v
      /\ \A k \in 2..m : PartsOf(s, Hole0)[k] = PartsOf(t, Hole0)[k]
  <2>1. s # <<>> /\ ~StartsWith(s, Hole0) /\ t = Drop(s, 1)
    BY DEF t
  <2>2. AfterOther(s, Hole0, t)
    BY <1>1, <2>1, PartsAtOther, Zenon
  <2> QED BY <2>2 DEF AfterOther, m, y, x, v
<1>5. /\ u \in Seq(Seq(T)) /\ Len(u) = SplitCount(s, Hole0)
      /\ \A k \in 1..SplitCount(s, Hole0) : u[k] = Emptied(PartsOf(s, Hole0)[k])
  BY PiecesAre
<1> HIDE DEF t
<1>6. /\ w \in Seq(Seq(T)) /\ Len(w) = m /\ m \in Nat \ {0} /\ Len(w) # 0
      /\ \A k \in 1..m : PartsOf(t, Hole0)[k] \in Seq(T) /\ w[k] = Emptied(PartsOf(t, Hole0)[k])
  BY <1>2, PiecesAre
<1>4. y \in Seq(T) /\ Len(y) <= Len(s) /\ \A i \in 1..Len(y) : y[i] = s[i]
  BY <1>1, FirstPart
<1>7. 1 \in 1..m /\ v \in Seq(T)
  BY <1>6
<1> HIDE DEF u, w, m, x, v, y
<1>8. ~StartsWith(y, Hole1)
  <2>1. StartsWith(y, Hole1) => Len(y) >= 3 /\ y[1] = "{" /\ y[2] = "1" /\ y[3] = "}"
    <3>1. y \in Seq(T)
      BY <1>4
    <3>2. StartsWith(y, <<"{", "1", "}">>) => Len(y) >= 3 /\ y[1] = "{" /\ y[2] = "1" /\ y[3] = "}"
      BY <1>1, <3>1, StartsWithThree
    <3> QED BY <3>2 DEF Hole1
  <2>2. Len(s) >= 3 /\ s[1] = "{" /\ s[2] = "1" /\ s[3] = "}" => StartsWith(s, Hole1)
    BY <1>1, StartsWithThree DEF Hole1
  <2>3. ASSUME Len(y) >= 3 PROVE Len(s) >= 3 /\ s[1] = y[1] /\ s[2] = y[2] /\ s[3] = y[3]
    <3>1. Len(y) \in Nat /\ Len(s) \in Nat
      BY <1>4
    <3>2. 1 \in 1..Len(y) /\ 2 \in 1..Len(y) /\ 3 \in 1..Len(y) /\ Len(s) >= 3
      BY <1>4, <2>3, <3>1
    <3> QED BY <1>4, <3>2
  <2> QED BY <2>1, <2>2, <2>3
<1>9. Emptied(y) = x \o Emptied(v)
  <2>1. /\ SubSeq(x \o v, 1, Len(x)) = x /\ Drop(x \o v, Len(x)) = v /\ Len(x) <= Len(x \o v)
    BY <1>2, <1>7, ConcatDrop
  <2>2. Len(y) >= 1 /\ y # <<>> /\ Drop(y, 1) = v
    <3>1. Len(y) >= 1 /\ Drop(y, 1) = v
      BY <1>2, <1>3, <2>1
    <3> QED BY <3>1
  <2>3. <<y[1]>> = x
    <3>1. 1 \in 1..Len(y)
      BY <1>4, <2>2
    <3> QED BY <1>4, <3>1 DEF x
  <2>4. y # <<>> /\ ~StartsWith(y, Hole1) => Emptied(y) = <<y[1]>> \o Emptied(Drop(y, 1))
    BY <1>4, EmptiedSteps
  <2> QED BY <1>8, <2>2, <2>3, <2>4
<1>10. u[1] = x \o w[1]
  <2>1. u[1] = Emptied(y) /\ w[1] = Emptied(v)
    BY <1>3, <1>5, <1>6, <1>7 DEF y, v
  <2> QED BY <1>9, <2>1
<1>11. ASSUME NEW k \in 2..Len(w) PROVE u[k] = w[k]
  <2>1. k \in 1..m /\ k \in 2..m
    BY <1>6
  <2> QED BY <1>3, <1>5, <1>6, <2>1
<1>12. Len(u) = Len(w)
  BY <1>3, <1>5, <1>6
<1>13. Between(u, Hole1) = x \o Between(w, Hole1)
  <2>1. u \in Seq(Seq(T)) /\ w \in Seq(Seq(T)) /\ x \in Seq(T) /\ Len(w) # 0
    BY <1>2, <1>5, <1>6
  <2> QED BY <1>1, <1>10, <1>11, <1>12, <2>1, BetweenHead, ZenonT(60)
<1> QED BY <1>13 DEF Expanded, u, w, t, x

\* What is left of what is left.
LEMMA DropDrop ==
    ASSUME NEW T, NEW s \in Seq(T), NEW a \in Nat, NEW b \in Nat, a + b <= Len(s)
    PROVE  Drop(s, a) \in Seq(T) /\ Len(Drop(s, a)) = Len(s) - a /\ Drop(Drop(s, a), b) = Drop(s, a + b)
<1> DEFINE t == Drop(s, a)
           L == Len(s)
<1>1. L \in Nat /\ a \in 0..L /\ a + b \in 0..L
  OBVIOUS
<1>2. /\ t \in Seq(T) /\ Len(t) = L - a
      /\ \A i, j : CutPlaces(t, i, j) => Cut(t, i, j) = Cut(s, a + i, a + j)
  BY <1>1, DropPlaces
<1> HIDE DEF t, L
<1>3. CutPlaces(t, b, L - a) /\ b \in 0..Len(t) /\ a + (L - a) = L
  BY <1>1, <1>2 DEF CutPlaces, L
<1>4. Drop(t, b) = Cut(t, b, L - a)
  BY <1>2, <1>3, DropIsCut
<1>5. Drop(s, a + b) = Cut(s, a + b, L)
  BY <1>1, DropIsCut DEF L
<1>6. Cut(t, b, L - a) = Cut(s, a + b, a + (L - a))
  BY <1>2, <1>3
<1> QED BY <1>2, <1>3, <1>4, <1>5, <1>6 DEF t, L

InThrees(x, y, z, s) == <<x>> \o (<<y>> \o (<<z>> \o s)) = <<x, y, z>> \o s

\* Three characters before a text, one by one.
LEMMA ThreeAndRest ==
    ASSUME NEW T, NEW x \in T, NEW y \in T, NEW z \in T, NEW s \in Seq(T)
    PROVE  InThrees(x, y, z, s)
<1> DEFINE a == <<x>>
           b == <<y>>
           c == <<z>>
<1>1. a \in Seq(T) /\ b \in Seq(T) /\ c \in Seq(T) /\ (a \o b) \o c = <<x, y, z>>
  <2>1. a \in Seq(T) /\ b \in Seq(T) /\ c \in Seq(T)
    OBVIOUS
  <2>2. a \o b = <<x, y>>
    <3> DEFINE d == <<x, y>>
    <3>1. d \in Seq(T) /\ Len(d) = 2 /\ d[1] = x /\ d[2] = y /\ Len(a) = 1 /\ Len(b) = 1 /\ a[1] = x /\ b[1] = y
      OBVIOUS
    <3> HIDE DEF a, b, d
    <3>2. /\ a \o b \in Seq(T) /\ Len(a \o b) = Len(a) + Len(b)
          /\ \A i \in 1..Len(a) : (a \o b)[i] = a[i]
          /\ \A j \in 1..Len(b) : (a \o b)[Len(a) + j] = b[j]
      BY <2>1, ConcatIs
    <3>3. 1 \in 1..1 /\ 1 + 1 = 2 /\ \A i \in 1..2 : i = 1 \/ i = 2
      OBVIOUS
    <3>4. (a \o b)[1] = x /\ (a \o b)[2] = y /\ Len(a \o b) = 2
      BY <3>1, <3>2, <3>3
    <3>5. \A i \in 1..Len(d) : (a \o b)[i] = d[i]
      BY <3>1, <3>3, <3>4
    <3>6. a \o b = d
      BY <3>1, <3>2, <3>4, <3>5, SameElements
    <3> QED BY <3>6 DEF d
  <2>3. <<x, y>> \o c = <<x, y, z>>
    <3> DEFINE d == <<x, y, z>>
               e == <<x, y>>
    <3>1. /\ d \in Seq(T) /\ Len(d) = 3 /\ d[1] = x /\ d[2] = y /\ d[3] = z
          /\ e \in Seq(T) /\ Len(e) = 2 /\ Len(c) = 1 /\ e[1] = x /\ e[2] = y /\ c[1] = z
      OBVIOUS
    <3> HIDE DEF c, d, e
    <3>2. /\ e \o c \in Seq(T) /\ Len(e \o c) = Len(e) + Len(c)
          /\ \A i \in 1..Len(e) : (e \o c)[i] = e[i]
          /\ \A j \in 1..Len(c) : (e \o c)[Len(e) + j] = c[j]
      <4>1. e \in Seq(T) /\ c \in Seq(T)
        BY <2>1, <3>1
      <4> QED BY <4>1, ConcatIs
    <3>3. 1 \in 1..1 /\ 2 + 1 = 3 /\ 1 \in 1..2 /\ 2 \in 1..2 /\ \A i \in 1..3 : i = 1 \/ i = 2 \/ i = 3
      OBVIOUS
    <3>4. (e \o c)[1] = x /\ (e \o c)[2] = y /\ (e \o c)[3] = z /\ Len(e \o c) = 3
      BY <3>1, <3>2, <3>3
    <3>5. \A i \in 1..Len(d) : (e \o c)[i] = d[i]
      BY <3>1, <3>3, <3>4
    <3>6. e \o c = d
      BY <3>1, <3>2, <3>4, <3>5, SameElements
    <3> QED BY <3>6 DEF d, e
  <2> QED BY <2>1, <2>2, <2>3
<1>2. c \o s \in Seq(T) /\ a \o b \in Seq(T)
  BY <1>1
<1> HIDE DEF a, b, c
<1>3. Regroups(a, b, c \o s)
  BY <1>1, <1>2, ConcatRegroups, Zenon
<1>4. Regroups(a \o b, c, s)
  BY <1>1, <1>2, ConcatRegroups, Zenon
<1>5. a \o (b \o (c \o s)) = ((a \o b) \o c) \o s
  BY <1>3, <1>4 DEF Regroups
<1> QED BY <1>1, <1>5 DEF a, b, c, InThrees

\* A hole {1} at the beginning is left out: none of its characters is a hole
\* {0}, and leaving them in the first piece does not change the others.
LEMMA ExpandedHole1 ==
    ASSUME NullIsNoText, NEW T, HoleChars \subseteq T, NEW s \in Seq(T), StartsWith(s, Hole1)
    PROVE  Expanded(s) = Expanded(Drop(s, 3))
<1> DEFINE t1 == Drop(s, 1)
           t2 == Drop(s, 2)
           t3 == Drop(s, 3)
           y(t) == PartsOf(t, Hole0)[1]
           u == Pieces(s)
           w == Pieces(t3)
           m == SplitCount(t3, Hole0)
<1>1. /\ Hole0 \in Seq(T) /\ Hole0 # <<>> /\ Hole1 \in Seq(T) /\ Len(Hole1) = 3
      /\ "{" \in T /\ "0" \in T /\ "1" \in T /\ "}" \in T
  BY HolesAre
<1>2. Len(s) >= 3 /\ s[1] = "{" /\ s[2] = "1" /\ s[3] = "}" /\ Len(s) \in Nat
  <2>1. StartsWith(s, <<"{", "1", "}">>)
    BY DEF Hole1
  <2>2. Len(s) >= 3 /\ s[1] = "{" /\ s[2] = "1" /\ s[3] = "}"
    BY <1>1, <2>1, StartsWithThree
  <2>3. Len(s) \in Nat
    OBVIOUS
  <2> QED BY <2>2, <2>3
<1>20. Len(s) >= 3 /\ Len(s) \in Nat
  BY <1>2, Zenon
<1>3. /\ t1 \in Seq(T) /\ Len(t1) = Len(s) - 1 /\ t1[1] = s[2]
      /\ t2 \in Seq(T) /\ Len(t2) = Len(s) - 2 /\ t2[1] = s[3]
      /\ t3 \in Seq(T) /\ Len(t3) = Len(s) - 3
  <2>1. 1 \in 0..Len(s) /\ 2 \in 0..Len(s) /\ 3 \in 0..Len(s)
    BY <1>20
  <2>2. /\ t1 \in Seq(T) /\ Len(t1) = Len(s) - 1 /\ \A j \in 1..(Len(s) - 1) : t1[j] = s[1 + j]
        /\ t2 \in Seq(T) /\ Len(t2) = Len(s) - 2 /\ \A j \in 1..(Len(s) - 2) : t2[j] = s[2 + j]
        /\ t3 \in Seq(T) /\ Len(t3) = Len(s) - 3
    BY <2>1, DropIs
  <2> HIDE DEF t1, t2, t3
  <2>3. 1 \in 1..(Len(s) - 1) /\ 1 \in 1..(Len(s) - 2) /\ 1 + 1 = 2 /\ 2 + 1 = 3
    BY <1>20
  <2> QED BY <2>2, <2>3
<1>4. t2 = Drop(t1, 1) /\ t3 = Drop(t2, 1)
  <2> DEFINE a == 1
             b == 2
  <2>1. a \in Nat /\ b \in Nat /\ a + a = b /\ b + a = 3 /\ a + a <= Len(s) /\ b + a <= Len(s)
    BY <1>20
  <2> HIDE DEF a, b
  <2>2. Drop(Drop(s, a), a) = Drop(s, a + a) /\ Drop(Drop(s, b), a) = Drop(s, b + a)
    BY <2>1, DropDrop
  <2>3. Drop(Drop(s, a), a) = Drop(s, b) /\ Drop(Drop(s, b), a) = Drop(s, 3)
    BY <2>1, <2>2
  <2> QED BY <2>3 DEF a, b
<1> HIDE DEF t1, t2, t3
<1>5. /\ s # <<>> /\ t1 # <<>> /\ t2 # <<>>
      /\ ~StartsWith(s, Hole0) /\ ~StartsWith(t1, Hole0) /\ ~StartsWith(t2, Hole0)
  <2>1. s # <<>> /\ t1 # <<>> /\ t2 # <<>>
    <3>1. Len(s) # 0 /\ Len(t1) # 0 /\ Len(t2) # 0
      <4>1. Len(t1) = Len(s) - 1 /\ Len(t2) = Len(s) - 2
        BY <1>3, Zenon
      <4> QED BY <1>20, <4>1
    <3> QED BY <1>3, <3>1, ConcatEmpty
  <2>2. ASSUME NEW v \in Seq(T), StartsWith(v, Hole0) PROVE v[1] = "{" /\ v[2] = "0"
    <3>1. StartsWith(v, <<"{", "0", "}">>)
      BY <2>2 DEF Hole0
    <3> QED BY <1>1, <3>1, StartsWithThree
  <2>3. "0" # "1" /\ "1" # "{" /\ "}" # "{"
    OBVIOUS
  <2>4. ~StartsWith(s, Hole0)
    BY <1>2, <2>2, <2>3
  <2>5. ~StartsWith(t1, Hole0) /\ ~StartsWith(t2, Hole0)
    BY <1>2, <1>3, <2>2, <2>3
  <2> QED BY <2>1, <2>4, <2>5
<1>6. AfterOther(s, Hole0, t1) /\ AfterOther(t1, Hole0, t2) /\ AfterOther(t2, Hole0, t3)
  <2>1. t1 = Drop(s, 1)
    BY DEF t1
  <2>2. AfterOther(s, Hole0, t1)
    BY <1>1, <1>5, <2>1, PartsAtOther, Zenon
  <2>3. AfterOther(t1, Hole0, t2)
    BY <1>1, <1>3, <1>4, <1>5, PartsAtOther, Zenon
  <2>4. AfterOther(t2, Hole0, t3)
    BY <1>1, <1>3, <1>4, <1>5, PartsAtOther, Zenon
  <2> QED BY <2>2, <2>3, <2>4
<1>7. /\ SplitCount(s, Hole0) = m
      /\ y(s) = <<"{">> \o (<<"1">> \o (<<"}">> \o y(t3)))
      /\ \A k \in 2..m : PartsOf(s, Hole0)[k] = PartsOf(t3, Hole0)[k]
  <2>1. SplitCount(s, Hole0) = m /\ SplitCount(t1, Hole0) = m /\ SplitCount(t2, Hole0) = m
    BY <1>6 DEF AfterOther
  <2>2. y(s) = <<s[1]>> \o y(t1) /\ y(t1) = <<t1[1]>> \o y(t2) /\ y(t2) = <<t2[1]>> \o y(t3)
    BY <1>6 DEF AfterOther
  <2> HIDE DEF m, y
  <2>3. y(s) = <<"{">> \o (<<"1">> \o (<<"}">> \o y(t3)))
    BY <1>2, <1>3, <2>2
  <2>4. \A k \in 2..m : PartsOf(s, Hole0)[k] = PartsOf(t3, Hole0)[k]
    BY <1>6, <2>1 DEF AfterOther
  <2> QED BY <2>1, <2>3, <2>4
<1>8. /\ u \in Seq(Seq(T)) /\ Len(u) = SplitCount(s, Hole0)
      /\ \A k \in 1..SplitCount(s, Hole0) : PartsOf(s, Hole0)[k] \in Seq(T) /\ u[k] = Emptied(PartsOf(s, Hole0)[k])
  BY PiecesAre
<1>9. /\ w \in Seq(Seq(T)) /\ Len(w) = m /\ m \in Nat \ {0}
      /\ \A k \in 1..m : PartsOf(t3, Hole0)[k] \in Seq(T) /\ w[k] = Emptied(PartsOf(t3, Hole0)[k])
  BY <1>3, PiecesAre
<1> HIDE DEF u, w, m
<1>10. 1 \in 1..m /\ y(t3) \in Seq(T) /\ y(s) \in Seq(T) /\ u[1] = Emptied(y(s)) /\ w[1] = Emptied(y(t3))
  <2>1. 1 \in 1..m
    BY <1>9
  <2>2. y(t3) \in Seq(T) /\ w[1] = Emptied(y(t3))
    BY <1>9, <2>1
  <2>3. y(s) \in Seq(T) /\ u[1] = Emptied(y(s))
    <3>1. 1 \in 1..SplitCount(s, Hole0)
      BY <1>7, <2>1
    <3> QED BY <1>8, <3>1
  <2> QED BY <2>1, <2>2, <2>3
<1> DEFINE v == y(t3)
           x == y(s)
<1>11. x = Hole1 \o v
  <2>1. v \in Seq(T)
    BY <1>10
  <2>2. x = <<"{">> \o (<<"1">> \o (<<"}">> \o v))
    BY <1>7
  <2> HIDE DEF v, x
  <2>3. InThrees("{", "1", "}", v)
    BY <1>1, <2>1, ThreeAndRest, Zenon
  <2> QED BY <2>2, <2>3 DEF Hole1, InThrees
<1>12. Emptied(x) = Emptied(v)
  <2>1. v \in Seq(T) /\ x \in Seq(T)
    BY <1>10
  <2> HIDE DEF v, x
  <2>2. SubSeq(x, 1, 3) = Hole1 /\ Drop(x, 3) = v /\ 3 <= Len(x)
    <3>1. SubSeq(Hole1 \o v, 1, Len(Hole1)) = Hole1 /\ Drop(Hole1 \o v, Len(Hole1)) = v
          /\ Len(Hole1) <= Len(Hole1 \o v)
      BY <1>1, <2>1, ConcatDrop
    <3> QED BY <1>1, <1>11, <3>1
  <2>3. StartsWith(x, Hole1)
    <3>1. 1 + 3 - 1 = 3
      OBVIOUS
    <3> QED BY <1>1, <2>2, <3>1 DEF StartsWith, Match
  <2>4. StartsWith(x, Hole1) => Emptied(x) = Emptied(Drop(x, 3))
    BY <2>1, EmptiedSteps
  <2> QED BY <2>2, <2>3, <2>4
<1>13. ASSUME NEW k \in 1..Len(w) PROVE u[k] = w[k]
  <2>1. CASE k = 1
    BY <1>10, <1>12, <2>1
  <2>2. CASE k # 1
    <3>1. k \in 2..m /\ k \in 1..m
      BY <1>9, <2>2
    <3> HIDE DEF y
    <3> QED BY <1>7, <1>8, <1>9, <3>1
  <2> QED BY <2>1, <2>2
<1>14. u = w
  <2>1. Len(u) = Len(w)
    BY <1>7, <1>8, <1>9
  <2> QED BY <1>8, <1>9, <1>13, <2>1, SameElements
<1> QED BY <1>14 DEF Expanded, u, w, t3

\* The recursion of FormatSize.
SizeRun(f, p, a) ==
    f = [i \in 1..(Len(p) + 1) |->
            IF i > Len(p) THEN 0
            ELSE IF HoleAt(p, i) THEN Len(OrEmpty(a[p[i + 1]])) + f[i + 3]
            ELSE 1 + f[i + 1]]

\* Behind a character and behind a hole is a place of the pattern or its end.
LEMMA HolePlaces ==
    ASSUME NEW T, NEW p \in Seq(T), NEW i \in 1..(Len(p) + 1)
    PROVE  /\ ~(i > Len(p)) => i + 1 \in (i + 1)..(Len(p) + 1)
           /\ HoleAt(p, i) => i + 3 \in (i + 1)..(Len(p) + 1) /\ ~(i > Len(p))
<1>1. Len(p) \in Nat
  OBVIOUS
<1>2. ~(i > Len(p)) => i + 1 \in (i + 1)..(Len(p) + 1)
  BY <1>1
<1>3. i + 2 <= Len(p) => i + 3 \in (i + 1)..(Len(p) + 1) /\ ~(i > Len(p))
  BY <1>1
<1> QED BY <1>2, <1>3 DEF HoleAt

\* The recursion of StrFormat describes one text only.
LEMMA FormatRunsAgree ==
    ASSUME NEW T, NEW p \in Seq(T), NEW a, NEW f, NEW g,
           FormatRun(f, p, a), FormatRun(g, p, a)
    PROVE  f[1] = g[1]
<1> DEFINE n == Len(p) + 1
<1>1. n \in Nat /\ 1 \in 1..n
  OBVIOUS
<1>2. FollowsBack(f, g, n) => f[1] = g[1]
  BY <1>1, BackwardsAgree
<1>3. FollowsBack(f, g, n)
  <2>1. SUFFICES ASSUME NEW i \in 1..n, \A j \in (i + 1)..n : f[j] = g[j] PROVE f[i] = g[i]
    BY DEF FollowsBack
  <2>2. /\ f[i] = IF i > Len(p) THEN <<>>
                  ELSE IF HoleAt(p, i) THEN OrEmpty(a[p[i + 1]]) \o f[i + 3] ELSE <<p[i]>> \o f[i + 1]
        /\ g[i] = IF i > Len(p) THEN <<>>
                  ELSE IF HoleAt(p, i) THEN OrEmpty(a[p[i + 1]]) \o g[i + 3] ELSE <<p[i]>> \o g[i + 1]
    BY DEF FormatRun
  <2>3. /\ ~(i > Len(p)) => f[i + 1] = g[i + 1]
        /\ HoleAt(p, i) => f[i + 3] = g[i + 3]
    BY <2>1, HolePlaces
  <2> QED BY <2>2, <2>3
<1> QED BY <1>2, <1>3

\* The recursion of FormatSize describes one number only.
LEMMA SizeRunsAgree ==
    ASSUME NEW T, NEW p \in Seq(T), NEW a, NEW f, NEW g,
           SizeRun(f, p, a), SizeRun(g, p, a)
    PROVE  f[1] = g[1]
<1> DEFINE n == Len(p) + 1
<1>1. n \in Nat /\ 1 \in 1..n
  OBVIOUS
<1>2. FollowsBack(f, g, n) => f[1] = g[1]
  BY <1>1, BackwardsAgree
<1>3. FollowsBack(f, g, n)
  <2>1. SUFFICES ASSUME NEW i \in 1..n, \A j \in (i + 1)..n : f[j] = g[j] PROVE f[i] = g[i]
    BY DEF FollowsBack
  <2>2. /\ f[i] = IF i > Len(p) THEN 0
                  ELSE IF HoleAt(p, i) THEN Len(OrEmpty(a[p[i + 1]])) + f[i + 3] ELSE 1 + f[i + 1]
        /\ g[i] = IF i > Len(p) THEN 0
                  ELSE IF HoleAt(p, i) THEN Len(OrEmpty(a[p[i + 1]])) + g[i + 3] ELSE 1 + g[i + 1]
    BY DEF SizeRun
  <2>3. /\ ~(i > Len(p)) => f[i + 1] = g[i + 1]
        /\ HoleAt(p, i) => f[i + 3] = g[i + 3]
    BY <2>1, HolePlaces
  <2> QED BY <2>2, <2>3
<1> QED BY <1>2, <1>3

\* The holes of a pattern are {0} and {1}.
OnlyTwoHoles(p) == \A i \in 1..Len(p) : HoleAt(p, i) => p[i + 1] \in {"0", "1"}

\* The arguments of the two holes.
LEMMA ArgumentsAre ==
    ASSUME NullIsNoText
    PROVE  OrEmpty(FormatArgs["0"]) = Hole1 /\ OrEmpty(FormatArgs["1"]) = <<>> /\ FormatArgs["0"] = Hole1
<1>1. FormatArgs["0"] = Hole1 /\ FormatArgs["1"] = Null
  BY DEF FormatArgs, Digit, Hole1
<1>2. Hole1 # Null
  <2>1. Hole1 \in Seq({"{", "1", "}"})
    BY DEF Hole1
  <2> QED BY <2>1 DEF NullIsNoText
<1> QED BY <1>1, <1>2 DEF OrEmpty

\* An expansion is a text.
LEMMA ExpandedType ==
    ASSUME NullIsNoText, NEW T, HoleChars \subseteq T, NEW s \in Seq(T)
    PROVE  Expanded(s) \in Seq(T)
<1>1. Pieces(s) \in Seq(Seq(T)) /\ Len(Pieces(s)) # 0 /\ Hole1 \in Seq(T)
  BY PiecesAre, HolesAre
<1> QED BY <1>1, BetweenType DEF Expanded

\* What is left of a pattern begins with a hole exactly where the scan sees one.
LEMMA HoleStarts ==
    ASSUME NEW T, HoleChars \subseteq T, NEW p \in Seq(T), NEW i \in 1..Len(p)
    PROVE  /\ Drop(p, i - 1) \in Seq(T) /\ Drop(p, i - 1) # <<>> /\ Drop(p, i - 1)[1] = p[i]
           /\ Drop(Drop(p, i - 1), 1) = Drop(p, (i + 1) - 1)
           /\ HoleAt(p, i) => Drop(Drop(p, i - 1), 3) = Drop(p, (i + 3) - 1)
           /\ StartsWith(Drop(p, i - 1), Hole0) <=> HoleAt(p, i) /\ p[i + 1] = "0"
           /\ StartsWith(Drop(p, i - 1), Hole1) <=> HoleAt(p, i) /\ p[i + 1] = "1"
<1> DEFINE n == i - 1
           t == Drop(p, n)
           L == Len(p)
           one == 1
           three == 3
<1>1. L \in Nat /\ n \in 0..L /\ n \in Nat /\ i = n + 1 /\ n + 1 <= L
  OBVIOUS
<1> HIDE DEF n
<1>2. t \in Seq(T) /\ Len(t) = L - n /\ \A j \in 1..(L - n) : t[j] = p[n + j]
  BY <1>1, DropIs
<1> HIDE DEF t
<1>3. Len(t) # 0 /\ t[1] = p[i] /\ t # <<>>
  <2>1. 1 \in 1..(L - n) /\ L - n # 0
    BY <1>1
  <2>2. t[1] = p[i]
    BY <1>1, <1>2, <2>1
  <2>3. Len(t) # 0
    BY <1>2, <2>1
  <2> QED BY <1>2, <2>2, <2>3, ConcatEmpty
<1>4. Drop(t, 1) = Drop(p, (i + 1) - 1)
  <2>1. one \in Nat /\ n + one <= L /\ n + one = (i + 1) - 1
    BY <1>1
  <2> HIDE DEF one
  <2>2. Drop(Drop(p, n), one) = Drop(p, n + one)
    BY <1>1, <2>1, DropDrop
  <2> QED BY <2>1, <2>2 DEF t, one
<1>5. ASSUME n + 3 <= L PROVE Drop(t, 3) = Drop(p, (i + 3) - 1)
  <2>1. three \in Nat /\ n + three <= L /\ n + three = (i + 3) - 1
    BY <1>1, <1>5
  <2> HIDE DEF three
  <2>2. Drop(Drop(p, n), three) = Drop(p, n + three)
    BY <1>1, <2>1, DropDrop
  <2> QED BY <2>1, <2>2 DEF t, three
<1>6. HoleAt(p, i) => n + 3 <= L
  <2>1. HoleAt(p, i) => i + 2 <= Len(p)
    BY Zenon DEF HoleAt
  <2>2. i + 2 <= Len(p) => n + 3 <= L
    BY <1>1
  <2> QED BY <2>1, <2>2
<1>7. "{" \in T /\ "0" \in T /\ "1" \in T /\ "}" \in T
  BY HolesAre
<1>8. ASSUME NEW c \in T, c \in Digit
      PROVE  StartsWith(t, <<"{", c, "}">>) <=> HoleAt(p, i) /\ p[i + 1] = c
  <2>1. StartsWith(t, <<"{", c, "}">>) <=> Len(t) >= 3 /\ t[1] = "{" /\ t[2] = c /\ t[3] = "}"
    <3>1. t \in Seq(T)
      BY <1>2
    <3> HIDE DEF L
    <3> QED BY <1>7, <3>1, StartsWithThree
  <2>2. Len(t) >= 3 <=> i + 2 <= L
    BY <1>1, <1>2
  <2>3. ASSUME i + 2 <= L PROVE t[2] = p[i + 1] /\ t[3] = p[i + 2]
    <3>1. 2 \in 1..(L - n) /\ 3 \in 1..(L - n) /\ n + 2 = i + 1 /\ n + 3 = i + 2
      BY <1>1, <2>3
    <3> QED BY <1>2, <3>1
  <2>4. HoleAt(p, i) <=> i + 2 <= L /\ p[i] = "{" /\ p[i + 1] \in Digit /\ p[i + 2] = "}"
    BY DEF HoleAt
  <2> HIDE DEF L
  <2> QED BY <1>3, <1>8, <2>1, <2>2, <2>3, <2>4
<1>9. /\ StartsWith(t, Hole0) <=> HoleAt(p, i) /\ p[i + 1] = "0"
      /\ StartsWith(t, Hole1) <=> HoleAt(p, i) /\ p[i + 1] = "1"
  <2>1. "0" \in Digit /\ "1" \in Digit
    BY DEF Digit
  <2> QED BY <1>7, <1>8, <2>1 DEF Hole0, Hole1
<1> QED BY <1>2, <1>3, <1>4, <1>5, <1>6, <1>9 DEF t, n

\* The expansions of what is left of a pattern at each place, and their lengths.
Expansions(p) == [i \in 1..(Len(p) + 1) |-> Expanded(Drop(p, i - 1))]
ExpansionSizes(p) == [i \in 1..(Len(p) + 1) |-> Len(Expansions(p)[i])]

\* The expansions follow the recursion of StrFormat.
LEMMA ExpansionsAre ==
    ASSUME NullIsNoText, NEW T, HoleChars \subseteq T, NEW p \in Seq(T), OnlyTwoHoles(p),
           NEW i \in 1..(Len(p) + 1)
    PROVE  LET e == Expansions(p)
           IN  /\ e[i] \in Seq(T)
               /\ i > Len(p) => e[i] = <<>>
               /\ ~(i > Len(p)) /\ HoleAt(p, i) => e[i] = OrEmpty(FormatArgs[p[i + 1]]) \o e[i + 3]
               /\ ~(i > Len(p)) /\ ~HoleAt(p, i) => e[i] = <<p[i]>> \o e[i + 1]
<1> DEFINE e == Expansions(p)
           L == Len(p)
           t == Drop(p, i - 1)
<1>1. L \in Nat /\ i - 1 \in 0..L
  OBVIOUS
<1>2. \A j \in 1..(L + 1) : e[j] = Expanded(Drop(p, j - 1))
  BY DEF Expansions
<1>3. t \in Seq(T)
  BY <1>1, DropIs
<1> HIDE DEF e
<1>4. e[i] = Expanded(t)
  BY <1>2
<1>5. e[i] \in Seq(T)
  BY <1>3, <1>4, ExpandedType
<1>6. ASSUME i > L PROVE e[i] = <<>>
  <2>1. i - 1 = L
    BY <1>1, <1>6
  <2>2. Drop(p, L) = <<>>
    <3>1. SubSeq(p, L + 1, L) = <<>>
      BY <1>1
    <3> QED BY <3>1 DEF Drop
  <2>3. t = <<>>
    BY <2>1, <2>2
  <2> HIDE DEF t
  <2> QED BY <1>3, <1>4, <2>3, ExpandedEmpty
<1>7. ASSUME ~(i > L), HoleAt(p, i) PROVE e[i] = OrEmpty(FormatArgs[p[i + 1]]) \o e[i + 3]
  <2>1. i \in 1..L /\ i + 3 \in 1..(L + 1)
    <3>1. i \in 1..L
      BY <1>1, <1>7
    <3>2. i + 3 \in (i + 1)..(L + 1)
      BY <1>7, HolePlaces
    <3> QED BY <3>1, <3>2
  <2>2. e[i + 3] = Expanded(Drop(p, (i + 3) - 1))
    BY <1>2, <2>1
  <2>3. Drop(t, 3) = Drop(p, (i + 3) - 1)
    BY <1>7, <2>1, HoleStarts
  <2>4. e[i + 3] = Expanded(Drop(t, 3))
    BY <2>2, <2>3
  <2>5. p[i + 1] \in {"0", "1"}
    BY <1>7, <2>1 DEF OnlyTwoHoles
  <2>6. CASE p[i + 1] = "0"
    <3>1. StartsWith(t, Hole0)
      BY <1>7, <2>1, <2>6, HoleStarts
    <3>2. Expanded(t) = Hole1 \o Expanded(Drop(t, 3))
      <4> HIDE DEF t
      <4> QED BY <1>3, <3>1, ExpandedHole0
    <3>3. OrEmpty(FormatArgs[p[i + 1]]) = Hole1
      BY <2>6, ArgumentsAre
    <3> QED BY <1>4, <2>4, <3>2, <3>3
  <2>7. CASE p[i + 1] = "1"
    <3>1. StartsWith(t, Hole1)
      BY <1>7, <2>1, <2>7, HoleStarts
    <3>2. Expanded(t) = Expanded(Drop(t, 3))
      <4> HIDE DEF t
      <4> QED BY <1>3, <3>1, ExpandedHole1
    <3>3. OrEmpty(FormatArgs[p[i + 1]]) = <<>>
      BY <2>7, ArgumentsAre
    <3>4. e[i + 3] \in Seq(T)
      <4>1. (i + 3) - 1 \in 0..L
        BY <1>1, <2>1
      <4>2. Drop(p, (i + 3) - 1) \in Seq(T)
        BY <4>1, DropIs
      <4> QED BY <2>2, <4>2, ExpandedType
    <3>5. <<>> \o e[i + 3] = e[i + 3]
      BY <3>4
    <3> QED BY <1>4, <2>4, <3>2, <3>3, <3>5
  <2> QED BY <2>5, <2>6, <2>7
<1>8. ASSUME ~(i > L), ~HoleAt(p, i) PROVE e[i] = <<p[i]>> \o e[i + 1]
  <2>1. i \in 1..L /\ i + 1 \in 1..(L + 1)
    BY <1>1, <1>8
  <2>2. e[i + 1] = Expanded(Drop(p, (i + 1) - 1))
    BY <1>2, <2>1
  <2>3. t # <<>> /\ t[1] = p[i] /\ Drop(t, 1) = Drop(p, (i + 1) - 1)
        /\ ~StartsWith(t, Hole0) /\ ~StartsWith(t, Hole1)
    BY <1>8, <2>1, HoleStarts
  <2>4. Expanded(t) = <<t[1]>> \o Expanded(Drop(t, 1))
    <3> HIDE DEF t
    <3> QED BY <1>3, <2>3, ExpandedOther
  <2> QED BY <1>4, <2>2, <2>3, <2>4
<1> QED BY <1>5, <1>6, <1>7, <1>8 DEF e

\* They satisfy it, and their lengths that of FormatSize.
LEMMA ExpansionsRun ==
    ASSUME NullIsNoText, NEW T, HoleChars \subseteq T, NEW p \in Seq(T), OnlyTwoHoles(p)
    PROVE  FormatRun(Expansions(p), p, FormatArgs) /\ SizeRun(ExpansionSizes(p), p, FormatArgs)
<1> DEFINE e == Expansions(p)
           z == ExpansionSizes(p)
           L == Len(p)
<1>1. L \in Nat
  OBVIOUS
<1>2. ASSUME NEW i \in 1..(L + 1)
      PROVE  e[i] = IF i > L THEN <<>>
                    ELSE IF HoleAt(p, i) THEN OrEmpty(FormatArgs[p[i + 1]]) \o e[i + 3]
                    ELSE <<p[i]>> \o e[i + 1]
  BY ExpansionsAre
<1>3. FormatRun(e, p, FormatArgs)
  <2>1. e = [i \in 1..(L + 1) |-> e[i]]
    BY DEF Expansions
  <2> HIDE DEF e
  <2> QED BY <1>2, <2>1 DEF FormatRun
<1>4. ASSUME NEW i \in 1..(L + 1)
      PROVE  z[i] = IF i > L THEN 0
                    ELSE IF HoleAt(p, i) THEN Len(OrEmpty(FormatArgs[p[i + 1]])) + z[i + 3]
                    ELSE 1 + z[i + 1]
  <2>1. \A j \in 1..(L + 1) : z[j] = Len(e[j])
    BY DEF ExpansionSizes
  <2> HIDE DEF e, z
  <2>2. CASE i > L
    <3>1. e[i] = <<>>
      BY <1>2, <2>2
    <3>2. Len(e[i]) = 0
      BY <3>1
    <3> QED BY <2>1, <2>2, <3>2
  <2>3. CASE ~(i > L) /\ HoleAt(p, i)
    <3> DEFINE x == OrEmpty(FormatArgs[p[i + 1]])
    <3>1. i \in 1..L /\ i + 3 \in 1..(L + 1)
      <4>1. i \in 1..L
        BY <1>1, <2>3
      <4>2. i + 3 \in (i + 1)..(L + 1)
        BY <2>3, HolePlaces
      <4> QED BY <4>1, <4>2
    <3>2. e[i + 3] \in Seq(T)
      BY <3>1, ExpansionsAre DEF e
    <3>3. x \in Seq(T)
      <4>1. p[i + 1] \in {"0", "1"}
        BY <2>3, <3>1 DEF OnlyTwoHoles
      <4>2. Hole1 \in Seq(T) /\ <<>> \in Seq(T)
        BY HolesAre
      <4> QED BY <4>1, <4>2, ArgumentsAre
    <3>4. e[i] = x \o e[i + 3]
      BY <1>2, <2>3
    <3> HIDE DEF x
    <3>5. Len(e[i]) = Len(x) + Len(e[i + 3])
      BY <3>2, <3>3, <3>4
    <3>6. z[i] = Len(e[i]) /\ z[i + 3] = Len(e[i + 3])
      BY <2>1, <3>1
    <3> QED BY <2>3, <3>5, <3>6 DEF x
  <2>4. CASE ~(i > L) /\ ~HoleAt(p, i)
    <3>1. i \in 1..L /\ i + 1 \in 1..(L + 1)
      BY <1>1, <2>4
    <3>2. e[i + 1] \in Seq(T)
      BY <3>1, ExpansionsAre DEF e
    <3>3. <<p[i]>> \in Seq(T) /\ Len(<<p[i]>>) = 1
      <4>1. p[i] \in T /\ \A c \in T : <<c>> \in Seq(T) /\ Len(<<c>>) = 1
        BY <3>1
      <4> QED BY <4>1
    <3>4. e[i] = <<p[i]>> \o e[i + 1]
      BY <1>2, <2>4
    <3>5. Len(e[i]) = Len(<<p[i]>>) + Len(e[i + 1])
      BY <3>2, <3>3, <3>4
    <3>6. z[i] = Len(e[i]) /\ z[i + 1] = Len(e[i + 1])
      BY <2>1, <3>1
    <3> QED BY <2>4, <3>3, <3>5, <3>6
  <2> QED BY <2>2, <2>3, <2>4
<1>5. SizeRun(z, p, FormatArgs)
  <2>1. z = [i \in 1..(L + 1) |-> z[i]]
    BY DEF ExpansionSizes
  <2> HIDE DEF z
  <2> QED BY <1>4, <2>1 DEF SizeRun
<1> QED BY <1>3, <1>5

\* A format writes as much as its first pass reserved and expands each hole once.
THEOREM FormatsExpand ==
    ASSUME NullIsNoText, NEW T, NEW p \in Seq(T), OnlyTwoHoles(p)
    PROVE  FormatExpands(p)
<1> DEFINE U == T \cup HoleChars
           e == Expansions(p)
           z == ExpansionSizes(p)
           g == CHOOSE h : FormatRun(h, p, FormatArgs)
           k == CHOOSE h : SizeRun(h, p, FormatArgs)
<1>1. p \in Seq(U) /\ HoleChars \subseteq U /\ p # Null /\ Len(p) \in Nat /\ 1 \in 1..(Len(p) + 1)
  <2>1. p # Null
    BY DEF NullIsNoText
  <2> QED BY <2>1
<1> HIDE DEF U
<1>2. FormatRun(e, p, FormatArgs) /\ SizeRun(z, p, FormatArgs)
  BY <1>1, ExpansionsRun
<1>3. FormatRun(g, p, FormatArgs) /\ SizeRun(k, p, FormatArgs)
  <2> HIDE DEF e, z
  <2> QED BY <1>2
<1>4. StrFormat(p, FormatArgs) = g[1]
  BY <1>1 DEF StrFormat, FormatRun
<1>5. FormatSize(p, FormatArgs) = k[1]
  BY DEF FormatSize, SizeRun
<1> HIDE DEF g, k
<1>6. g[1] = e[1] /\ k[1] = z[1]
  <2> HIDE DEF e, z
  <2>1. g[1] = e[1]
    BY <1>1, <1>2, <1>3, FormatRunsAgree
  <2>2. SizeRun(k, p, FormatArgs) /\ SizeRun(z, p, FormatArgs) /\ p \in Seq(U)
    BY <1>1, <1>2, <1>3
  <2>3. k[1] = z[1]
    BY <2>2, SizeRunsAgree
  <2> QED BY <2>1, <2>3
<1>7. e[1] = Expanded(p) /\ z[1] = Len(e[1])
  <2>1. Drop(p, 1 - 1) = p
    <3>1. SubSeq(p, 1, Len(p)) = p
      BY WholeSlice
    <3>2. 1 - 1 = 0 /\ 0 + 1 = 1
      OBVIOUS
    <3> QED BY <3>1, <3>2 DEF Drop
  <2>2. e[1] = Expanded(Drop(p, 1 - 1))
    BY <1>1 DEF Expansions
  <2>3. z[1] = Len(e[1])
    BY <1>1 DEF ExpansionSizes
  <2> QED BY <2>1, <2>2, <2>3
<1> HIDE DEF e, z
<1> DEFINE w == Expanded(p)
           v == FormatArgs["0"]
           f == StrFormat(p, FormatArgs)
<1>8. w = Between(Pieces(p), v)
  <2>1. v = Hole1
    BY ArgumentsAre
  <2> QED BY <2>1 DEF Expanded
<1>9. f = w /\ Len(f) = FormatSize(p, FormatArgs)
  BY <1>4, <1>5, <1>6, <1>7
<1>10. f = Between(Pieces(p), v)
  <2> HIDE DEF w, f, v
  <2> QED BY <1>8, <1>9
<1> HIDE DEF w
<1> QED BY <1>9, <1>10, Zenon DEF FormatExpands, Pieces, Emptied, Replaced, Hole0, Hole1

------------------------------------------------------------------------------
(* Paths: their names, the last one, and the extension.                    *)

\* A text of two texts with the delimiter between them has the parts of both.
PartsSplit(a, b, d) == Behind(PartsOf(a, d), PartsOf(b, d), PartsOf(a \o (d \o b), d))

\* One character.
LEMMA StartsWithOne ==
    ASSUME NEW T, NEW s \in Seq(T), NEW c \in T
    PROVE  StartsWith(s, <<c>>) <=> s # <<>> /\ s[1] = c
<1> DEFINE d == <<c>>
           u == SubSeq(s, 1, 1)
<1>1. d \in Seq(T) /\ Len(d) = 1 /\ d[1] = c /\ Len(s) \in Nat /\ (s # <<>> <=> Len(s) >= 1)
  OBVIOUS
<1> HIDE DEF d
<1>2. 1 + Len(d) - 1 = 1
  BY <1>1
<1>3. StartsWith(s, d) <=> Len(s) >= 1 /\ u = d
  BY <1>1, <1>2 DEF StartsWith, Match
<1>4. ASSUME Len(s) >= 1 PROVE u = d <=> s[1] = c
  <2>1. 1 \in 0..Len(s) /\ 1 \in 1..1
    BY <1>1, <1>4
  <2>2. u \in Seq(T) /\ Len(u) = 1 /\ u[1] = s[1]
    BY <2>1, SubSeqPrefix
  <2> HIDE DEF u
  <2>3. ASSUME u[1] = d[1] PROVE u = d
    <3>1. \A i \in 1..Len(u) : u[i] = d[i]
      BY <1>1, <2>2, <2>3
    <3> QED BY <1>1, <2>2, <3>1, SameElements
  <2> QED BY <1>1, <2>2, <2>3
<1> QED BY <1>1, <1>3, <1>4 DEF d

OneSlash == <<"/">>

\* Lists that follow one another still do with an element more before them, and
\* with their first element changed alike.
LEMMA BehindCons ==
    ASSUME NEW q, NEW u, NEW w, NEW q1, NEW w1, Behind(q, u, w),
           Len(q) \in Nat, Len(u) \in Nat, Len(w) \in Nat,
           Len(q1) = Len(q) + 1, Len(w1) = Len(w) + 1, q1[1] = w1[1],
           \A k \in 1..Len(q) : q1[k + 1] = q[k], \A k \in 1..Len(w) : w1[k + 1] = w[k]
    PROVE  Behind(q1, u, w1)
<1> DEFINE n == Len(q)
           m == Len(u)
<1>1. /\ Len(w) = n + m /\ (\A k \in 1..n : w[k] = q[k]) /\ (\A k \in 1..m : w[n + k] = u[k])
      /\ n \in Nat /\ m \in Nat /\ Len(q1) = n + 1 /\ Len(w1) = (n + m) + 1
      /\ (\A k \in 1..n : q1[k + 1] = q[k]) /\ (\A k \in 1..(n + m) : w1[k + 1] = w[k])
  BY DEF Behind
<1> HIDE DEF n, m
<1>2. ASSUME NEW k \in 1..(n + 1) PROVE w1[k] = q1[k]
  <2>1. CASE k = 1
    BY <2>1
  <2>2. CASE k # 1
    <3>1. k - 1 \in 1..n /\ k - 1 \in 1..(n + m) /\ (k - 1) + 1 = k
      BY <1>1, <2>2
    <3>2. q1[(k - 1) + 1] = q[k - 1] /\ w1[(k - 1) + 1] = w[k - 1] /\ w[k - 1] = q[k - 1]
      BY <1>1, <3>1
    <3> QED BY <3>1, <3>2
  <2> QED BY <2>1, <2>2
<1>3. ASSUME NEW k \in 1..m PROVE w1[(n + 1) + k] = u[k]
  <2>1. n + k \in 1..(n + m) /\ (n + k) + 1 = (n + 1) + k
    BY <1>1
  <2>2. w1[(n + k) + 1] = w[n + k] /\ w[n + k] = u[k]
    BY <1>1, <2>1
  <2> QED BY <2>1, <2>2
<1>4. (n + m) + 1 = (n + 1) + m
  BY <1>1
<1> QED BY <1>1, <1>2, <1>3, <1>4 DEF Behind, m

\* The first elements of both with the same text before them.
LEMMA BehindHead ==
    ASSUME NEW q, NEW u, NEW w, NEW q1, NEW w1, Behind(q, u, w),
           Len(q) \in Nat, Len(u) \in Nat, Len(w) \in Nat, Len(q) # 0, NEW x,
           Len(q1) = Len(q), Len(w1) = Len(w), q1[1] = x \o q[1], w1[1] = x \o w[1],
           \A k \in 2..Len(q) : q1[k] = q[k], \A k \in 2..Len(w) : w1[k] = w[k]
    PROVE  Behind(q1, u, w1)
<1> DEFINE n == Len(q)
           m == Len(u)
<1>1. /\ Len(w) = n + m /\ (\A k \in 1..n : w[k] = q[k]) /\ (\A k \in 1..m : w[n + k] = u[k])
      /\ n \in Nat /\ n # 0 /\ m \in Nat /\ Len(q1) = n /\ Len(w1) = n + m
      /\ (\A k \in 2..n : q1[k] = q[k]) /\ (\A k \in 2..(n + m) : w1[k] = w[k])
  BY DEF Behind
<1> HIDE DEF n, m
<1>2. q1[1] = w1[1]
  <2>1. 1 \in 1..n
    BY <1>1
  <2>2. w[1] = q[1]
    BY <1>1, <2>1
  <2> QED BY <2>2
<1>3. ASSUME NEW k \in 1..n PROVE w1[k] = q1[k]
  <2>1. CASE k = 1
    BY <1>2, <2>1
  <2>2. CASE k # 1
    <3>1. k \in 2..n /\ k \in 2..(n + m)
      BY <1>1, <2>2
    <3> QED BY <1>1, <3>1
  <2> QED BY <2>1, <2>2
<1>4. ASSUME NEW k \in 1..m PROVE w1[n + k] = u[k]
  <2>1. n + k \in 2..(n + m)
    BY <1>1
  <2> QED BY <1>1, <2>1
<1> QED BY <1>1, <1>3, <1>4 DEF Behind, m

\* A slash is a text of one character.
LEMMA SlashIs ==
    ASSUME NEW T, "/" \in T
    PROVE  OneSlash \in Seq(T) /\ OneSlash # <<>> /\ Len(OneSlash) = 1 /\ OneSlash[1] = "/"
<1>1. \A c \in T : <<c>> \in Seq(T)
  OBVIOUS
<1> QED BY <1>1 DEF OneSlash

\* The parts of two texts with a slash between them.
LEMMA PartsBehind ==
    ASSUME NullIsNoText, NEW T, "/" \in T, NEW a \in Seq(T), NEW b \in Seq(T)
    PROVE  PartsSplit(a, b, OneSlash)
<1> DEFINE P(s) == PartsOf(s, OneSlash)
           U == {n \in Nat : \A s \in Seq(T) : Len(s) = n => PartsSplit(s, b, OneSlash)}
           one == 1
<1>1. OneSlash \in Seq(T) /\ OneSlash # <<>> /\ Len(OneSlash) = 1 /\ OneSlash[1] = "/"
  BY SlashIs
<1>2. ASSUME NEW s \in Seq(T)
      PROVE  /\ P(s) \in Seq(Seq(T)) /\ Len(P(s)) = SplitCount(s, OneSlash)
             /\ SplitCount(s, OneSlash) \in Nat /\ SplitCount(s, OneSlash) # 0
  BY <1>1, PartsAre
<1>3. ASSUME NEW s \in Seq(T) PROVE s \o (OneSlash \o b) \in Seq(T) /\ OneSlash \o b \in Seq(T)
  BY <1>1
<1>4. 0 \in U
  <2>1. SUFFICES ASSUME NEW s \in Seq(T), Len(s) = 0 PROVE PartsSplit(s, b, OneSlash)
    OBVIOUS
  <2> DEFINE v == OneSlash \o b
             c == s \o v
  <2>2. c = v
    <3>1. v \in Seq(T)
      BY <1>1
    <3>2. s = <<>>
      BY <2>1
    <3> HIDE DEF v
    <3>3. <<>> \o v = v
      BY <3>1, ConcatEmpty
    <3> QED BY <3>2, <3>3
  <2>3. v \in Seq(T) /\ Drop(v, Len(OneSlash)) = b
    <3>1. OneSlash \in Seq(T)
      BY <1>1
    <3>2. Drop(OneSlash \o b, Len(OneSlash)) = b
      BY <3>1, ConcatDrop
    <3> QED BY <1>3, <3>2
  <2>4. Len(v) = 1 + Len(b) /\ v[1] = "/"
    <3>1. \A i \in 1..1 : v[i] = OneSlash[i]
      BY <1>1, ConcatIs
    <3>2. Len(v) = 1 + Len(b)
      BY <1>1, ConcatIs
    <3> QED BY <1>1, <3>1, <3>2
  <2> HIDE DEF v
  <2>5. v # <<>>
    BY <2>3, <2>4
  <2>6. StartsWith(v, OneSlash)
    BY <2>3, <2>4, <2>5, StartsWithOne DEF OneSlash
  <2>7. AfterDelimiter(v, OneSlash, b)
    BY <1>1, <2>3, <2>6, PartsAtDelimiter
  <2>8. SplitCount(s, OneSlash) = 1 /\ P(s)[1] = <<>>
    <3>1. s = <<>>
      BY <2>1
    <3> QED BY <1>1, <3>1, PartsOfEmpty
  <2> DEFINE m == SplitCount(b, OneSlash)
             q == P(s)
             u == P(b)
             w == P(v)
  <2>9. /\ Len(q) = 1 /\ Len(u) = m /\ Len(w) = m + 1 /\ m \in Nat
        /\ q[1] = <<>> /\ w[1] = <<>> /\ \A k \in 1..m : w[k + 1] = u[k]
    BY <1>2, <2>3, <2>7, <2>8 DEF AfterDelimiter
  <2> HIDE DEF m, q, u, w
  <2>10. /\ m + 1 = 1 + m
         /\ \A k \in 1..1 : w[k] = q[k]
         /\ \A k \in 1..m : w[1 + k] = u[k]
    <3>1. \A k \in 1..m : k + 1 = 1 + k
      BY <2>9
    <3>2. \A k \in 1..1 : k = 1
      OBVIOUS
    <3> QED BY <2>9, <3>1, <3>2
  <2>11. Behind(q, u, w)
    BY <2>9, <2>10 DEF Behind
  <2> QED BY <2>2, <2>11 DEF PartsSplit, q, u, w, v
<1>5. ASSUME NEW n \in Nat, n \in U PROVE n + 1 \in U
  <2>1. SUFFICES ASSUME NEW s \in Seq(T), Len(s) = n + 1 PROVE PartsSplit(s, b, OneSlash)
    OBVIOUS
  <2> DEFINE t == Drop(s, 1)
             x == <<s[1]>>
             v == OneSlash \o b
             c == s \o v
             ct == t \o v
  <2>2. 1 \in 1..Len(s) /\ 1 \in 0..Len(s) /\ Len(s) # 0 /\ Len(s) - 1 = n /\ s[1] \in T /\ 1 - 1 = 0 /\ 0 + 1 = 1
    BY <2>1
  <2>3. s = x \o t
    <3>1. Drop(s, 1 - 1) = s
      BY <2>2, WholeSlice DEF Drop
    <3> QED BY <2>2, <3>1, SplitFirst
  <2>4. t \in Seq(T) /\ Len(t) = n
    BY <2>2, DropIs
  <2>5. x \in Seq(T) /\ Len(x) = 1 /\ x[1] = s[1]
    <3>1. \A y \in T : <<y>> \in Seq(T)
      OBVIOUS
    <3> QED BY <2>2, <3>1
  <2>6. v \in Seq(T)
    BY <1>3
  <2> HIDE DEF v, t
  <2>7. c \in Seq(T) /\ ct \in Seq(T)
    BY <2>4, <2>6
  <2>8. c = x \o ct
    <3> HIDE DEF x
    <3>1. Regroups(x, t, v)
      BY <2>4, <2>5, <2>6, ConcatRegroups
    <3> QED BY <2>3, <3>1, Zenon DEF Regroups
  <2> HIDE DEF c, ct
  <2>9. Drop(c, 1) = ct /\ Len(c) # 0 /\ c[1] = s[1]
    <3> HIDE DEF x
    <3>1. Drop(x \o ct, Len(x)) = ct
      BY <2>5, <2>7, ConcatDrop
    <3>2. x \in Seq(T) /\ ct \in Seq(T)
      BY <2>5, <2>7
    <3>6. \A i \in 1..Len(x) : (x \o ct)[i] = x[i]
      BY <3>2, ConcatIs
    <3>7. Len(x \o ct) = Len(x) + Len(ct)
      BY <3>2, ConcatIs
    <3>3. Len(ct) \in Nat /\ 1 \in 1..1
      BY <2>7
    <3>4. Len(c) = 1 + Len(ct) /\ c[1] = s[1]
      BY <2>5, <2>8, <3>3, <3>6, <3>7
    <3>5. Len(c) # 0
      BY <3>3, <3>4
    <3> QED BY <2>5, <2>8, <3>1, <3>4, <3>5
  <2>10. PartsSplit(t, b, OneSlash)
    BY <1>5, <2>4
  <2> DEFINE q == P(t)
             u == P(b)
             w == P(ct)
             q1 == P(s)
             w1 == P(c)
  <2>11. Behind(q, u, w)
    BY <2>10 DEF PartsSplit, v, ct
  <2>12. /\ Len(q) \in Nat /\ Len(u) \in Nat /\ Len(w) \in Nat /\ Len(q) # 0
         /\ Len(q) = SplitCount(t, OneSlash) /\ Len(w) = SplitCount(ct, OneSlash)
         /\ Len(q1) = SplitCount(s, OneSlash) /\ Len(w1) = SplitCount(c, OneSlash)
    BY <1>2, <2>4, <2>7
  <2>13. s # <<>> /\ c # <<>>
    BY <2>2, <2>9
  <2>14. /\ StartsWith(s, OneSlash) <=> s[1] = "/"
         /\ StartsWith(c, OneSlash) <=> s[1] = "/"
    BY <2>7, <2>9, <2>13, StartsWithOne DEF OneSlash
  <2>15. Behind(q1, u, w1)
    <3>1. CASE s[1] = "/"
      <4>1. t = Drop(s, Len(OneSlash)) /\ ct = Drop(c, Len(OneSlash))
        BY <1>1, <2>9 DEF t
      <4>2. AfterDelimiter(s, OneSlash, t)
        BY <1>1, <2>14, <3>1, <4>1, PartsAtDelimiter
      <4>3. AfterDelimiter(c, OneSlash, ct)
        BY <1>1, <2>7, <2>14, <3>1, <4>1, PartsAtDelimiter
      <4>4. /\ Len(q1) = Len(q) + 1 /\ Len(w1) = Len(w) + 1 /\ q1[1] = w1[1]
            /\ (\A k \in 1..Len(q) : q1[k + 1] = q[k]) /\ (\A k \in 1..Len(w) : w1[k + 1] = w[k])
        BY <2>12, <4>2, <4>3 DEF AfterDelimiter
      <4> HIDE DEF q, u, w, q1, w1
      <4> QED BY <2>11, <2>12, <4>4, BehindCons
    <3>2. CASE s[1] # "/"
      <4>1. t = Drop(s, 1) /\ ct = Drop(c, 1)
        BY <2>9 DEF t
      <4>2. AfterOther(s, OneSlash, t)
        BY <1>1, <2>13, <2>14, <3>2, <4>1, PartsAtOther
      <4>3. AfterOther(c, OneSlash, ct)
        BY <1>1, <2>7, <2>13, <2>14, <3>2, <4>1, PartsAtOther
      <4>4. /\ Len(q1) = Len(q) /\ Len(w1) = Len(w)
            /\ (\A k \in 2..Len(q) : q1[k] = q[k]) /\ (\A k \in 2..Len(w) : w1[k] = w[k])
        BY <2>12, <4>2, <4>3 DEF AfterOther
      <4>5. q1[1] = x \o q[1] /\ w1[1] = x \o w[1]
        BY <2>9, <4>2, <4>3 DEF AfterOther
      <4> HIDE DEF q, u, w, q1, w1, x
      <4> QED BY <2>11, <2>12, <4>4, <4>5, BehindHead
    <3> QED BY <3>1, <3>2
  <2> QED BY <2>15 DEF PartsSplit, v, c
<1> HIDE DEF U
<1>6. Nat \subseteq U
  BY <1>4, <1>5, SetInduction
<1>7. Len(a) \in U
  BY <1>6
<1> QED BY <1>7 DEF U

\* The names in a path: the parts that are not empty, each as a list of one.
AsName(c) == IF c = <<>> THEN <<>> ELSE <<c>>
NamedParts(p) == [k \in 1..Len(PartsOf(p, OneSlash)) |-> AsName(PartsOf(p, OneSlash)[k])]

\* A list of at most one text.
LEMMA NamedType ==
    ASSUME NEW T, NEW c \in Seq(T)
    PROVE  AsName(c) \in Seq(Seq(T))
<1>1. \A s \in Seq(T) : <<s>> \in Seq(Seq(T))
  <2> DEFINE S == Seq(T)
  <2>1. \A s \in S : <<s>> \in Seq(S)
    <3> HIDE DEF S
    <3> QED OBVIOUS
  <2> QED BY <2>1
<1>2. <<>> \in Seq(Seq(T))
  OBVIOUS
<1> QED BY <1>1, <1>2 DEF AsName

\* Components flattens the named parts.
LEMMA ComponentsAre ==
    ASSUME NullIsNoText, NEW T, "/" \in T, NEW p \in Seq(T)
    PROVE  /\ NamedParts(p) \in Seq(Seq(Seq(T))) /\ Len(NamedParts(p)) # 0
           /\ Len(NamedParts(p)) = Len(PartsOf(p, OneSlash)) /\ Len(PartsOf(p, OneSlash)) \in Nat
           /\ \A k \in 1..Len(PartsOf(p, OneSlash)) : NamedParts(p)[k] = AsName(PartsOf(p, OneSlash)[k])
           /\ Components(p) = FlattenSeq(NamedParts(p)) /\ Components(p) \in Seq(Seq(T))
<1> DEFINE q == PartsOf(p, OneSlash)
           n == Len(q)
           w == NamedParts(p)
           S == Seq(T)
<1>1. OneSlash \in Seq(T) /\ OneSlash # <<>>
  BY SlashIs
<1>2. q \in Seq(Seq(T)) /\ n = SplitCount(p, OneSlash) /\ SplitCount(p, OneSlash) \in Nat \ {0}
  BY <1>1, PartsAre
<1>3. Components(p) = FlattenSeq(w)
  BY DEF Components, NamedParts, AsName, OneSlash
<1>4. w = [k \in 1..n |-> AsName(q[k])]
  BY DEF NamedParts
<1> HIDE DEF q, n, w
<1>5. n \in Nat /\ n # 0 /\ n = Len(q)
  BY <1>2 DEF n
<1>6. \A k \in 1..n : AsName(q[k]) \in Seq(Seq(T))
  <2>1. ASSUME NEW k \in 1..n PROVE q[k] \in Seq(T)
    BY <1>2, <1>5
  <2> QED BY <2>1, NamedType
<1>7. w \in Seq(Seq(S)) /\ Len(w) = n /\ \A k \in 1..n : w[k] = AsName(q[k])
  <2> HIDE DEF S
  <2>1. \A k \in 1..n : AsName(q[k]) \in Seq(S)
    BY <1>6 DEF S
  <2> QED BY <1>4, <1>5, <2>1
<1>8. FlattenSeq(w) \in Seq(S)
  <2> HIDE DEF S
  <2> QED BY <1>5, <1>7, FlattenPlaces
<1> QED BY <1>3, <1>5, <1>7, <1>8 DEF q, n, w

\* A slash separates the names before it from those after it.
LEMMA ComponentsBehind ==
    ASSUME NullIsNoText, NEW T, "/" \in T, NEW a \in Seq(T), NEW b \in Seq(T)
    PROVE  Components(a \o (OneSlash \o b)) = Components(a) \o Components(b)
<1> DEFINE c == a \o (OneSlash \o b)
           q == PartsOf(a, OneSlash)
           u == PartsOf(b, OneSlash)
           w == PartsOf(c, OneSlash)
           x == NamedParts(a)
           y == NamedParts(b)
           z == NamedParts(c)
           S == Seq(T)
<1>1. c \in Seq(T)
  BY SlashIs
<1>2. Behind(q, u, w)
  BY PartsBehind DEF PartsSplit
<1> HIDE DEF c
<1>3. /\ x \in Seq(Seq(S)) /\ Len(x) # 0 /\ Len(x) = Len(q) /\ Len(q) \in Nat /\ Components(a) = FlattenSeq(x)
      /\ \A k \in 1..Len(q) : x[k] = AsName(q[k])
  BY ComponentsAre
<1>4. /\ y \in Seq(Seq(S)) /\ Len(y) # 0 /\ Len(y) = Len(u) /\ Len(u) \in Nat /\ Components(b) = FlattenSeq(y)
      /\ \A k \in 1..Len(u) : y[k] = AsName(u[k])
  BY ComponentsAre
<1>5. /\ z \in Seq(Seq(S)) /\ Len(z) = Len(w) /\ Len(w) \in Nat /\ Components(c) = FlattenSeq(z)
      /\ \A k \in 1..Len(w) : z[k] = AsName(w[k])
  BY <1>1, ComponentsAre
<1> HIDE DEF q, u, w, x, y, z, S
<1>6. /\ Len(w) = Len(q) + Len(u) /\ \A k \in 1..Len(q) : w[k] = q[k]
      /\ \A k \in 1..Len(u) : w[Len(q) + k] = u[k]
  BY <1>2 DEF Behind
<1>7. ASSUME NEW k \in 1..Len(q) PROVE z[k] = x[k]
  <2>1. k \in 1..Len(w)
    BY <1>3, <1>4, <1>6
  <2> QED BY <1>3, <1>5, <1>6, <2>1
<1>8. ASSUME NEW k \in 1..Len(u) PROVE z[Len(q) + k] = y[k]
  <2>1. Len(q) + k \in 1..Len(w)
    BY <1>3, <1>4, <1>6
  <2>2. z[Len(q) + k] = AsName(w[Len(q) + k]) /\ w[Len(q) + k] = u[k]
    BY <1>5, <1>6, <2>1
  <2> QED BY <1>4, <2>2
<1>9. Behind(x, y, z)
  BY <1>3, <1>4, <1>5, <1>6, <1>7, <1>8 DEF Behind
<1>10. FlattenSeq(z) = FlattenSeq(x) \o FlattenSeq(y)
  BY <1>3, <1>4, <1>5, <1>9, FlattenBehind
<1> QED BY <1>3, <1>4, <1>5, <1>10 DEF c

\* A text without a slash is its only part.
LEMMA ComponentsOfOne ==
    ASSUME NullIsNoText, NEW T, "/" \in T, NEW p \in Seq(T), \A i \in 1..Len(p) : p[i] # "/"
    PROVE  Components(p) = AsName(p)
<1> DEFINE h == Find(p, OneSlash, 1)
           m == SplitCount(p, OneSlash)
           z == 0
<1>1. OneSlash \in Seq(T) /\ OneSlash # <<>> /\ Len(OneSlash) = 1 /\ OneSlash[1] = "/" /\ Len(p) \in Nat
  BY SlashIs
<1>2. h = 0
  <2>1. SUFFICES ASSUME h # 0 PROVE FALSE
    OBVIOUS
  <2>2. h \in Nat /\ 1 <= h /\ h <= Len(p) - Len(OneSlash) + 1 /\ Match(p, OneSlash, h)
    BY <1>1, <2>1, FindIs
  <2> HIDE DEF h
  <2>3. h \in 1..Len(p) /\ h - 1 \in Nat /\ (h - 1) + 1 = h /\ h + Len(OneSlash) - 1 = h /\ h - (h - 1) = 1
        /\ h - 1 <= h /\ h <= Len(p)
    BY <1>1, <2>2
  <2>4. SubSeq(p, h, h) = OneSlash
    BY <2>2, <2>3 DEF Match
  <2>5. CutPlaces(p, h - 1, h)
    BY <2>2, <2>3 DEF CutPlaces
  <2>6. \A x \in 1..(h - (h - 1)) : Cut(p, h - 1, h)[x] = p[(h - 1) + x]
    BY <2>5, CutIs
  <2>7. Cut(p, h - 1, h)[1] = p[(h - 1) + 1]
    <3>1. 1 \in 1..(h - (h - 1))
      BY <2>3
    <3> QED BY <2>6, <3>1
  <2>8. Cut(p, h - 1, h) = OneSlash
    BY <2>3, <2>4 DEF Cut
  <2>9. p[h] = "/"
    BY <1>1, <2>3, <2>7, <2>8
  <2> QED BY <2>3, <2>9
<1>3. m = 1
  <2>1. m \in Nat \ {0} /\ \A k \in Nat : PartStart(p, OneSlash, k) # 0 <=> k < m
    BY <1>1, SplitCountIs DEF Begins
  <2> HIDE DEF m
  <2>2. PartStart(p, OneSlash, z) = 1
    BY <1>1, PartStartIs
  <2>3. PartStart(p, OneSlash, z + 1) = StartAfter(p, OneSlash, PartStart(p, OneSlash, z))
    <3>1. z \in Nat
      OBVIOUS
    <3> HIDE DEF z
    <3> QED BY <1>1, <3>1, PartStartIs
  <2>4. PartStart(p, OneSlash, 1) = 0
    <3>1. StartAfter(p, OneSlash, 1) = 0
      BY <1>2 DEF StartAfter
    <3>2. z + 1 = 1
      OBVIOUS
    <3> QED BY <2>2, <2>3, <3>1, <3>2
  <2>5. ~(1 < m)
    BY <2>1, <2>4
  <2> QED BY <2>1, <2>5
<1>4. PartsOf(p, OneSlash)[1] = p
  <2>1. 1 \in 1..m /\ 1 - 1 = 0
    BY <1>3
  <2>2. PartsOf(p, OneSlash)[1] = PartFrom(p, OneSlash, PartStart(p, OneSlash, 1 - 1))
    BY <1>1, <2>1, PartsAre
  <2>3. PartStart(p, OneSlash, 1 - 1) = 1
    BY <1>1, <2>1, PartStartIs
  <2>4. PartFrom(p, OneSlash, 1) = Drop(p, 1 - 1)
    BY <1>2 DEF PartFrom
  <2>5. Drop(p, 1 - 1) = p
    <3>1. (1 - 1) + 1 = 1
      OBVIOUS
    <3>2. SubSeq(p, 1, Len(p)) = p
      BY WholeSlice
    <3> QED BY <3>1, <3>2 DEF Drop
  <2> QED BY <2>2, <2>3, <2>4, <2>5
<1>5. /\ NamedParts(p) \in Seq(Seq(Seq(T))) /\ Len(NamedParts(p)) = 1 /\ NamedParts(p)[1] = AsName(p)
      /\ Components(p) = FlattenSeq(NamedParts(p))
  <2>1. Len(PartsOf(p, OneSlash)) = 1
    BY <1>1, <1>3, PartsAre
  <2>2. 1 \in 1..1
    OBVIOUS
  <2>3. NamedParts(p) \in Seq(Seq(Seq(T))) /\ Len(NamedParts(p)) = 1
    BY <2>1, ComponentsAre
  <2>4. Components(p) = FlattenSeq(NamedParts(p))
    BY ComponentsAre
  <2>5. \A k \in 1..1 : NamedParts(p)[k] = AsName(PartsOf(p, OneSlash)[k])
    BY <2>1, ComponentsAre
  <2>6. NamedParts(p)[1] = AsName(p)
    BY <1>4, <2>2, <2>5
  <2> QED BY <2>3, <2>4, <2>6
<1> DEFINE w == NamedParts(p)
           S == Seq(T)
<1> HIDE DEF w, S
<1>6. PICK f \in [1..Len(w) -> Seq(S)] : FlatSteps(f, w) /\ FlattenSeq(w) = f[Len(w)]
  <2>1. w \in Seq(Seq(S)) /\ Len(w) # 0
    BY <1>5 DEF w, S
  <2> QED BY <2>1, FlattenSteps
<1>7. FlattenSeq(w) = w[1]
  BY <1>5, <1>6 DEF FlatSteps, w
<1> QED BY <1>5, <1>7 DEF w

\* An empty path has no names.
LEMMA NoNames ==
    ASSUME NullIsNoText, NEW T, "/" \in T
    PROVE  Components(<<>>) = <<>>
<1> DEFINE e == <<>>
<1>1. e \in Seq(T) /\ \A i \in 1..Len(e) : e[i] # "/"
  OBVIOUS
<1>2. AsName(e) = <<>>
  BY DEF AsName
<1> HIDE DEF e
<1>3. Components(e) = AsName(e)
  BY <1>1, ComponentsOfOne
<1> QED BY <1>2, <1>3 DEF e

\* The names around the slash at place i.
LEMMA NamesAround ==
    ASSUME NullIsNoText, NEW T, "/" \in T, NEW s \in Seq(T), NEW i \in 1..Len(s), s[i] = "/"
    PROVE  Components(s) = Components(SubSeq(s, 1, i - 1)) \o Components(Drop(s, i))
<1> DEFINE L == Len(s)
           a == Cut(s, 0, i - 1)
           b == Cut(s, i, L)
           c == Cut(s, i - 1, i)
           z == 0
<1>1. L \in Nat /\ i \in 0..L /\ i - 1 \in 0..L /\ i - 1 \in Nat /\ i - 1 < i /\ i <= L /\ (i - 1) + 1 = i
  OBVIOUS
<1>2. CutPlaces(s, i - 1, i) /\ CutPlaces(s, i, L) /\ CutPlaces(s, z, i - 1) /\ CutPlaces(s, i - 1, L)
  BY <1>1 DEF CutPlaces
<1>3. a \in Seq(T) /\ b \in Seq(T) /\ SubSeq(s, 1, i - 1) = a /\ Drop(s, i) = b
  <2>1. SubSeq(s, 1, i - 1) = a
    BY <1>1, DropIsCut
  <2>2. Drop(s, i) = b
    BY <1>1, DropIsCut
  <2>3. a \in Seq(T)
    BY <1>2, CutIs
  <2>4. b \in Seq(T)
    BY <1>2, CutIs
  <2> QED BY <2>1, <2>2, <2>3, <2>4
<1>4. c = OneSlash
  <2>1. Cut(s, i - 1, (i - 1) + 1) = <<s[(i - 1) + 1]>>
    BY <1>1, <1>2, CutFirst
  <2> QED BY <1>1, <2>1 DEF OneSlash
<1>5. c \o b = Cut(s, i - 1, L)
  BY <1>2, CutJoin
<1>6. a \o Cut(s, i - 1, L) = Cut(s, z, L)
  BY <1>2, CutJoin
<1>7. Cut(s, z, L) = s
  BY CutWhole
<1> HIDE DEF a, b, c
<1>8. s = a \o (OneSlash \o b)
  BY <1>4, <1>5, <1>6, <1>7
<1>9. Components(a \o (OneSlash \o b)) = Components(a) \o Components(b)
  BY <1>3, ComponentsBehind
<1> QED BY <1>3, <1>8, <1>9

\* Slashes at the end of a path are no names.
LEMMA NamesWithoutSlashes ==
    ASSUME NullIsNoText, NEW T, "/" \in T, NEW s \in Seq(T), NEW n \in 0..Len(s),
           \A i \in (n + 1)..Len(s) : s[i] = "/"
    PROVE  Components(SubSeq(s, 1, n)) = Components(s)
<1> DEFINE L == Len(s)
           C(j) == Components(SubSeq(s, 1, j))
           U == {k \in Nat : n + k <= L => C(n + k) = C(n)}
<1>1. L \in Nat /\ n \in Nat /\ n <= L
  OBVIOUS
<1>2. 0 \in U
  BY <1>1
<1>3. ASSUME NEW k \in Nat, k \in U PROVE k + 1 \in U
  <2>1. SUFFICES ASSUME n + (k + 1) <= L PROVE C(n + (k + 1)) = C(n)
    OBVIOUS
  <2> DEFINE j == n + (k + 1)
             t == SubSeq(s, 1, j)
             u == SubSeq(s, 1, n + k)
  <2>2. j \in 0..L /\ j \in 1..j /\ j - 1 = n + k /\ n + k <= L /\ n + k \in 0..L /\ n + k \in 0..j
        /\ j \in (n + 1)..L
    BY <1>1, <2>1
  <2>3. t \in Seq(T) /\ Len(t) = j /\ \A x \in 1..j : t[x] = s[x]
    BY <2>2, SubSeqPrefix
  <2>4. u \in Seq(T) /\ Len(u) = n + k /\ \A x \in 1..(n + k) : u[x] = s[x]
    BY <2>2, SubSeqPrefix
  <2>5. s[j] = "/"
    BY <2>2
  <2>6. C(n + k) = C(n)
    BY <1>3, <2>2
  <2>7. C(j) = Components(t) /\ C(n + k) = Components(u)
    OBVIOUS
  <2> HIDE DEF j, t, u, C
  <2>8. Components(t) = Components(SubSeq(t, 1, j - 1)) \o Components(Drop(t, j))
    <3>1. t[j] = "/" /\ j \in 1..Len(t)
      BY <2>2, <2>3, <2>5
    <3> QED BY <2>3, <3>1, NamesAround
  <2>9. SubSeq(t, 1, j - 1) = u
    <3> DEFINE v == SubSeq(t, 1, n + k)
    <3>1. v \in Seq(T) /\ Len(v) = n + k /\ \A x \in 1..(n + k) : v[x] = t[x]
      BY <2>2, <2>3, SubSeqPrefix
    <3>2. \A x \in 1..(n + k) : x \in 1..j
      BY <2>2
    <3> HIDE DEF v
    <3>3. \A x \in 1..Len(u) : v[x] = u[x]
      BY <2>3, <2>4, <3>1, <3>2
    <3>4. v = u
      BY <2>4, <3>1, <3>3, SameElements
    <3> QED BY <2>2, <3>4 DEF v
  <2>10. Components(Drop(t, j)) = <<>>
    <3>1. j \in 0..Len(t) /\ Len(t) - j = 0
      BY <2>2, <2>3
    <3>2. Drop(t, j) \in Seq(T) /\ Len(Drop(t, j)) = 0
      BY <2>3, <3>1, DropIs
    <3>3. Drop(t, j) = <<>>
      BY <3>2, ConcatEmpty
    <3> QED BY <3>3, NoNames
  <2>11. Components(u) \in Seq(Seq(T))
    BY <2>4, ComponentsAre
  <2>12. Components(u) \o <<>> = Components(u)
    BY <2>11
  <2>13. C(j) = C(n)
    BY <2>6, <2>7, <2>8, <2>9, <2>10, <2>12
  <2> QED BY <2>13 DEF j
<1> HIDE DEF U
<1>4. Nat \subseteq U
  BY <1>2, <1>3, SetInduction
<1>5. C(L) = C(n)
  <2>1. L - n \in Nat /\ n + (L - n) = L /\ L <= L
    BY <1>1
  <2>2. L - n \in U
    BY <1>4, <2>1
  <2>3. n + (L - n) <= L => C(n + (L - n)) = C(n)
    <3> HIDE DEF C
    <3> QED BY <2>2 DEF U
  <2> QED BY <2>1, <2>3
<1> QED BY <1>5, WholeSlice

\* The last place with a character of C.
LastIn(s, C) == Max({0} \cup {i \in 1..Len(s) : s[i] \in C})

\* It is such a place, and none is behind it.
LEMMA LastInIs ==
    ASSUME NEW T, NEW s \in Seq(T), NEW C
    PROVE  /\ Len(s) \in Nat /\ LastIn(s, C) \in 0..Len(s)
           /\ LastIn(s, C) # 0 => s[LastIn(s, C)] \in C
           /\ \A i \in (LastIn(s, C) + 1)..Len(s) : s[i] \notin C
<1> DEFINE S == {0} \cup {i \in 1..Len(s) : s[i] \in C}
           k == LastIn(s, C)
           L == Len(s)
<1>1. L \in Nat
  OBVIOUS
<1>2. S \in SUBSET (0..L) /\ S # {}
  BY <1>1
<1>3. k = Max(S)
  BY DEF LastIn
<1>4. Max(S) \in S /\ \A n \in S : n <= Max(S)
  <2> HIDE DEF S
  <2> QED BY <1>1, <1>2, MaxOf
<1> HIDE DEF k
<1>5. k \in 0..L /\ (k # 0 => s[k] \in C)
  BY <1>1, <1>2, <1>3, <1>4
<1>6. ASSUME NEW i \in (k + 1)..L, s[i] \in C PROVE FALSE
  <2>1. i \in 1..L /\ ~(i <= k)
    BY <1>1, <1>5
  <2>2. i \in S
    BY <1>6, <2>1
  <2> HIDE DEF S
  <2> QED BY <1>3, <1>4, <2>1, <2>2
<1> QED BY <1>1, <1>5, <1>6 DEF k

\* The last name of a path that ends in one.
LEMMA LastName ==
    ASSUME NullIsNoText, NEW T, "/" \in T, NEW s \in Seq(T), Len(s) # 0, s[Len(s)] # "/"
    PROVE  /\ LastIn(s, Slash) \in 0..Len(s)
           /\ Drop(s, LastIn(s, Slash)) \in Seq(T)
           /\ Components(SubSeq(s, 1, LastIn(s, Slash))) \in Seq(Seq(T))
           /\ Components(s) = Append(Components(SubSeq(s, 1, LastIn(s, Slash))), Drop(s, LastIn(s, Slash)))
<1> DEFINE d == LastIn(s, Slash)
           L == Len(s)
           u == SubSeq(s, 1, d)
           v == Drop(s, d)
           S == Seq(T)
<1>1. /\ L \in Nat /\ d \in 0..L /\ (d # 0 => s[d] = "/")
      /\ \A i \in (d + 1)..L : s[i] # "/"
  BY LastInIs DEF Slash
<1> HIDE DEF d
<1>2. d < L
  BY <1>1
<1>3. u \in Seq(T) /\ Len(u) = d /\ \A x \in 1..d : u[x] = s[x]
  BY <1>1, SubSeqPrefix
<1>4. v \in Seq(T) /\ Len(v) = L - d /\ \A x \in 1..(L - d) : v[x] = s[d + x]
  BY <1>1, DropIs
<1>5. Components(v) = <<v>>
  <2>1. \A x \in 1..(L - d) : d + x \in (d + 1)..L
    BY <1>1
  <2>2. v # <<>>
    <3>1. Len(v) # 0
      BY <1>1, <1>2, <1>4
    <3> QED BY <3>1
  <2> HIDE DEF v
  <2>3. \A x \in 1..Len(v) : v[x] # "/"
    BY <1>1, <1>4, <2>1
  <2>4. Components(v) = AsName(v)
    BY <1>4, <2>3, ComponentsOfOne
  <2> QED BY <2>2, <2>4 DEF AsName
<1>6. Components(u) \in Seq(S)
  BY <1>3, ComponentsAre
<1>7. Components(s) = Components(u) \o <<v>>
  <2>1. CASE d = 0
    <3>1. u = <<>>
      BY <1>3, <2>1
    <3>2. v = s
      BY <2>1, WholeSlice DEF Drop
    <3>3. Components(u) = <<>>
      BY <3>1, NoNames
    <3>4. <<>> \o <<v>> = <<v>>
      <4>1. \A x \in S : <<>> \o <<x>> = <<x>>
        <5> HIDE DEF S
        <5> QED OBVIOUS
      <4> QED BY <1>4, <4>1
    <3> QED BY <1>5, <3>2, <3>3, <3>4
  <2>2. CASE d # 0
    <3> DEFINE t == SubSeq(s, 1, d - 1)
    <3>1. d \in 1..L /\ d - 1 \in 0..L /\ d - 1 \in 0..d /\ (d - 1) + 1 = d
      BY <1>1, <2>2
    <3>2. s[d] = "/"
      BY <1>1, <2>2
    <3>3. Components(s) = Components(t) \o Components(v)
      BY <3>1, <3>2, NamesAround
    <3>4. Components(SubSeq(u, 1, d - 1)) = Components(u)
      <4>1. d - 1 \in 0..Len(u)
        BY <1>3, <3>1
      <4>2. \A i \in ((d - 1) + 1)..Len(u) : u[i] = "/"
        <5>1. \A i \in d..d : i = d /\ i \in 1..d
          BY <3>1
        <5> QED BY <1>3, <3>1, <3>2, <5>1
      <4> HIDE DEF u
      <4> QED BY <1>3, <4>1, <4>2, NamesWithoutSlashes
    <3>5. SubSeq(u, 1, d - 1) = t
      <4> DEFINE w == SubSeq(u, 1, d - 1)
      <4>1. d - 1 \in 0..Len(u)
        BY <1>3, <3>1
      <4>2. w \in Seq(T) /\ Len(w) = d - 1 /\ \A x \in 1..(d - 1) : w[x] = u[x]
        <5> HIDE DEF u
        <5> QED BY <1>3, <4>1, SubSeqPrefix
      <4>3. t \in Seq(T) /\ Len(t) = d - 1 /\ \A x \in 1..(d - 1) : t[x] = s[x]
        BY <3>1, SubSeqPrefix
      <4>4. \A x \in 1..(d - 1) : x \in 1..d
        BY <3>1
      <4> HIDE DEF w, t, u
      <4>5. \A x \in 1..Len(t) : w[x] = t[x]
        BY <1>3, <4>2, <4>3, <4>4
      <4>6. w = t
        BY <4>2, <4>3, <4>5, SameElements
      <4> QED BY <4>6 DEF w
    <3> HIDE DEF t, u, v
    <3> QED BY <1>5, <3>3, <3>4, <3>5
  <2> QED BY <2>1, <2>2
<1>8. Components(u) \o <<v>> = Append(Components(u), v)
  <2>1. ASSUME NEW q \in Seq(S), NEW x \in S PROVE q \o <<x>> = Append(q, x)
    <3> HIDE DEF S
    <3> QED OBVIOUS
  <2> HIDE DEF u, v
  <2> QED BY <1>4, <1>6, <2>1
<1> QED BY <1>1, <1>4, <1>6, <1>7, <1>8 DEF d

\* Joined paths are the two with a slash between them, unless the first is empty.
LEMMA JoinedPaths ==
    ASSUME NullIsNoText, NEW T, "/" \in T, NEW a \in Seq(T), NEW b \in Seq(T)
    PROVE  /\ a = <<>> => PathJoin(a, b) = b
           /\ a # <<>> => \E x \in Seq(T) : PathJoin(a, b) = x \o (OneSlash \o b) /\ Components(x) = Components(a)
<1> DEFINE L == Len(a)
           mid == IF a # <<>> /\ Last(a) \notin Slash THEN <<"/">> ELSE <<>>
           e == <<>>
<1>1. L \in Nat /\ a # Null /\ b # Null /\ OneSlash \in Seq(T) /\ e \in Seq(T)
  BY SlashIs DEF NullIsNoText
<1>2. PathJoin(a, b) = (a \o mid) \o b
  BY <1>1 DEF PathJoin, JoinWith
<1>3. ASSUME NEW s \in Seq(T), mid = s PROVE PathJoin(a, b) = a \o (s \o b)
  <2>1. Regroups(a, s, b)
    BY ConcatRegroups
  <2> HIDE DEF mid
  <2> QED BY <1>2, <1>3, <2>1 DEF Regroups
<1>4. mid = e => PathJoin(a, b) = a \o b
  <2>1. e \o b = b
    OBVIOUS
  <2> HIDE DEF e, mid
  <2>2. mid = e => PathJoin(a, b) = a \o (e \o b)
    BY <1>1, <1>3
  <2> QED BY <2>1, <2>2
<1>5. a = <<>> => PathJoin(a, b) = b
  <2>1. SUFFICES ASSUME a = <<>> PROVE PathJoin(a, b) = b
    OBVIOUS
  <2>2. mid = e /\ a = e
    BY <2>1
  <2>3. e \o b = b
    OBVIOUS
  <2> HIDE DEF e, mid
  <2> QED BY <1>4, <2>2, <2>3
<1>6. CASE a # <<>> /\ Last(a) \notin Slash
  <2>1. mid = OneSlash
    BY <1>6 DEF OneSlash
  <2> HIDE DEF mid
  <2>2. PathJoin(a, b) = a \o (OneSlash \o b)
    BY <1>1, <1>3, <2>1
  <2> QED BY <1>5, <1>6, <2>2
<1>7. CASE a # <<>> /\ Last(a) \in Slash
  <2> DEFINE x == SubSeq(a, 1, L - 1)
             y == Cut(a, L - 1, L)
             z == 0
  <2>1. L # 0 /\ a[L] = "/"
    BY <1>7 DEF Last, Slash
  <2>2. L - 1 \in 0..L /\ L - 1 \in Nat /\ (L - 1) + 1 = L /\ L - 1 < L /\ z \in Nat /\ z <= L - 1 /\ L <= L
    BY <1>1, <2>1
  <2>3. CutPlaces(a, z, L - 1) /\ CutPlaces(a, L - 1, L) /\ x = Cut(a, z, L - 1)
    <3>1. CutPlaces(a, z, L - 1) /\ CutPlaces(a, L - 1, L)
      BY <1>1, <2>2 DEF CutPlaces
    <3>2. x = Cut(a, 0, L - 1)
      BY <2>2, DropIsCut
    <3> QED BY <3>1, <3>2
  <2>4. x \in Seq(T)
    BY <2>2, SubSeqPrefix
  <2>5. y = OneSlash
    <3>1. Cut(a, L - 1, (L - 1) + 1) = <<a[(L - 1) + 1]>>
      BY <2>2, <2>3, CutFirst
    <3> QED BY <2>1, <2>2, <3>1 DEF OneSlash
  <2>6. a = x \o OneSlash
    <3>1. Cut(a, z, L - 1) \o Cut(a, L - 1, L) = Cut(a, z, L)
      BY <2>3, CutJoin
    <3>2. Cut(a, z, L) = a
      BY CutWhole
    <3> HIDE DEF x, y
    <3> QED BY <2>3, <2>5, <3>1, <3>2 DEF y
  <2>7. PathJoin(a, b) = a \o b
    <3>1. mid = e
      BY <1>7
    <3> QED BY <1>4, <3>1
  <2> HIDE DEF x
  <2>8. Regroups(x, OneSlash, b)
    BY <1>1, <2>4, ConcatRegroups
  <2>9. PathJoin(a, b) = x \o (OneSlash \o b)
    BY <2>6, <2>7, <2>8, Zenon DEF Regroups
  <2>10. Components(x) = Components(a)
    <3>1. \A i \in ((L - 1) + 1)..Len(a) : a[i] = "/"
      <4> SUFFICES ASSUME NEW i \in ((L - 1) + 1)..Len(a) PROVE a[i] = "/"
        OBVIOUS
      <4>1. i \in L..L /\ L \in Nat
        BY <1>1, <2>2
      <4> HIDE DEF L
      <4>2. i = L
        BY <4>1, SMTT(30)
      <4> QED BY <2>1, <4>2
    <3>2. Components(SubSeq(a, 1, L - 1)) = Components(a)
      BY <2>2, <3>1, NamesWithoutSlashes
    <3> QED BY <3>2 DEF x
  <2> QED BY <1>5, <1>7, <2>4, <2>9, <2>10
<1> QED BY <1>5, <1>6, <1>7

\* The last place of a character, in a text and in what is left of it behind place n.
LastRule(c, n, b, x) ==
    /\ Len(c) \in Nat /\ LastAt(c, x) \in 0..Len(c) /\ LastAt(b, x) \in 0..(Len(c) - n)
    /\ LastAt(b, x) # 0 => LastAt(c, x) = n + LastAt(b, x)
    /\ LastAt(b, x) = 0 => LastAt(c, x) <= n
    /\ LastAt(c, x) # 0 => c[LastAt(c, x)] = x
    /\ \A i \in 1..Len(c) : c[i] = x => i <= LastAt(c, x)

\* The rule holds of every path, and so of what is left of one.
LEMMA LastBehind ==
    ASSUME NEW T, NEW c \in Seq(T), NEW n \in 0..Len(c), NEW x
    PROVE  LastRule(c, n, Drop(c, n), x)
<1> DEFINE b == Drop(c, n)
           L == Len(c)
           X == {x}
           k == LastIn(c, X)
           j == LastIn(b, X)
<1>1. b \in Seq(T) /\ Len(b) = L - n /\ (\A i \in 1..(L - n) : b[i] = c[n + i]) /\ L \in Nat /\ n \in Nat /\ n <= L
  <2>1. b \in Seq(T) /\ Len(b) = L - n /\ \A i \in 1..(L - n) : b[i] = c[n + i]
    BY DropIs
  <2>2. L \in Nat /\ n \in Nat /\ n <= L
    OBVIOUS
  <2> QED BY <2>1, <2>2
<1>2. LastAt(c, x) = k /\ LastAt(b, x) = j
  BY DEF LastAt, LastIn
<1> HIDE DEF b, X
<1>3. k \in 0..L /\ (k # 0 => c[k] \in X) /\ \A i \in (k + 1)..L : c[i] \notin X
  BY LastInIs
<1>4. j \in 0..(L - n) /\ (j # 0 => b[j] \in X) /\ \A i \in (j + 1)..(L - n) : b[i] \notin X
  BY <1>1, LastInIs
<1> HIDE DEF k, j, L
<1>5. ASSUME NEW i \in (n + j + 1)..L PROVE c[i] \notin X
  <2>1. i - n \in (j + 1)..(L - n) /\ i - n \in 1..(L - n) /\ n + (i - n) = i
    BY <1>1, <1>4
  <2>2. b[i - n] \notin X /\ b[i - n] = c[n + (i - n)]
    BY <1>1, <1>4, <2>1
  <2> QED BY <2>1, <2>2
<1>6. k <= n + j
  <2>1. SUFFICES ASSUME ~(k <= n + j) PROVE FALSE
    OBVIOUS
  <2>2. k \in (n + j + 1)..L /\ k # 0
    BY <1>1, <1>3, <1>4, <2>1
  <2> QED BY <1>3, <1>5, <2>2
<1>7. j # 0 => k = n + j
  <2>1. SUFFICES ASSUME j # 0, k # n + j PROVE FALSE
    OBVIOUS
  <2>2. n + j \in (k + 1)..L /\ j \in 1..(L - n)
    BY <1>1, <1>3, <1>4, <1>6, <2>1
  <2>3. c[n + j] \in X
    BY <1>1, <1>4, <2>1, <2>2
  <2> QED BY <1>3, <2>2, <2>3
<1>8. j = 0 => k <= n
  BY <1>1, <1>6
<1>9. ASSUME NEW i \in 1..L, c[i] \in X PROVE i <= k
  <2>1. ~(i <= k) => i \in (k + 1)..L
    BY <1>1, <1>3
  <2> QED BY <1>3, <1>9, <2>1
<1>10. \A y : y \in X <=> y = x
  BY DEF X
<1>11. LastRule(c, n, b, x)
  BY <1>1, <1>2, <1>3, <1>4, <1>7, <1>8, <1>9, <1>10 DEF LastRule, L
<1> QED BY <1>11 DEF b

\* The extension of what is behind a slash.
LEMMA ExtensionBehind ==
    ASSUME NullIsNoText, NEW T, "/" \in T, NEW x \in Seq(T), NEW b \in Seq(T)
    PROVE  PathExt(x \o (OneSlash \o b)) = PathExt(b)
<1> DEFINE v == OneSlash \o b
           c == x \o v
           n == Len(x) + 1
<1>1. OneSlash \in Seq(T) /\ Len(OneSlash) = 1 /\ OneSlash[1] = "/" /\ Len(x) \in Nat /\ Len(b) \in Nat
  BY SlashIs
<1>2. v \in Seq(T) /\ Len(v) = 1 + Len(b) /\ v[1] = "/" /\ Drop(v, 1) = b
  <2>1. v \in Seq(T) /\ Len(v) = Len(OneSlash) + Len(b)
    BY <1>1, ConcatIs
  <2>2. \A i \in 1..Len(OneSlash) : v[i] = OneSlash[i]
    BY <1>1, ConcatIs
  <2>3. Drop(OneSlash \o b, Len(OneSlash)) = b
    BY <1>1, ConcatDrop
  <2>4. 1 \in 1..1
    OBVIOUS
  <2> QED BY <1>1, <2>1, <2>2, <2>3, <2>4
<1> HIDE DEF v
<1>3. c \in Seq(T) /\ Len(c) = n + Len(b) /\ Drop(c, Len(x)) = v /\ c[n] = "/"
  <2>1. c \in Seq(T) /\ Len(c) = Len(x) + Len(v)
    BY <1>2, ConcatIs
  <2>2. \A i \in 1..Len(v) : c[Len(x) + i] = v[i]
    BY <1>2, ConcatIs
  <2>3. Drop(x \o v, Len(x)) = v
    BY <1>2, ConcatDrop
  <2>4. 1 \in 1..Len(v)
    BY <1>1, <1>2
  <2>5. Len(x) + (1 + Len(b)) = n + Len(b)
    BY <1>1
  <2> QED BY <1>2, <2>1, <2>2, <2>3, <2>4, <2>5
<1> HIDE DEF c
<1>4. n \in Nat /\ n \in 0..Len(c) /\ n \in 1..Len(c) /\ Len(x) + 1 <= Len(c)
  BY <1>1, <1>3
<1>5. Drop(c, n) = b
  <2> DEFINE one == 1
  <2>1. one \in Nat /\ Len(x) + one <= Len(c)
    BY <1>4
  <2> HIDE DEF one
  <2>2. Drop(Drop(c, Len(x)), one) = Drop(c, Len(x) + one)
    BY <1>1, <1>3, <2>1, DropDrop
  <2> QED BY <1>2, <1>3, <2>2 DEF one
<1> DEFINE dot_c == LastAt(c, ".")
           dot_b == LastAt(b, ".")
           slash_c == LastAt(c, "/")
           slash_b == LastAt(b, "/")
<1> HIDE DEF n
<1>6. /\ Len(c) \in Nat /\ dot_c \in 0..Len(c) /\ dot_b \in 0..(Len(c) - n)
      /\ (dot_b # 0 => dot_c = n + dot_b) /\ (dot_b = 0 => dot_c <= n) /\ (dot_c # 0 => c[dot_c] = ".")
  <2>1. c \in Seq(T) /\ n \in 0..Len(c)
    BY <1>3, <1>4
  <2>2. LastRule(c, n, Drop(c, n), ".")
    BY <2>1, LastBehind
  <2> QED BY <1>5, <2>2 DEF LastRule
<1>7. /\ slash_c \in 0..Len(c) /\ slash_b \in 0..(Len(c) - n)
      /\ (slash_b # 0 => slash_c = n + slash_b) /\ (slash_b = 0 => slash_c <= n) /\ (\A i \in 1..Len(c) : c[i] = "/" => i <= slash_c)
  <2>1. c \in Seq(T) /\ n \in 0..Len(c)
    BY <1>3, <1>4
  <2>2. LastRule(c, n, Drop(c, n), "/")
    BY <2>1, LastBehind
  <2> QED BY <1>5, <2>2 DEF LastRule
<1>8. c # Null /\ b # Null
  BY <1>3 DEF NullIsNoText
<1>9. /\ PathExt(c) = IF dot_c = 0 \/ slash_c > dot_c THEN <<>> ELSE Drop(c, dot_c - 1)
      /\ PathExt(b) = IF dot_b = 0 \/ slash_b > dot_b THEN <<>> ELSE Drop(b, dot_b - 1)
  BY <1>8 DEF PathExt, ExtWith, Slash
<1> HIDE DEF dot_c, dot_b, slash_c, slash_b
<1>10. n <= slash_c /\ dot_c # n
  BY <1>3, <1>4, <1>6, <1>7
<1>11. CASE dot_b = 0
  <2>1. dot_c = 0 \/ slash_c > dot_c
    BY <1>4, <1>6, <1>7, <1>10, <1>11
  <2> QED BY <1>9, <1>11, <2>1 DEF c, v
<1>12. CASE dot_b # 0
  <2>1. dot_c = n + dot_b /\ dot_c # 0 /\ (slash_c > dot_c <=> slash_b > dot_b)
    BY <1>4, <1>6, <1>7, <1>12
  <2>2. Drop(c, dot_c - 1) = Drop(b, dot_b - 1)
    <3> DEFINE j == dot_b - 1
    <3>1. j \in Nat /\ n + j <= Len(c) /\ dot_c - 1 = n + j
      BY <1>4, <1>6, <1>12, <2>1
    <3> HIDE DEF j
    <3>2. Drop(Drop(c, n), j) = Drop(c, n + j)
      BY <1>3, <1>4, <3>1, DropDrop
    <3> QED BY <1>5, <3>1, <3>2 DEF j
  <2> QED BY <1>9, <1>12, <2>1, <2>2 DEF c, v
<1> QED BY <1>11, <1>12

\* The parent of a path has all its names but the last, and begins as it does.
LEMMA ParentsAre ==
    ASSUME NullIsNoText, NEW T, "/" \in T, NEW a \in Seq(T)
    PROVE  IF Len(Components(a)) < 2 THEN PathParent(a) = <<".">>
           ELSE /\ Components(PathParent(a)) = Front(Components(a))
                /\ Head(PathParent(a)) = "/" <=> Head(a) = "/"
                /\ Last(PathParent(a)) # "/"
<1> DEFINE L == Len(a)
           k == SuffixIn(a, Slash)
           name == SubSeq(a, 1, L - k)
           d == LastIn(name, Slash)
           dir == SubSeq(name, 1, d)
           j == SuffixIn(dir, Slash)
           rest == SubSeq(dir, 1, Len(dir) - j)
           S == Seq(T)
<1>1. PathParent(a) = IF rest = <<>> THEN <<".">> ELSE rest
  <2>1. a # Null
    BY DEF NullIsNoText
  <2> QED BY <2>1 DEF PathParent, ParentWith, LastIn
<1>2. /\ L \in Nat /\ k \in 0..L /\ (\A i \in (L - k + 1)..L : a[i] \in Slash)
      /\ k < L => a[L - k] \notin Slash
  BY SuffixIs
<1> HIDE DEF k
<1>3. L - k \in 0..L /\ (L - k) + 1 = L - k + 1
  BY <1>2
<1>4. name \in Seq(T) /\ Len(name) = L - k /\ \A x \in 1..(L - k) : name[x] = a[x]
  BY <1>3, SubSeqPrefix
<1>5. Components(name) = Components(a)
  <2>1. \A i \in ((L - k) + 1)..Len(a) : a[i] = "/"
    BY <1>2, <1>3 DEF Slash
  <2> QED BY <1>3, <2>1, NamesWithoutSlashes
<1> HIDE DEF name
<1>6. Len(name) \in Nat /\ d \in 0..Len(name)
  BY <1>4, LastInIs
<1> HIDE DEF d
<1>7. dir \in Seq(T) /\ Len(dir) = d /\ \A x \in 1..d : dir[x] = name[x]
  BY <1>4, <1>6, SubSeqPrefix
<1> HIDE DEF dir
<1>8. /\ Len(dir) \in Nat /\ j \in 0..Len(dir) /\ (\A i \in (Len(dir) - j + 1)..Len(dir) : dir[i] \in Slash)
      /\ j < Len(dir) => dir[Len(dir) - j] \notin Slash
  BY <1>7, SuffixIs
<1> HIDE DEF j
<1>9. Len(dir) - j \in 0..Len(dir) /\ (Len(dir) - j) + 1 = Len(dir) - j + 1
  BY <1>8
<1>10. rest \in Seq(T) /\ Len(rest) = Len(dir) - j /\ \A x \in 1..(Len(dir) - j) : rest[x] = dir[x]
  BY <1>7, <1>9, SubSeqPrefix
<1>11. Components(rest) = Components(dir)
  <2>1. \A i \in ((Len(dir) - j) + 1)..Len(dir) : dir[i] = "/"
    BY <1>8, <1>9 DEF Slash
  <2> QED BY <1>7, <1>9, <2>1, NamesWithoutSlashes
<1> HIDE DEF rest
<1>12. Len(rest) \in Nat /\ (Len(rest) = 0 <=> rest = <<>>)
  BY <1>10
<1> DEFINE q == Components(rest)
           u == Components(a)
<1>13. q \in Seq(S)
  BY <1>10, ComponentsAre
<1>14. CASE k = L
  <2>1. Len(name) = 0 /\ Len(rest) = 0
    BY <1>2, <1>4, <1>6, <1>7, <1>8, <1>10, <1>14
  <2>2. name = <<>> /\ rest = <<>>
    BY <1>4, <1>12, <2>1
  <2>3. Components(a) = <<>>
    BY <1>5, <2>2, NoNames
  <2>4. Len(Components(a)) < 2
    BY <2>3
  <2> QED BY <1>1, <2>2, <2>4
<1>15. CASE k # L
  <2>1. Len(name) # 0 /\ Len(name) \in 1..(L - k) /\ k < L
    BY <1>2, <1>4, <1>15
  <2>2. name[Len(name)] # "/"
    BY <1>2, <1>4, <2>1 DEF Slash
  <2>3. Drop(name, d) \in S /\ Components(name) = Append(Components(dir), Drop(name, d))
    BY <1>4, <2>1, <2>2, LastName DEF d, dir
  <2> DEFINE x == Drop(name, d)
  <2>4. u = Append(q, x) /\ x \in S
    BY <1>5, <1>11, <2>3
  <2> HIDE DEF q, u, x, S
  <2>5. Len(u) = Len(q) + 1 /\ Len(q) \in Nat
    BY <1>13, <2>4
  <2>6. Front(u) = q
    <3>1. ASSUME NEW w \in Seq(S), NEW y \in S PROVE SubSeq(Append(w, y), 1, Len(Append(w, y)) - 1) = w
      <4> DEFINE v == Append(w, y)
                 t == SubSeq(v, 1, Len(w))
      <4>1. v \in Seq(S) /\ Len(v) = Len(w) + 1 /\ (\A i \in 1..Len(w) : v[i] = w[i]) /\ Len(w) \in Nat
        OBVIOUS
      <4> HIDE DEF v
      <4>2. Len(w) \in 0..Len(v) /\ Len(v) - 1 = Len(w)
        BY <4>1
      <4>3. t \in Seq(S) /\ Len(t) = Len(w) /\ \A i \in 1..Len(w) : t[i] = v[i]
        BY <4>1, <4>2, SubSeqPrefix
      <4> HIDE DEF t
      <4>4. \A i \in 1..Len(w) : t[i] = w[i]
        BY <4>1, <4>3
      <4>5. t = w
        BY <4>3, <4>4, SameElements
      <4> QED BY <4>2, <4>5 DEF t, v
    <3> QED BY <1>13, <2>4, <3>1 DEF Front
  <2>7. CASE rest = <<>>
    <3>1. q = <<>>
      BY <2>7, NoNames DEF q
    <3>2. Len(u) < 2
      BY <2>5, <3>1
    <3> QED BY <1>1, <2>7, <3>2 DEF u
  <2>8. CASE rest # <<>>
    <3>1. Len(rest) # 0 /\ Len(rest) \in 1..(Len(dir) - j) /\ j < Len(dir)
      BY <1>8, <1>10, <1>12, <2>8
    <3>2. rest[Len(rest)] # "/"
      BY <1>8, <1>10, <3>1 DEF Slash
    <3>3. Len(q) # 0
      <4> DEFINE r == Components(SubSeq(rest, 1, LastIn(rest, Slash)))
                 y == Drop(rest, LastIn(rest, Slash))
      <4>1. r \in Seq(Seq(T)) /\ y \in Seq(T) /\ q = Append(r, y)
        BY <1>10, <3>1, <3>2, LastName DEF q
      <4> HIDE DEF r, y
      <4>2. r \in Seq(S) /\ y \in S
        BY <4>1 DEF S
      <4>3. Len(q) = Len(r) + 1 /\ Len(r) \in Nat
        BY <4>1, <4>2
      <4> QED BY <4>3
    <3>4. ~(Len(u) < 2)
      BY <2>5, <3>3
    <3>5. PathParent(a) = rest
      BY <1>1, <2>8
    <3>6. Components(rest) = Front(Components(a))
      BY <2>6 DEF q, u
    <3>7. rest[1] = a[1]
      <4>1. 1 \in 1..(Len(dir) - j) /\ 1 \in 1..d /\ 1 \in 1..(L - k)
        BY <1>4, <1>6, <1>7, <1>8, <3>1
      <4> QED BY <1>4, <1>7, <1>10, <4>1
    <3>8. Head(rest) = "/" <=> Head(a) = "/"
      <4>1. rest # <<>> /\ a # <<>>
        BY <2>1, <2>8, <1>2
      <4>2. Head(rest) = rest[1] /\ Head(a) = a[1]
        BY <1>10, <4>1
      <4> QED BY <3>7, <4>2
    <3>9. Last(rest) # "/"
      BY <3>2 DEF Last
    <3> QED BY <3>4, <3>5, <3>6, <3>8, <3>9 DEF u
  <2> QED BY <2>7, <2>8
<1> QED BY <1>14, <1>15

\* Joining paths joins their names, and the parent of one has all but its last.
THEOREM PathsAreComposed ==
    ASSUME NullIsNoText, NEW T, NEW a \in Seq(T), NEW b \in Seq(T)
    PROVE  PathsCompose(a, b)
<1> DEFINE U == T \cup {"/"}
           names == Components(a)
<1>1. "/" \in U /\ a \in Seq(U) /\ b \in Seq(U)
  OBVIOUS
<1> HIDE DEF U
<1>2. names \in Seq(Seq(U)) /\ Components(b) \in Seq(Seq(U))
  BY <1>1, ComponentsAre
<1>3. /\ a = <<>> => PathJoin(a, b) = b
      /\ a # <<>> => \E x \in Seq(U) : PathJoin(a, b) = x \o (OneSlash \o b) /\ Components(x) = names
  BY <1>1, JoinedPaths
<1>4. Components(PathJoin(a, b)) = names \o Components(b) /\ PathExt(PathJoin(a, b)) = PathExt(b)
  <2>1. CASE a = <<>>
    <3>1. PathJoin(a, b) = b
      BY <1>3, <2>1
    <3>2. names = <<>>
      BY <1>1, <2>1, NoNames
    <3>3. <<>> \o Components(b) = Components(b)
      BY <1>2, ConcatEmpty
    <3> HIDE DEF names
    <3> QED BY <3>1, <3>2, <3>3
  <2>2. CASE a # <<>>
    <3> HIDE DEF names
    <3>1. PICK x \in Seq(U) : PathJoin(a, b) = x \o (OneSlash \o b) /\ Components(x) = names
      BY <1>3, <2>2
    <3>2. Components(x \o (OneSlash \o b)) = Components(x) \o Components(b)
      BY <1>1, ComponentsBehind
    <3>3. PathExt(x \o (OneSlash \o b)) = PathExt(b)
      BY <1>1, ExtensionBehind
    <3> QED BY <3>1, <3>2, <3>3
  <2> QED BY <2>1, <2>2
<1>5. IF Len(names) < 2 THEN PathParent(a) = <<".">>
      ELSE /\ Components(PathParent(a)) = Front(names)
           /\ Head(PathParent(a)) = "/" <=> Head(a) = "/"
           /\ Last(PathParent(a)) # "/"
  BY <1>1, ParentsAre
<1> QED BY <1>4, <1>5, Zenon DEF PathsCompose

------------------------------------------------------------------------------
\* A call that is made has arguments of its kind.
CallTyped ==
    /\ args.kind = "slice" => args.s \in Words /\ args.start \in Lengths /\ args.len \in Lengths
    /\ args.kind = "split" => args.s \in Words /\ args.d \in Delimiters
    /\ args.kind = "join" => args.a \in Delimiters /\ args.b \in Delimiters
    /\ args.kind = "format" => args.p \in Patterns
    /\ args.kind = "escape" => args.s \in SourceTexts
    /\ args.kind = "path" => args.a \in PathTexts /\ args.b \in PathTexts
    /\ args.kind = "arithmetic" => args.a \in Ints

\* It is an invariant: CallFunction takes the arguments from Arguments.
LEMMA CallsTyped == LibSpec => []CallTyped
<1>1. LibInit => CallTyped
  BY DEF LibInit, NoCall, CallTyped
<1>2. CallTyped /\ [LibNext]_lib_vars => CallTyped'
  <2>1. ASSUME args' \in Arguments PROVE CallTyped'
    <3> DEFINE x == args'
    <3>1. CASE x \in [kind : {"arithmetic"}, a : Ints, b : Ints]
      BY <3>1 DEF CallTyped
    <3>2. CASE x \in [kind : {"slice"}, s : Words, start : Lengths, len : Lengths]
      BY <3>2 DEF CallTyped
    <3>3. CASE x \in [kind : {"split"}, s : Words, d : Delimiters]
      BY <3>3 DEF CallTyped
    <3>4. CASE x \in [kind : {"join"}, a : Delimiters, b : Delimiters, sep : Delimiters]
      BY <3>4 DEF CallTyped
    <3>5. CASE x \in [kind : {"format"}, p : Patterns]
      BY <3>5 DEF CallTyped
    <3>6. CASE x \in [kind : {"escape"}, s : SourceTexts]
      BY <3>6 DEF CallTyped
    <3>7. CASE x \in [kind : {"path"}, a : PathTexts, b : PathTexts]
      BY <3>7 DEF CallTyped
    <3>8. CASE x \in [kind : {"bytes"}, bytes : ByteTexts]
      BY <3>8 DEF CallTyped
    <3>9. CASE x \in [kind : {"letters"}, letters : LetterTexts]
      BY <3>9 DEF CallTyped
    <3> QED BY <2>1, <3>1, <3>2, <3>3, <3>4, <3>5, <3>6, <3>7, <3>8, <3>9 DEF Arguments
  <2>2. ASSUME args' = NoCall PROVE CallTyped'
    BY <2>2 DEF CallTyped, NoCall
  <2>3. ASSUME CallTyped, args' = args PROVE CallTyped'
    BY <2>3 DEF CallTyped
  <2>4. [LibNext]_lib_vars => args' \in Arguments \/ args' = NoCall \/ args' = args
    BY DEF LibNext, CallFunction, FunctionReturns, lib_vars
  <2> QED BY <2>1, <2>2, <2>3, <2>4
<1> QED BY <1>1, <1>2, PTL DEF LibSpec

\* For every text the small runtimes answer as the full one, wherever RuntimesAgree
\* says so: for texts of any characters, paths without a backslash (a separator in
\* two of the runtimes), words whose length is an unsigned int, and integers of any
\* width.  The null pointer is no text.
THEOREM RuntimesAnswerAlike ==
    ASSUME NullIsNoText, UIntMod \in Nat, NEW Chars,
           Words \subseteq Seq(Chars), Delimiters \subseteq Seq(Chars),
           Patterns \subseteq Seq(Chars), PathTexts \subseteq Seq(Chars \ {"\\"}),
           Lengths \subseteq Nat, \A s \in Words : Len(s) < UIntMod
    PROVE  LibSpec => []RuntimesAgree
<1>1. CallTyped => RuntimesAgree
  <2>1. SUFFICES ASSUME CallTyped PROVE RuntimesAgree
    OBVIOUS
  <2>2. ASSUME args.kind = "slice", args.start + args.len < UIntMod
        PROVE  LET full == StrSlice(args.s, args.start, args.len)
               IN  /\ full = MinimalStrSlice(args.s, args.start, args.len)
                   /\ full = WinStrSlice(args.s, args.start, args.len)
                   /\ full = FsStrSlice(args.s, args.start, args.len)
    <3>1. args.s \in Seq(Chars) /\ args.start \in Nat /\ args.len \in Nat
      BY <2>1, <2>2 DEF CallTyped
    <3>2. MinimalStrSlice(args.s, args.start, args.len) = StrSlice(args.s, args.start, args.len)
      BY <2>2, <3>1, SlicesAgree
    <3> QED BY <3>2 DEF WinStrSlice, FsStrSlice
  <2>3. ASSUME args.kind = "slice"
        PROVE  Trim(args.s) = MinimalTrim(args.s) /\ Trim(args.s) = WinTrim(args.s)
               /\ Trim(args.s) = FsTrim(args.s)
    <3>1. args.s \in Seq(Chars) /\ Len(args.s) < UIntMod
      BY <2>1, <2>3 DEF CallTyped
    <3> QED BY <3>1, TrimsAgree DEF WinTrim
  <2>4. ASSUME args.kind = "split"
        PROVE  FsFind(args.s, args.d) = Find(args.s, args.d, 1)
    <3>1. args.s \in Seq(Chars) /\ args.d \in Seq(Chars)
      BY <2>1, <2>4 DEF CallTyped
    <3> QED BY <3>1, FindsAgree
  <2>5. ASSUME args.kind = "split", args.d # <<>>
        PROVE  /\ MinimalSplitCount(args.s, args.d) = SplitCount(args.s, args.d)
               /\ \A k \in 0..(Len(args.s) + 1) :
                     /\ MinimalSplitPart(args.s, args.d, k) = SplitPart(args.s, args.d, k)
                     /\ WinSplit(args.s, args.d, k)
                           = <<SplitCount(args.s, args.d), SplitPart(args.s, args.d, k)>>
    <3>1. args.s \in Seq(Chars) /\ args.d \in Seq(Chars)
      BY <2>1, <2>5 DEF CallTyped
    <3> QED BY <2>5, <3>1, WordsAgree
  <2>6. ASSUME args.kind = "join", args.a # <<>>, args.b # <<>>
        PROVE  \A thin \in {MinimalJoin2(args.a, args.b, args.sep), WinJoin2(args.a, args.b, args.sep),
                            FsJoin2(args.a, args.b, args.sep)} :
                   thin = Join2(args.a, args.b, args.sep)
    <3>1. args.a \in Seq(Chars) /\ args.b \in Seq(Chars)
      BY <2>1, <2>6 DEF CallTyped
    <3> QED BY <2>6, <3>1, JoinsAgree
  <2>7. ASSUME args.kind = "format", \A i \in 1..Len(args.p) : ~HoleAt(args.p, i)
        PROVE  LET none == [d \in Digit |-> Null]
               IN  \A thin \in {MinimalFormat(args.p, none), WinFormat(args.p, none),
                                FsFormat(args.p, none)} :
                       thin = StrFormat(args.p, none)
    <3>1. args.p \in Seq(Chars)
      BY <2>1, <2>7 DEF CallTyped
    <3> QED BY <2>7, <3>1, FormatsAgree
  <2>8. \A thin \in {MinimalEscape(args.s, Len(args.s)), WinEscape(args.s, Len(args.s))} :
            thin = EscapeCString(args.s, Len(args.s))
    BY DEF MinimalEscape, WinEscape
  <2>9. ASSUME args.kind = "path"
        PROVE  /\ MinimalPathJoin(args.a, args.b) = PathJoin(args.a, args.b)
               /\ MinimalPathParent(args.a) = PathParent(args.a)
               /\ MinimalPathExt(args.a) = PathExt(args.a)
               /\ WinPaths(args.a, args.b)
                     = <<PathJoin(args.a, args.b), PathParent(args.a), PathExt(args.a)>>
               /\ args.a # <<>> /\ Last(args.a) # "/"
                     => FsPathJoin(args.a, args.b) = PathJoin(args.a, args.b)
    <3> DEFINE T == Chars \ {"\\"}
    <3>1. args.a \in Seq(T) /\ args.b \in Seq(T) /\ "\\" \notin T
      BY <2>1, <2>9 DEF CallTyped
    <3> HIDE DEF T
    <3>2. /\ JoinWith(args.a, args.b, Slashes) = JoinWith(args.a, args.b, Slash)
          /\ args.a # <<>> /\ Last(args.a) # "/"
                => FsPathJoin(args.a, args.b) = JoinWith(args.a, args.b, Slash)
      BY <3>1, JoinsOfPaths
    <3>3. /\ ParentWith(args.a, Slashes) = ParentWith(args.a, Slash)
          /\ ExtWith(args.a, Slashes) = ExtWith(args.a, Slash)
      BY <3>1, ParentsOfPaths, ExtensionsOfPaths
    <3> QED BY <3>2, <3>3 DEF MinimalPathJoin, MinimalPathParent, MinimalPathExt, WinPaths,
               PathJoin, PathParent, PathExt
  <2>10. ASSUME args.kind = "arithmetic"
         PROVE  /\ args.a # MinInt => FsIntToStr(args.a) = IntToStr(args.a)
                /\ FsStrToInt(IntToStr(args.a)) = args.a
                /\ NegChecked(args.a) # Panic => AbsI64(args.a) = Magnitude(args.a)
    <3>1. args.a \in Ints
      BY <2>1, <2>10 DEF CallTyped
    <3> QED BY <3>1, NumbersReadBack
  <2> QED
    BY <2>2, <2>3, <2>4, <2>5, <2>6, <2>7, <2>8, <2>9, <2>10, Zenon DEF RuntimesAgree
<1> QED BY <1>1, CallsTyped, PTL

\* TextMeetsReference holds of the calls with any texts over any characters: rt/
\* runtime.c's bux_strings_slice, _trim and _split, bux_str_format, bux_path_join,
\* _parent and _ext, bux_escape_c_string, and integers as text.  The patterns of the
\* reference have no holes but {0} and {1}.
THEOREM TextsMeetTheirReferences ==
    ASSUME NullIsNoText, NEW Chars,
           Words \subseteq Seq(Chars), Delimiters \subseteq Seq(Chars),
           Patterns \subseteq Seq(Chars), SourceTexts \subseteq Seq(Chars),
           PathTexts \subseteq Seq(Chars), Lengths \subseteq Nat,
           \A p \in Patterns : OnlyTwoHoles(p)
    PROVE  LibSpec => []TextMeetsReference
<1>1. CallTyped => TextMeetsReference
  <2>1. SUFFICES ASSUME CallTyped PROVE TextMeetsReference
    OBVIOUS
  <2>2. ASSUME args.kind = "slice" PROVE SliceIsWindow(args.s, args.start, args.len)
    <3>1. args.s \in Seq(Chars) /\ args.start \in Nat /\ args.len \in Nat
      BY <2>1, <2>2 DEF CallTyped
    <3> QED BY <3>1, SlicesAreWindows
  <2>3. ASSUME args.kind = "split" PROVE SplitInverts(args.s, args.d)
    <3>1. args.s \in Seq(Chars) /\ args.d \in Seq(Chars)
      BY <2>1, <2>3 DEF CallTyped
    <3> QED BY <3>1, SplitsInvert
  <2>4. ASSUME args.kind = "format" PROVE FormatExpands(args.p)
    <3>1. args.p \in Seq(Chars) /\ OnlyTwoHoles(args.p)
      BY <2>1, <2>4 DEF CallTyped
    <3> QED BY <3>1, FormatsExpand
  <2>5. ASSUME args.kind = "path" PROVE PathsCompose(args.a, args.b)
    <3>1. args.a \in Seq(Chars) /\ args.b \in Seq(Chars)
      BY <2>1, <2>5 DEF CallTyped
    <3> QED BY <3>1, PathsAreComposed
  <2>6. ASSUME args.kind = "escape"
        PROVE  /\ CReads(EscapeCString(args.s, Len(args.s))) = args.s
               /\ Len(EscapeCString(args.s, Len(args.s))) <= 2 * Len(args.s)
    <3>1. args.s \in Seq(Chars)
      BY <2>1, <2>6 DEF CallTyped
    <3> QED BY <3>1, EscapesRead
  <2>7. ASSUME args.kind = "arithmetic" PROVE StrToInt(IntToStr(args.a)) = args.a
    <3>1. args.a \in Ints
      BY <2>1, <2>7 DEF CallTyped
    <3> QED BY <3>1, NumbersReadBack
  <2> QED BY <2>2, <2>3, <2>4, <2>5, <2>6, <2>7, Zenon DEF TextMeetsReference
<1> QED BY <1>1, CallsTyped, PTL
=================================================================================
