------------------------------- MODULE DataLemmas -------------------------------
(***************************************************************************)
(* Facts about data that the proofs share.  First induction over the        *)
(* natural numbers, stated with a set where a reader expects a predicate:   *)
(* {n \in Nat : P(n)} is such a set for every P.  It gives the equation of  *)
(* a function that is defined by recursion.  Then least and greatest        *)
(* elements, and how often a value is in a sequence, as the cardinality of  *)
(* the set of its positions, and what appending and taking the head do to   *)
(* that number.  Last the elements of sequences cut, joined, reversed and   *)
(* flattened, and cuts that meet, of cuts, and of sequences joined to one.  *)
(***************************************************************************)
EXTENDS Integers, Sequences, SequencesExt, FiniteSets, FiniteSetTheorems,
        FunctionTheorems, WellFoundedInduction, TLAPS

\* Every set of natural numbers with an element has a least one.
LEMMA LeastNumber ==
    ASSUME NEW S \in SUBSET Nat, S # {}
    PROVE  \E m \in S : \A n \in S : m <= n
<1> DEFINE Less == OpToRel(<, Nat)
<1>1. IsWellFoundedOn(Less, Nat)
  BY NatLessThanWellFounded
<1>2. Less = {p \in Nat \X Nat : p[1] < p[2]}
  BY DEF OpToRel
<1> HIDE DEF Less
<1>3. PICK m \in S : \A n \in S : ~(<<n, m>> \in Less)
  BY <1>1, WFMin, Zenon
<1>4. \A n \in S : ~(n < m)
  BY <1>2, <1>3
<1>. QED  BY <1>4

\* Induction.
LEMMA SetInduction ==
    ASSUME NEW S, 0 \in S, \A n \in Nat : n \in S => n + 1 \in S
    PROVE  Nat \subseteq S
<1>1. SUFFICES ASSUME Nat \ S # {} PROVE FALSE
  OBVIOUS
<1>2. PICK m \in Nat \ S : \A n \in Nat \ S : m <= n
  BY <1>1, LeastNumber
<1>3. m # 0 /\ m - 1 \in Nat /\ m - 1 \notin Nat \ S
  BY <1>2
<1>4. (m - 1) + 1 \in S
  BY <1>3
<1>. QED  BY <1>2, <1>3, <1>4

\* A function on 0..n whose values each come from the one before, by a step F.
\* (The definitions keep the quantifiers of the lemma out of the provers' way.)
StepsOn(F, n, S) == F \in [1..n -> [S -> S]]

StepsFrom(f, F, n, S, b) ==
    f \in [0..n -> S] /\ f[0] = b /\ \A i \in 1..n : f[i] = F[i][f[i - 1]]

LEMMA RecursionExists ==
    ASSUME NEW n \in Nat, NEW S, NEW b \in S, NEW F, StepsOn(F, n, S)
    PROVE  \E f : StepsFrom(f, F, n, S, b)
<1> USE DEF StepsOn
<1> DEFINE Is(f, m) == f \in [0..m -> S] /\ f[0] = b /\ \A i \in 1..m : f[i] = F[i][f[i - 1]]
           T == {m \in Nat : m <= n => \E f : Is(f, m)}
<1>1. 0 \in T
  <2>1. Is([i \in 0..0 |-> b], 0)
    OBVIOUS
  <2>. QED  BY <2>1
<1>2. ASSUME NEW m \in Nat, m \in T PROVE m + 1 \in T
  <2>1. SUFFICES ASSUME m + 1 <= n PROVE \E f : Is(f, m + 1)
    OBVIOUS
  <2>2. PICK f : Is(f, m)
    BY <1>2, <2>1
  <2>3. f[m] \in S /\ F[m + 1][f[m]] \in S
    BY <2>1, <2>2
  <2> DEFINE g == [i \in 0..(m + 1) |-> IF i = m + 1 THEN F[m + 1][f[m]] ELSE f[i]]
  <2>4. g \in [0..(m + 1) -> S] /\ g[0] = b
    BY <2>2, <2>3
  <2>5. ASSUME NEW i \in 1..(m + 1) PROVE g[i] = F[i][g[i - 1]]
    <3>1. CASE i = m + 1
      <4>1. i - 1 = m /\ i - 1 \in 0..(m + 1) /\ i - 1 # m + 1
        BY <3>1
      <4>2. g[i] = F[m + 1][f[m]] /\ g[i - 1] = f[m]
        BY <3>1, <4>1
      <4>. QED  BY <3>1, <4>2
    <3>2. CASE i # m + 1
      <4>1. i \in 1..m /\ i - 1 \in 0..(m + 1) /\ i - 1 # m + 1
        BY <3>2
      <4>2. g[i] = f[i] /\ g[i - 1] = f[i - 1]
        BY <3>2, <4>1
      <4>. QED  BY <2>2, <4>1, <4>2
    <3>. QED  BY <3>1, <3>2
  <2>. QED  BY <2>4, <2>5
<1> HIDE DEF T
<1>3. Nat \subseteq T
  BY <1>1, <1>2, SetInduction
<1>4. PICK f : Is(f, n)
  BY <1>3 DEF T
<1>. QED  BY <1>4 DEF StepsFrom

\* Two functions computed by the same steps agree as far as both go.
SameSteps(f, F, g, G, n) ==
    /\ f[0] = g[0]
    /\ \A i \in 1..n : F[i] = G[i] /\ f[i] = F[i][f[i - 1]] /\ g[i] = G[i][g[i - 1]]

LEMMA RunsAgree ==
    ASSUME NEW n \in Nat, NEW F, NEW G, NEW f, NEW g, SameSteps(f, F, g, G, n)
    PROVE  \A i \in 0..n : f[i] = g[i]
<1> DEFINE U == {i \in Nat : i <= n => f[i] = g[i]}
<1>1. 0 \in U
  BY DEF SameSteps
<1>2. ASSUME NEW i \in Nat, i \in U PROVE i + 1 \in U
  <2>1. SUFFICES ASSUME i + 1 <= n PROVE f[i + 1] = g[i + 1]
    OBVIOUS
  <2>2. i + 1 \in 1..n /\ (i + 1) - 1 = i /\ i <= n
    BY <2>1
  <2>3. f[i + 1] = F[i + 1][f[(i + 1) - 1]] /\ g[i + 1] = G[i + 1][g[(i + 1) - 1]]
    BY <2>2 DEF SameSteps
  <2>4. f[i] = g[i]
    BY <1>2, <2>2
  <2> QED BY <2>2, <2>3, <2>4 DEF SameSteps
<1> HIDE DEF U
<1>3. Nat \subseteq U
  BY <1>1, <1>2, SetInduction
<1> QED BY <1>3 DEF U

\* A function on 0..n each of whose values comes from all the ones before it.
Below(F, n, S) ==
    /\ F \in [0..n -> [[0..n -> S] -> S]]
    /\ \A i \in 0..n : \A g, h \in [0..n -> S] :
          (\A j \in 0..(i - 1) : g[j] = h[j]) => F[i][g] = F[i][h]

Computes(F, n, S) == \E f \in [0..n -> S] : \A i \in 0..n : f[i] = F[i][f]

\* Such a function there is, and it satisfies its equations.
LEMMA CourseOfValues ==
    ASSUME NEW n \in Nat, NEW S, S # {}, NEW F, Below(F, n, S)
    PROVE  Computes(F, n, S)
<1> DEFINE A == [0..n -> S]
           G == [i \in 1..(n + 1) |-> [g \in A |-> [g EXCEPT ![i - 1] = F[i - 1][g]]]]
<1>1. PICK s \in S : TRUE
  OBVIOUS
<1> DEFINE b == [i \in 0..n |-> s]
<1>2. b \in A
  OBVIOUS
<1>3. \A i \in 0..n : \A g \in A : F[i][g] \in S
  BY DEF Below
<1>11. ASSUME NEW i \in 0..n, NEW g \in A, NEW k \in A, \A j \in 0..(i - 1) : g[j] = k[j]
      PROVE  F[i][g] = F[i][k]
  BY <1>11 DEF Below
<1>4. StepsOn(G, n + 1, A)
  <2>1. \A i \in 1..(n + 1) : i - 1 \in 0..n
    OBVIOUS
  <2>2. ASSUME NEW i \in 1..(n + 1), NEW g \in A PROVE [g EXCEPT ![i - 1] = F[i - 1][g]] \in A
    BY <1>3, <2>1
  <2>3. \A i \in 1..(n + 1) : [g \in A |-> [g EXCEPT ![i - 1] = F[i - 1][g]]] \in [A -> A]
    BY <2>2
  <2> HIDE DEF A
  <2> QED BY <2>3 DEF StepsOn
<1>5. PICK h : StepsFrom(h, G, n + 1, A, b)
  <2> HIDE DEF A, G, b
  <2> QED BY <1>2, <1>4, RecursionExists
<1>6. ASSUME NEW i \in 0..n
      PROVE  h[i] \in A /\ h[i + 1] \in A /\ h[i + 1] = [h[i] EXCEPT ![i] = F[i][h[i]]]
  <2>1. i + 1 \in 1..(n + 1) /\ (i + 1) - 1 = i /\ i \in 0..(n + 1) /\ i + 1 \in 0..(n + 1)
    OBVIOUS
  <2>2. h[i] \in A /\ h[i + 1] \in A /\ h[i + 1] = G[i + 1][h[(i + 1) - 1]]
    <3> HIDE DEF A, G
    <3> QED BY <1>5, <2>1 DEF StepsFrom
  <2>3. \A x \in A : G[i + 1][x] = [x EXCEPT ![i] = F[i][x]]
    <3> HIDE DEF A
    <3> QED BY <2>1
  <2> HIDE DEF A, G
  <2> QED BY <2>1, <2>2, <2>3
<1> DEFINE U == {m \in Nat : m <= n + 1 => \A j \in 0..(m - 1) : h[m][j] = F[j][h[m]]}
<1>7. 0 \in U
  OBVIOUS
<1>8. ASSUME NEW m \in Nat, m \in U PROVE m + 1 \in U
  <2>1. SUFFICES ASSUME m + 1 <= n + 1, NEW j \in 0..m PROVE h[m + 1][j] = F[j][h[m + 1]]
    <3>1. (m + 1) - 1 = m
      OBVIOUS
    <3> QED BY <3>1
  <2>2. m \in 0..n /\ j \in 0..n /\ m <= n + 1
    BY <2>1
  <2>3. h[m] \in A /\ h[m + 1] \in A /\ h[m + 1] = [h[m] EXCEPT ![m] = F[m][h[m]]]
    BY <1>6, <2>2
  <2>4. \A i \in 0..(m - 1) : h[m + 1][i] = h[m][i]
    BY <2>2, <2>3
  <2>5. h[m + 1][m] = F[m][h[m]]
    BY <2>2, <2>3
  <2>6. F[j][h[m]] = F[j][h[m + 1]]
    <3>1. \A i \in 0..(j - 1) : h[m][i] = h[m + 1][i]
      <4>1. \A i \in 0..(j - 1) : i \in 0..(m - 1)
        BY <2>1
      <4> QED BY <2>4, <4>1
    <3> HIDE DEF A
    <3> QED BY <2>2, <2>3, <3>1, <1>11
  <2>7. CASE j = m
    BY <2>5, <2>6, <2>7
  <2>8. CASE j # m
    <3>1. j \in 0..(m - 1)
      BY <2>1, <2>8
    <3>2. h[m][j] = F[j][h[m]]
      BY <1>8, <2>2, <3>1
    <3> QED BY <2>4, <2>6, <3>1, <3>2
  <2> QED BY <2>7, <2>8
<1> HIDE DEF U
<1>9. Nat \subseteq U
  BY <1>7, <1>8, SetInduction
<1>10. h[n + 1] \in A /\ \A j \in 0..n : h[n + 1][j] = F[j][h[n + 1]]
  <2>1. n + 1 \in U /\ n + 1 <= n + 1 /\ (n + 1) - 1 = n
    BY <1>9
  <2>2. h[n + 1] \in A
    <3>1. n \in 0..n
      OBVIOUS
    <3> HIDE DEF A
    <3> QED BY <1>6, <3>1
  <2> QED BY <2>1, <2>2 DEF U
<1> QED BY <1>10 DEF Computes

\* The least and the greatest element.
LEMMA MinOf ==
    ASSUME NEW S \in SUBSET Nat, S # {}
    PROVE  Min(S) \in S /\ \A n \in S : Min(S) <= n
<1>1. \E m \in S : \A n \in S : m <= n
  BY LeastNumber
<1> QED BY <1>1 DEF Min

LEMMA MaxOf ==
    ASSUME NEW N \in Nat, NEW S \in SUBSET (0..N), S # {}
    PROVE  Max(S) \in S /\ \A n \in S : n <= Max(S)
<1> DEFINE T == {N - n : n \in S}
<1>1. T \in SUBSET Nat /\ T # {}
  <2>1. \A n \in S : n \in 0..N
    OBVIOUS
  <2>2. \A n \in 0..N : N - n \in Nat
    OBVIOUS
  <2>3. PICK n \in S : TRUE
    OBVIOUS
  <2>4. N - n \in T
    OBVIOUS
  <2> QED BY <2>1, <2>2, <2>4
<1>2. PICK m \in T : \A k \in T : m <= k
  BY <1>1, LeastNumber
<1>3. PICK x \in S : m = N - x
  BY <1>2
<1>4. \A n \in S : x >= n
  <2>1. ASSUME NEW n \in S PROVE x >= n
    <3>1. N - x <= N - n
      BY <1>2, <1>3
    <3> QED BY <3>1
  <2> QED BY <2>1
<1>5. Max(S) \in S /\ \A n \in S : Max(S) >= n
  <2>1. \E y \in S : \A n \in S : y >= n
    BY <1>4
  <2> QED BY <2>1 DEF Max
<1>6. Max(S) \in Nat /\ \A n \in S : n \in Nat
  <2>1. \A n \in S : n \in 0..N
    OBVIOUS
  <2>2. \A n \in 0..N : n \in Nat
    OBVIOUS
  <2> QED BY <1>5, <2>1, <2>2
<1> QED BY <1>5, <1>6

\* Of two.
LEMMA MinOfTwo ==
    ASSUME NEW a \in Nat, NEW b \in Nat
    PROVE  Min({a, b}) = IF a <= b THEN a ELSE b
<1>1. {a, b} \in SUBSET Nat /\ {a, b} # {}
  OBVIOUS
<1>2. Min({a, b}) \in {a, b} /\ \A n \in {a, b} : Min({a, b}) <= n
  BY <1>1, MinOf
<1> QED BY <1>2

------------------------------------------------------------------------------
At(q, e) == {i \in 1..Len(q) : q[i] = e}

\* It is a number, and 0 when the value is nowhere.
LEMMA AtIsFinite ==
    ASSUME NEW S, NEW q \in Seq(S), NEW e
    PROVE  /\ IsFiniteSet(At(q, e)) /\ Cardinality(At(q, e)) \in Nat
           /\ Cardinality(At(q, e)) = 0 <=> At(q, e) = {}
<1>1. IsFiniteSet(1..Len(q))
  BY FS_Interval
<1>2. At(q, e) \in SUBSET (1..Len(q))
  BY DEF At
<1>3. IsFiniteSet(At(q, e))
  BY <1>1, <1>2, FS_Subset
<1>. QED  BY <1>3, FS_CardinalityType, FS_EmptySet

\* An appended value counts once more, the others as before.
LEMMA AtAppend ==
    ASSUME NEW S, NEW q \in Seq(S), NEW x \in S, NEW e
    PROVE  Cardinality(At(Append(q, x), e)) =
              IF x = e THEN Cardinality(At(q, e)) + 1 ELSE Cardinality(At(q, e))
<1>1. /\ Len(q) \in Nat /\ Len(Append(q, x)) = Len(q) + 1
      /\ \A i \in 1..Len(q) : Append(q, x)[i] = q[i]
      /\ Append(q, x)[Len(q) + 1] = x
  OBVIOUS
<1>2. CASE x = e
  <2>1. At(Append(q, x), e) = At(q, e) \cup {Len(q) + 1}
    BY <1>1, <1>2 DEF At
  <2>2. Len(q) + 1 \notin At(q, e)
    BY <1>1 DEF At
  <2>3. IsFiniteSet(At(q, e))
    BY AtIsFinite
  <2>4. Cardinality(At(q, e) \cup {Len(q) + 1}) = Cardinality(At(q, e)) + 1
    BY <2>2, <2>3, FS_AddElement
  <2>. QED  BY <1>2, <2>1, <2>4
<1>3. CASE x # e
  <2>1. At(Append(q, x), e) = At(q, e)
    BY <1>1, <1>3 DEF At
  <2>. QED  BY <1>3, <2>1
<1>. QED  BY <1>2, <1>3

\* The positions behind the head move down by one.
LEMMA AtTail ==
    ASSUME NEW S, NEW q \in Seq(S), q # <<>>, NEW e
    PROVE  Cardinality(At(Tail(q), e)) =
              IF Head(q) = e THEN Cardinality(At(q, e)) - 1 ELSE Cardinality(At(q, e))
<1>1. /\ Len(q) \in Nat /\ Len(q) >= 1 /\ Len(Tail(q)) = Len(q) - 1
      /\ \A i \in 1..(Len(q) - 1) : Tail(q)[i] = q[i + 1]
      /\ Head(q) = q[1]
  OBVIOUS
<1> DEFINE A == At(q, e) \ {1}
           B == At(Tail(q), e)
           f == [i \in A |-> i - 1]
<1>2. IsFiniteSet(A) /\
      Cardinality(A) = IF 1 \in At(q, e) THEN Cardinality(At(q, e)) - 1 ELSE Cardinality(At(q, e))
  <2>1. IsFiniteSet(At(q, e))
    BY AtIsFinite
  <2>. QED  BY <2>1, FS_RemoveElement
<1>3. 1 \in At(q, e) <=> Head(q) = e
  BY <1>1 DEF At
<1>4. \A i \in A : i - 1 \in B
  BY <1>1 DEF At
<1>5. \A j \in B : j + 1 \in A /\ (j + 1) - 1 = j
  BY <1>1 DEF At
<1>6. \A i, j \in A : i - 1 = j - 1 => i = j
  BY <1>1 DEF At
<1> HIDE DEF A, B
<1>7. f \in Injection(A, B)
  BY <1>4, <1>6 DEF Injection, IsInjective
<1>8. f \in Surjection(A, B)
  BY <1>4, <1>5 DEF Surjection
<1>9. ExistsBijection(A, B)
  BY <1>7, <1>8 DEF ExistsBijection, Bijection
<1>10. Cardinality(B) = Cardinality(A)
  BY <1>2, <1>9, FS_Bijection
<1>. QED  BY <1>2, <1>3, <1>10 DEF B

\* Moving the head to the end changes no count.
LEMMA AtRotate ==
    ASSUME NEW S, NEW q \in Seq(S), q # <<>>, NEW e
    PROVE  Cardinality(At(Append(Tail(q), Head(q)), e)) = Cardinality(At(q, e))
<1> DEFINE r == Tail(q)
           x == Head(q)
<1>1. r \in Seq(S) /\ x \in S
  OBVIOUS
<1>2. Cardinality(At(r, e)) = IF x = e THEN Cardinality(At(q, e)) - 1 ELSE Cardinality(At(q, e))
  BY AtTail
<1>3. Cardinality(At(q, e)) \in Nat
  BY AtIsFinite
<1> HIDE DEF r, x
<1>4. Cardinality(At(Append(r, x), e)) = IF x = e THEN Cardinality(At(r, e)) + 1 ELSE Cardinality(At(r, e))
  BY <1>1, AtAppend
<1>5. Cardinality(At(Append(r, x), e)) = Cardinality(At(q, e))
  BY <1>2, <1>3, <1>4
<1>. QED  BY <1>5 DEF r, x

------------------------------------------------------------------------------
\* The elements of a sequence, one by one, and back.
LEMMA ElementsOf ==
    ASSUME NEW T, NEW s \in Seq(T)
    PROVE  Len(s) \in Nat /\ \A j \in 1..Len(s) : s[j] \in T
  OBVIOUS

LEMMA SeqOver ==
    ASSUME NEW S, NEW T, NEW s \in Seq(S), \A j \in 1..Len(s) : s[j] \in T
    PROVE  s \in Seq(T)
  OBVIOUS

\* A sequence cut in two after m elements.
LEMMA SubSeqPrefix ==
    ASSUME NEW T, NEW s \in Seq(T), NEW m \in 0..Len(s)
    PROVE  /\ SubSeq(s, 1, m) \in Seq(T) /\ Len(SubSeq(s, 1, m)) = m
           /\ \A j \in 1..m : SubSeq(s, 1, m)[j] = s[j]
  OBVIOUS

LEMMA SubSeqRest ==
    ASSUME NEW T, NEW s \in Seq(T), NEW m \in 0..Len(s)
    PROVE  /\ SubSeq(s, m + 1, Len(s)) \in Seq(T) /\ Len(SubSeq(s, m + 1, Len(s))) = Len(s) - m
           /\ \A j \in 1..(Len(s) - m) : SubSeq(s, m + 1, Len(s))[j] = s[m + j]
<1> DEFINE u == SubSeq(s, m + 1, Len(s))
<1>1. u \in Seq(T) /\ Len(u) = Len(s) - m
  OBVIOUS
<1>2. ASSUME NEW j \in 1..(Len(s) - m) PROVE u[j] = s[m + j]
  <2>1. u[j] = s[(m + 1) + j - 1]
    OBVIOUS
  <2>2. (m + 1) + j - 1 = m + j
    OBVIOUS
  <2> QED BY <2>1, <2>2
<1> QED BY <1>1, <1>2

\* One element more.
LEMMA AppendIs ==
    ASSUME NEW T, NEW s \in Seq(T), NEW x
    PROVE  /\ Len(Append(s, x)) = Len(s) + 1 /\ Append(s, x)[Len(s) + 1] = x
           /\ \A i \in 1..Len(s) : Append(s, x)[i] = s[i]
  OBVIOUS

\* Sequences are equal when their elements are.
LEMMA SameElements ==
    ASSUME NEW S, NEW T, NEW s \in Seq(S), NEW t \in Seq(T), Len(s) = Len(t),
           \A i \in 1..Len(t) : s[i] = t[i]
    PROVE  s = t
  OBVIOUS

\* The whole, the reverse, and one behind the other.
LEMMA WholeSlice ==
    ASSUME NEW T, NEW s \in Seq(T)
    PROVE  SubSeq(s, 1, Len(s)) = s
<1>1. Len(s) \in Nat /\ Len(s) \in 0..Len(s)
  OBVIOUS
<1>2. SubSeq(s, 1, Len(s)) \in Seq(T) /\ Len(SubSeq(s, 1, Len(s))) = Len(s)
      /\ \A j \in 1..Len(s) : SubSeq(s, 1, Len(s))[j] = s[j]
  BY <1>1, SubSeqPrefix
<1> QED BY <1>2, SameElements

LEMMA ReverseIs ==
    ASSUME NEW T, NEW s \in Seq(T)
    PROVE  /\ Reverse(s) \in Seq(T) /\ Len(Reverse(s)) = Len(s) /\ Len(s) \in Nat
           /\ \A i \in 1..Len(s) : Reverse(s)[i] = s[Len(s) - i + 1] /\ Len(s) - i + 1 \in 1..Len(s)
<1>1. Len(s) \in Nat /\ \A i \in 1..Len(s) : Len(s) - i + 1 \in 1..Len(s)
  OBVIOUS
<1>2. Reverse(s) = [i \in 1..Len(s) |-> s[(Len(s) - i) + 1]]
  BY DEF Reverse
<1>3. \A i \in 1..Len(s) : s[(Len(s) - i) + 1] \in T
  BY <1>1, ElementsOf
<1>4. Reverse(s) \in Seq(T) /\ Len(Reverse(s)) = Len(s)
  BY <1>1, <1>2, <1>3
<1>5. \A i \in 1..Len(s) : Reverse(s)[i] = s[Len(s) - i + 1]
  BY <1>2
<1> QED BY <1>1, <1>4, <1>5

LEMMA ConcatIs ==
    ASSUME NEW T, NEW s \in Seq(T), NEW t \in Seq(T)
    PROVE  /\ s \o t \in Seq(T) /\ Len(s \o t) = Len(s) + Len(t)
           /\ \A i \in 1..Len(s) : (s \o t)[i] = s[i]
           /\ \A j \in 1..Len(t) : (s \o t)[Len(s) + j] = t[j]
<1>1. s \o t \in Seq(T) /\ Len(s \o t) = Len(s) + Len(t) /\ Len(s) \in Nat /\ Len(t) \in Nat
  OBVIOUS
<1>2. \A i \in 1..Len(s) : (s \o t)[i] = s[i]
  OBVIOUS
<1>3. ASSUME NEW j \in 1..Len(t) PROVE (s \o t)[Len(s) + j] = t[j]
  <2>1. \A i \in (Len(s) + 1)..(Len(s) + Len(t)) : (s \o t)[i] = t[i - Len(s)]
    OBVIOUS
  <2>2. Len(s) + j \in (Len(s) + 1)..(Len(s) + Len(t)) /\ (Len(s) + j) - Len(s) = j
    BY <1>1
  <2> QED BY <2>1, <2>2
<1> QED BY <1>1, <1>2, <1>3

\* Quotient and remainder.
LEMMA DivMod ==
    ASSUME NEW x \in Nat, NEW k \in Nat \ {0}
    PROVE  x \div k \in Nat /\ x % k \in 0..(k - 1) /\ x % k = x - k * (x \div k)
<1>1. x \div k \in Nat
  OBVIOUS
<1>2. x % k \in 0..(k - 1)
  OBVIOUS
<1>3. x % k = x - k * (x \div k)
  OBVIOUS
<1> QED BY <1>1, <1>2, <1>3

------------------------------------------------------------------------------
\* FlattenSeq puts the elements of a sequence of sequences one behind the other.
FlatSteps(f, seqs) ==
    /\ f[1] = seqs[1]
    /\ \A i \in 2..Len(seqs) : f[i] = f[i - 1] \o seqs[i]

\* FlattenSeq is the last of the prefixes that FlatSteps describes.
LEMMA FlattenSteps ==
    ASSUME NEW T, NEW seqs \in Seq(Seq(T)), Len(seqs) # 0
    PROVE  \E f \in [1..Len(seqs) -> Seq(T)] :
              FlatSteps(f, seqs) /\ FlattenSeq(seqs) = f[Len(seqs)]
<1> DEFINE n == Len(seqs)
           S == Seq(T)
           F == [i \in 1..n |-> [x \in S |-> x \o seqs[i]]]
           Eqn(g) == g = [i \in 1..Len(seqs) |->
                            IF i = 1 THEN seqs[i] ELSE g[i - 1] \o seqs[i]]
<1>1. n \in Nat /\ n >= 1 /\ <<>> \in S /\ \A i \in 1..n : seqs[i] \in S
  OBVIOUS
<1>2. PICK f \in [0..n -> S] : f[0] = <<>> /\ \A i \in 1..n : f[i] = F[i][f[i - 1]]
  <2>1. F \in [1..n -> [S -> S]]
    <3>1. \A x, y \in S : x \o y \in S
      OBVIOUS
    <3> QED BY <1>1, <3>1
  <2> HIDE DEF F, S, n
  <2>2. StepsOn(F, n, S)
    BY <2>1 DEF StepsOn
  <2>3. \E h : StepsFrom(h, F, n, S, <<>>)
    BY <1>1, <2>2, RecursionExists
  <2> QED BY <2>3 DEF StepsFrom
<1>3. ASSUME NEW i \in 1..n
      PROVE  f[i] \in S /\ f[i] = IF i = 1 THEN seqs[i] ELSE f[i - 1] \o seqs[i]
  <2>1. i - 1 \in 0..n /\ i \in 0..n
    BY <1>1
  <2>2. f[i] = f[i - 1] \o seqs[i] /\ f[i - 1] \in S /\ f[i] \in S
    BY <1>1, <1>2, <2>1
  <2>3. \A x \in S : <<>> \o x = x
    OBVIOUS
  <2>4. CASE i = 1
    <3>1. f[i - 1] = <<>> /\ seqs[i] \in S
      <4>1. i - 1 = 0
        BY <2>4
      <4> QED BY <1>1, <1>2, <4>1
    <3>2. f[i] = seqs[i]
      BY <2>2, <2>3, <3>1
    <3> QED BY <2>2, <2>4, <3>2
  <2> QED BY <2>2, <2>4
<1> DEFINE g0 == [i \in 1..n |-> f[i]]
<1>4. Eqn(g0)
  <2>1. ASSUME NEW i \in 1..n PROVE i # 1 => i - 1 \in 1..n
    BY <1>1
  <2>2. \A i \in 1..n : g0[i] = IF i = 1 THEN seqs[i] ELSE g0[i - 1] \o seqs[i]
    BY <1>3, <2>1
  <2> HIDE DEF S
  <2> QED BY <2>2
<1> DEFINE g == CHOOSE h : Eqn(h)
<1>5. Eqn(g)
  <2> HIDE DEF Eqn
  <2> QED BY <1>4
<1>6. FlattenSeq(seqs) = g[n]
  BY DEF FlattenSeq
<1> HIDE DEF g
<1> DEFINE U == {i \in Nat : i + 1 <= n => g[i + 1] \in S}
<1>7. Nat \subseteq U
  <2>1. 0 \in U
    BY <1>1, <1>5
  <2>2. ASSUME NEW i \in Nat, i \in U PROVE i + 1 \in U
    <3>1. SUFFICES ASSUME (i + 1) + 1 <= n PROVE g[(i + 1) + 1] \in S
      OBVIOUS
    <3>2. (i + 1) + 1 \in 1..n /\ (i + 1) + 1 # 1 /\ ((i + 1) + 1) - 1 = i + 1 /\ i + 1 <= n
      BY <1>1, <3>1
    <3>3. g[(i + 1) + 1] = g[((i + 1) + 1) - 1] \o seqs[(i + 1) + 1]
      BY <1>5, <3>2
    <3>4. g[i + 1] \in S
      BY <2>2, <3>2
    <3>5. \A x, y \in S : x \o y \in S
      OBVIOUS
    <3> QED BY <1>1, <3>2, <3>3, <3>4, <3>5
  <2> HIDE DEF U
  <2> QED BY <2>1, <2>2, SetInduction
<1>8. ASSUME NEW i \in 1..n PROVE g[i] \in S
  <2>1. i - 1 \in Nat /\ (i - 1) + 1 = i /\ i <= n
    BY <1>1
  <2> QED BY <1>7, <2>1
<1>9. g \in [1..n -> S]
  BY <1>5, <1>8
<1>10. FlatSteps(g, seqs)
  <2>1. \A i \in 2..n : i \in 1..n /\ i # 1
    OBVIOUS
  <2>2. 1 \in 1..n
    BY <1>1
  <2>3. \A i \in 1..n : g[i] = IF i = 1 THEN seqs[i] ELSE g[i - 1] \o seqs[i]
    BY <1>5
  <2> HIDE DEF n
  <2>4. g[1] = seqs[1] /\ \A i \in 2..n : g[i] = g[i - 1] \o seqs[i]
    BY <2>1, <2>2, <2>3
  <2> QED BY <2>4 DEF FlatSteps, n
<1> QED BY <1>6, <1>9, <1>10

\* Chunks of the same length c, the last of any length: chunk k starts behind c * (k - 1).
Chunked(s, seqs, c, i) ==
    /\ Len(s) = c * (i - 1) + Len(seqs[i])
    /\ \A k \in 1..i : \A r \in 1..Len(seqs[k]) : s[c * (k - 1) + r] = seqs[k][r]

\* The places of the first m chunks are 1..(c * m).
LEMMA ChunkBounds ==
    ASSUME NEW c \in Nat, NEW m \in Nat \ {0}
    PROVE  /\ c * m \in Nat /\ c * (m - 1) + c = c * m
           /\ \A k \in 1..m : \A r \in 1..c : c * (k - 1) + r \in 1..(c * m)
<1>1. c * m \in Nat /\ c * (m - 1) + c = c * m
  OBVIOUS
<1>2. ASSUME NEW k \in 1..m, NEW r \in 1..c PROVE c * (k - 1) + r \in 1..(c * m)
  <2>1. c * (k - 1) \in Nat /\ c * (k - 1) + c = c * k
    OBVIOUS
  <2>2. c * k <= c * m
    <3>1. m - k \in Nat /\ c * (m - k) \in Nat /\ c * k + c * (m - k) = c * m /\ c * k \in Nat
      OBVIOUS
    <3> QED BY <3>1
  <2>3. ASSUME NEW x \in Nat, NEW y \in Nat, NEW z \in Nat, x + c = y, y <= z
        PROVE  x + r \in 1..z
    BY <2>3
  <2>4. c * k \in Nat
    OBVIOUS
  <2> QED BY <1>1, <2>1, <2>2, <2>3, <2>4
<1> QED BY <1>1, <1>2

\* One chunk more, behind chunks of length c.
LEMMA ChunkAppended ==
    ASSUME NEW T, NEW seqs \in Seq(Seq(T)), NEW c \in Nat, NEW m \in 1..(Len(seqs) - 1),
           \A k \in 1..(Len(seqs) - 1) : Len(seqs[k]) = c,
           NEW s \in Seq(T), Chunked(s, seqs, c, m)
    PROVE  Chunked(s \o seqs[m + 1], seqs, c, m + 1)
<1>1. /\ m \in Nat \ {0} /\ m + 1 \in 1..Len(seqs) /\ (m + 1) - 1 = m
      /\ seqs[m + 1] \in Seq(T) /\ Len(seqs[m]) = c
  OBVIOUS
<1> DEFINE t == seqs[m + 1]
           cm == c * m
<1>2. cm \in Nat /\ c * (m - 1) + c = cm /\ \A k \in 1..m : \A r \in 1..c : c * (k - 1) + r \in 1..cm
  BY <1>1, ChunkBounds
<1>3. Len(s) = cm
  BY <1>1, <1>2 DEF Chunked
<1>4. t \in Seq(T) /\ Len(t) \in Nat
  BY <1>1
<1> HIDE DEF cm
<1>5. /\ Len(s \o t) = cm + Len(t)
      /\ \A i \in 1..cm : (s \o t)[i] = s[i]
      /\ \A r \in 1..Len(t) : (s \o t)[cm + r] = t[r]
  <2> HIDE DEF t
  <2>1. /\ Len(s \o t) = Len(s) + Len(t)
        /\ \A i \in 1..Len(s) : (s \o t)[i] = s[i]
        /\ \A i \in (Len(s) + 1)..(Len(s) + Len(t)) : (s \o t)[i] = t[i - Len(s)]
    BY <1>4
  <2>2. \A r \in 1..Len(t) : cm + r \in (cm + 1)..(cm + Len(t)) /\ (cm + r) - cm = r
    BY <1>2, <1>4
  <2>3. ASSUME NEW r \in 1..Len(t) PROVE (s \o t)[cm + r] = t[r]
    BY <1>3, <2>1, <2>2
  <2> QED BY <1>3, <2>1, <2>3
<1>6. ASSUME NEW k \in 1..(m + 1), NEW r \in 1..Len(seqs[k])
      PROVE  (s \o t)[c * (k - 1) + r] = seqs[k][r]
  <2>1. CASE k = m + 1
    <3>1. c * (k - 1) = cm
      BY <1>1, <2>1 DEF cm
    <3> QED BY <1>5, <2>1, <3>1
  <2>2. CASE k # m + 1
    <3>1. k \in 1..m /\ k \in 1..(Len(seqs) - 1)
      BY <1>1, <2>2
    <3>2. Len(seqs[k]) = c
      BY <3>1
    <3>3. c * (k - 1) + r \in 1..cm
      BY <1>2, <3>1, <3>2
    <3>4. s[c * (k - 1) + r] = seqs[k][r]
      BY <3>1 DEF Chunked
    <3> QED BY <1>5, <3>3, <3>4
  <2> QED BY <2>1, <2>2
<1>7. Len(s \o t) = c * ((m + 1) - 1) + Len(seqs[m + 1])
  BY <1>1, <1>5 DEF cm
<1> QED BY <1>6, <1>7 DEF Chunked

\* So element r of chunk k is element c * (k - 1) + r of the whole.
LEMMA FlattenChunks ==
    ASSUME NEW T, NEW seqs \in Seq(Seq(T)), Len(seqs) # 0, NEW c \in Nat,
           \A k \in 1..(Len(seqs) - 1) : Len(seqs[k]) = c
    PROVE  FlattenSeq(seqs) \in Seq(T) /\ Chunked(FlattenSeq(seqs), seqs, c, Len(seqs))
<1> DEFINE n == Len(seqs)
<1>1. n \in Nat /\ n >= 1 /\ seqs[1] \in Seq(T)
  OBVIOUS
<1>2. PICK f \in [1..n -> Seq(T)] : FlatSteps(f, seqs) /\ FlattenSeq(seqs) = f[n]
  BY FlattenSteps
<1> DEFINE U == {i \in Nat : i + 1 <= n => Chunked(f[i + 1], seqs, c, i + 1)}
<1>3. 0 \in U
  <2>1. f[1] = seqs[1] /\ c * (1 - 1) = 0 /\ \A k \in 1..1 : k = 1
    BY <1>2 DEF FlatSteps
  <2>2. \A r \in 1..Len(seqs[1]) : 0 + r = r
    BY <1>1
  <2>3. 0 + Len(seqs[1]) = Len(seqs[1])
    BY <1>1
  <2>4. Chunked(f[1], seqs, c, 1)
    BY <2>1, <2>2, <2>3 DEF Chunked
  <2>5. 0 + 1 = 1
    OBVIOUS
  <2> QED BY <2>4, <2>5
<1>4. ASSUME NEW i \in Nat, i \in U PROVE i + 1 \in U
  <2> DEFINE m == i + 1
  <2>1. SUFFICES ASSUME m + 1 <= n PROVE Chunked(f[m + 1], seqs, c, m + 1)
    BY DEF U
  <2>2. m \in 1..(n - 1) /\ m \in 1..n /\ m + 1 \in 2..n /\ (m + 1) - 1 = m /\ m <= n
    BY <1>1, <2>1
  <2>3. Chunked(f[m], seqs, c, m)
    BY <1>4, <2>2
  <2> HIDE DEF m
  <2>4. f[m + 1] = f[m] \o seqs[m + 1]
    BY <1>2, <2>2 DEF FlatSteps
  <2>5. f[m] \in Seq(T)
    BY <2>2
  <2> QED BY <2>2, <2>3, <2>4, <2>5, ChunkAppended
<1> HIDE DEF U
<1>5. Nat \subseteq U
  BY <1>3, <1>4, SetInduction
<1>6. Chunked(f[n], seqs, c, n)
  <2>1. n - 1 \in Nat /\ (n - 1) + 1 = n /\ n <= n
    BY <1>1
  <2>2. n - 1 \in U
    BY <1>5, <2>1
  <2> QED BY <2>1, <2>2 DEF U
<1>7. f[n] \in Seq(T)
  BY <1>1
<1> QED BY <1>2, <1>6, <1>7

\* Two functions agree on 1..n when at every place they do if they do behind it.
FollowsBack(f, g, n) == \A i \in 1..n : (\A j \in (i + 1)..n : f[j] = g[j]) => f[i] = g[i]

\* By induction over the distance from the end.
LEMMA BackwardsAgree ==
    ASSUME NEW n \in Nat, NEW f, NEW g, FollowsBack(f, g, n)
    PROVE  \A i \in 1..n : f[i] = g[i]
<1> DEFINE U == {m \in Nat : \A i \in 1..n : i + m >= n => f[i] = g[i]}
<1>1. ASSUME NEW i \in 1..n, \A j \in (i + 1)..n : f[j] = g[j] PROVE f[i] = g[i]
  BY <1>1 DEF FollowsBack
<1>2. 0 \in U
  <2>1. ASSUME NEW i \in 1..n, i + 0 >= n PROVE f[i] = g[i]
    <3>1. \A j \in (i + 1)..n : FALSE
      BY <2>1
    <3> QED BY <1>1, <3>1
  <2> QED BY <2>1
<1>3. ASSUME NEW m \in Nat, m \in U PROVE m + 1 \in U
  <2>1. ASSUME NEW i \in 1..n, i + (m + 1) >= n PROVE f[i] = g[i]
    <3>1. \A j \in (i + 1)..n : j \in 1..n /\ j + m >= n
      BY <2>1
    <3>2. \A j \in (i + 1)..n : f[j] = g[j]
      BY <1>3, <3>1
    <3> QED BY <1>1, <3>2
  <2> QED BY <2>1
<1> HIDE DEF U
<1>4. Nat \subseteq U
  BY <1>2, <1>3, SetInduction
<1>5. ASSUME NEW i \in 1..n PROVE f[i] = g[i]
  <2>1. n \in U /\ i + n >= n
    BY <1>4
  <2> QED BY <2>1 DEF U
<1> QED BY <1>5

------------------------------------------------------------------------------
(* Cuts of a sequence, and sequences joined to one.                         *)

\* The text between two places: from character i + 1 to character j.
Cut(s, i, j) == SubSeq(s, i + 1, j)
CutPlaces(s, i, j) == i \in Nat /\ j \in Nat /\ i <= j /\ j <= Len(s)

\* A cut is as long as its two places are apart, and holds what is between them.
LEMMA CutIs ==
    ASSUME NEW T, NEW s \in Seq(T), NEW i, NEW j, CutPlaces(s, i, j)
    PROVE  /\ Cut(s, i, j) \in Seq(T) /\ Len(Cut(s, i, j)) = j - i /\ Len(s) \in Nat
           /\ \A x \in 1..(j - i) : Cut(s, i, j)[x] = s[i + x]
<1>1. i \in Nat /\ j \in Nat /\ i <= j /\ j <= Len(s) /\ Len(s) \in Nat
  BY DEF CutPlaces
<1> DEFINE p == SubSeq(s, 1, j)
<1>2. p \in Seq(T) /\ Len(p) = j /\ \A x \in 1..j : p[x] = s[x]
  <2>1. j \in 0..Len(s)
    BY <1>1
  <2> QED BY <2>1, SubSeqPrefix
<1> DEFINE c == SubSeq(s, i + 1, j)
<1>3. c \in Seq(T) /\ Len(c) = j - i
  <2>1. \A x \in (i + 1)..j : s[x] \in T
    <3>1. \A x \in (i + 1)..j : x \in 1..Len(s)
      BY <1>1
    <3> QED BY <3>1, ElementsOf
  <2>2. i + 1 \in Nat /\ j + 1 - (i + 1) = j - i /\ j - i \in Nat
    BY <1>1
  <2> QED BY <1>1, <2>1, <2>2
<1>4. ASSUME NEW x \in 1..(j - i) PROVE c[x] = s[i + x]
  <2>1. (i + 1) + x - 1 = i + x
    BY <1>1
  <2>2. c[x] = s[(i + 1) + x - 1]
    BY <1>1
  <2> QED BY <2>1, <2>2
<1> QED BY <1>1, <1>3, <1>4 DEF Cut

\* The same for one element, with the text as a variable of its own.
LEMMA CutElements ==
    ASSUME NEW T, NEW s, s \in Seq(T), NEW i, NEW j, CutPlaces(s, i, j)
    PROVE  \A x \in 1..(j - i) : Cut(s, i, j)[x] = s[i + x]
  BY CutIs

\* Cuts that meet make one.
LEMMA CutJoin ==
    ASSUME NEW T, NEW s \in Seq(T), NEW i, NEW j, NEW k, CutPlaces(s, i, j), CutPlaces(s, j, k)
    PROVE  CutPlaces(s, i, k) /\ Cut(s, i, j) \o Cut(s, j, k) = Cut(s, i, k)
<1>1. i \in Nat /\ j \in Nat /\ k \in Nat /\ i <= j /\ j <= k /\ k <= Len(s) /\ Len(s) \in Nat
  BY DEF CutPlaces
<1>2. CutPlaces(s, i, k)
  BY <1>1 DEF CutPlaces
<1> DEFINE u == Cut(s, i, j)
           v == Cut(s, j, k)
           w == Cut(s, i, k)
<1>3. /\ u \in Seq(T) /\ Len(u) = j - i /\ \A x \in 1..(j - i) : u[x] = s[i + x]
      /\ v \in Seq(T) /\ Len(v) = k - j /\ \A x \in 1..(k - j) : v[x] = s[j + x]
      /\ w \in Seq(T) /\ Len(w) = k - i /\ \A x \in 1..(k - i) : w[x] = s[i + x]
  BY <1>2, CutIs
<1> HIDE DEF u, v, w
<1>4. /\ u \o v \in Seq(T) /\ Len(u \o v) = Len(u) + Len(v)
      /\ \A x \in 1..Len(u) : (u \o v)[x] = u[x]
      /\ \A x \in 1..Len(v) : (u \o v)[Len(u) + x] = v[x]
  <2>1. u \in Seq(T) /\ v \in Seq(T)
    BY <1>3
  <2> QED BY <2>1, ConcatIs
<1>5. ASSUME NEW x \in 1..Len(w) PROVE (u \o v)[x] = w[x]
  <2>1. CASE x <= Len(u)
    <3>1. x \in 1..Len(u) /\ x \in 1..(j - i) /\ x \in 1..(k - i)
      BY <1>1, <1>3, <2>1
    <3> QED BY <1>3, <1>4, <3>1
  <2>2. CASE ~(x <= Len(u))
    <3> DEFINE y == x - Len(u)
    <3>1. y \in 1..Len(v) /\ y \in 1..(k - j) /\ Len(u) + y = x /\ j + y = i + x /\ x \in 1..(k - i)
      BY <1>1, <1>3, <2>2
    <3> HIDE DEF y
    <3>2. (u \o v)[x] = v[y] /\ v[y] = s[j + y] /\ w[x] = s[i + x]
      BY <1>3, <1>4, <3>1
    <3> QED BY <3>1, <3>2
  <2> QED BY <2>1, <2>2
<1>6. Len(u \o v) = Len(w)
  BY <1>1, <1>3, <1>4
<1>7. u \o v \in Seq(T) /\ w \in Seq(T)
  BY <1>3, <1>4
<1>8. u \o v = w
  BY <1>5, <1>6, <1>7, SameElements
<1> QED BY <1>2, <1>8 DEF u, v, w

\* A cut of a cut is a cut.
LEMMA CutCut ==
    ASSUME NEW T, NEW s \in Seq(T), NEW i, NEW j, CutPlaces(s, i, j),
           NEW a \in Nat, NEW b \in Nat, a <= b, b <= j - i
    PROVE  /\ CutPlaces(s, i + a, i + b) /\ CutPlaces(Cut(s, i, j), a, b)
           /\ Cut(Cut(s, i, j), a, b) = Cut(s, i + a, i + b)
<1>1. i \in Nat /\ j \in Nat /\ i <= j /\ j <= Len(s) /\ Len(s) \in Nat
  BY DEF CutPlaces
<1> DEFINE c == Cut(s, i, j)
<1>2. c \in Seq(T) /\ Len(c) = j - i /\ \A x \in 1..(j - i) : c[x] = s[i + x]
  BY CutIs
<1> HIDE DEF c
<1>3. CutPlaces(c, a, b) /\ CutPlaces(s, i + a, i + b)
  BY <1>1, <1>2 DEF CutPlaces
<1> DEFINE u == Cut(c, a, b)
           v == Cut(s, i + a, i + b)
<1>4. u \in Seq(T) /\ Len(u) = b - a /\ \A x \in 1..(b - a) : u[x] = c[a + x]
  <2>1. c \in Seq(T)
    BY <1>2
  <2>2. CutPlaces(c, a, b)
    BY <1>3
  <2>3. Cut(c, a, b) \in Seq(T)
    BY <2>1, <2>2, CutIs
  <2>4. Len(Cut(c, a, b)) = b - a
    BY <2>1, <2>2, CutIs
  <2>5. \A x \in 1..(b - a) : Cut(c, a, b)[x] = c[a + x]
    BY <2>1, <2>2, CutElements
  <2> QED BY <2>3, <2>4, <2>5
<1>5. v \in Seq(T) /\ Len(v) = (i + b) - (i + a) /\ \A x \in 1..((i + b) - (i + a)) : v[x] = s[(i + a) + x]
  BY <1>3, CutIs
<1>6. (i + b) - (i + a) = b - a
  BY <1>1
<1> HIDE DEF u, v
<1>7. ASSUME NEW x \in 1..Len(v) PROVE u[x] = v[x]
  <2>1. x \in 1..(b - a) /\ a + x \in 1..(j - i) /\ i + (a + x) = (i + a) + x
    BY <1>1, <1>5, <1>6
  <2> QED BY <1>2, <1>4, <1>5, <1>6, <2>1
<1>8. u = v
  <2>1. u \in Seq(T) /\ v \in Seq(T) /\ Len(u) = Len(v)
    BY <1>4, <1>5, <1>6
  <2> QED BY <1>7, <2>1, SameElements
<1> QED BY <1>3, <1>8 DEF u, v, c

\* All of a text, nothing of it, and the places that are always there.
LEMMA CutWhole ==
    ASSUME NEW T, NEW s \in Seq(T)
    PROVE  /\ Len(s) \in Nat /\ Cut(s, 0, Len(s)) = s
           /\ \A i \in 0..Len(s) : /\ Cut(s, i, i) = <<>> /\ CutPlaces(s, i, i)
                                   /\ CutPlaces(s, 0, i) /\ CutPlaces(s, i, Len(s))
<1>1. Len(s) \in Nat /\ 0 + 1 = 1
  OBVIOUS
<1>2. Cut(s, 0, Len(s)) = s
  BY <1>1, WholeSlice DEF Cut
<1>3. ASSUME NEW i \in 0..Len(s)
      PROVE  Cut(s, i, i) = <<>> /\ CutPlaces(s, i, i) /\ CutPlaces(s, 0, i) /\ CutPlaces(s, i, Len(s))
  <2>1. i \in Nat /\ i + 1 > i /\ i + 1 \in Nat /\ i <= Len(s)
    BY <1>1
  <2>2. SubSeq(s, i + 1, i) = <<>>
    BY <2>1
  <2> QED BY <1>1, <2>1, <2>2 DEF Cut, CutPlaces
<1> QED BY <1>1, <1>2, <1>3

\* One behind the other, associatively.
LEMMA ConcatAssoc ==
    ASSUME NEW T, NEW a \in Seq(T), NEW b \in Seq(T), NEW c \in Seq(T)
    PROVE  (a \o b) \o c = a \o (b \o c)
<1> DEFINE u == a \o b
           v == b \o c
<1>1. /\ u \in Seq(T) /\ Len(u) = Len(a) + Len(b) /\ Len(a) \in Nat /\ Len(b) \in Nat /\ Len(c) \in Nat
      /\ (\A x \in 1..Len(a) : u[x] = a[x]) /\ (\A x \in 1..Len(b) : u[Len(a) + x] = b[x])
  BY ConcatIs
<1>2. /\ v \in Seq(T) /\ Len(v) = Len(b) + Len(c)
      /\ (\A x \in 1..Len(b) : v[x] = b[x]) /\ (\A x \in 1..Len(c) : v[Len(b) + x] = c[x])
  BY ConcatIs
<1> HIDE DEF u, v
<1> DEFINE l == u \o c
           r == a \o v
<1>3. /\ l \in Seq(T) /\ Len(l) = Len(u) + Len(c)
      /\ (\A x \in 1..Len(u) : l[x] = u[x]) /\ (\A x \in 1..Len(c) : l[Len(u) + x] = c[x])
  <2>1. u \in Seq(T)
    BY <1>1
  <2> QED BY <2>1, ConcatIs
<1>4. /\ r \in Seq(T) /\ Len(r) = Len(a) + Len(v)
      /\ (\A x \in 1..Len(a) : r[x] = a[x]) /\ (\A x \in 1..Len(v) : r[Len(a) + x] = v[x])
  <2>1. v \in Seq(T)
    BY <1>2
  <2> QED BY <2>1, ConcatIs
<1> HIDE DEF l, r
<1>5. Len(l) = Len(r)
  BY <1>1, <1>2, <1>3, <1>4
<1>6. ASSUME NEW x \in 1..Len(r) PROVE l[x] = r[x]
  <2>1. CASE x <= Len(a)
    <3>1. x \in 1..Len(a) /\ x \in 1..Len(u)
      BY <1>1, <2>1
    <3> QED BY <1>1, <1>3, <1>4, <3>1
  <2>2. CASE x > Len(a) /\ x <= Len(u)
    <3> DEFINE y == x - Len(a)
    <3>1. y \in 1..Len(b) /\ y \in 1..Len(v) /\ Len(a) + y = x /\ x \in 1..Len(u)
      BY <1>1, <1>2, <2>2
    <3> HIDE DEF y
    <3>2. l[x] = u[x] /\ u[x] = b[y] /\ r[x] = v[y] /\ v[y] = b[y]
      <4>1. l[x] = u[x]
        BY <1>3, <3>1
      <4>2. u[Len(a) + y] = b[y] /\ r[Len(a) + y] = v[y] /\ v[y] = b[y]
        BY <1>1, <1>2, <1>4, <3>1
      <4> QED BY <3>1, <4>1, <4>2
    <3> QED BY <3>2
  <2>3. CASE x > Len(u)
    <3> DEFINE y == x - Len(u)
               z == Len(b) + y
    <3>1. y \in 1..Len(c) /\ z \in 1..Len(v) /\ Len(a) + z = x /\ Len(u) + y = x
      BY <1>1, <1>2, <1>4, <2>3
    <3>2. z = Len(b) + y
      OBVIOUS
    <3> HIDE DEF y, z
    <3>3. l[Len(u) + y] = c[y] /\ r[Len(a) + z] = v[z] /\ v[Len(b) + y] = c[y]
      BY <1>2, <1>3, <1>4, <3>1
    <3> QED BY <3>1, <3>2, <3>3
  <2> QED BY <1>1, <1>4, <2>1, <2>2, <2>3
<1> QED BY <1>3, <1>4, <1>5, <1>6, SameElements DEF l, r, u, v

Regroups(a, b, c) == (a \o b) \o c = a \o (b \o c)

\* The same, as a rule to cite by name.
LEMMA ConcatRegroups ==
    ASSUME NEW T, NEW a \in Seq(T), NEW b \in Seq(T), NEW c \in Seq(T)
    PROVE  Regroups(a, b, c)
  BY ConcatAssoc DEF Regroups

\* Nothing before or behind a text leaves it as it is.
LEMMA ConcatEmpty ==
    ASSUME NEW T, NEW a \in Seq(T)
    PROVE  <<>> \o a = a /\ a \o <<>> = a /\ (Len(a) = 0 <=> a = <<>>)
  OBVIOUS

\* A cut is its first character and the cut behind it.
LEMMA CutFirst ==
    ASSUME NEW T, NEW s \in Seq(T), NEW i, NEW j, CutPlaces(s, i, j), i < j
    PROVE  /\ CutPlaces(s, i + 1, j) /\ s[i + 1] \in T /\ Cut(s, i, i + 1) = <<s[i + 1]>>
           /\ Cut(s, i, j) = <<s[i + 1]>> \o Cut(s, i + 1, j)
<1>1. i \in Nat /\ j \in Nat /\ i < j /\ j <= Len(s) /\ Len(s) \in Nat
  BY DEF CutPlaces
<1>2. CutPlaces(s, i, i + 1) /\ CutPlaces(s, i + 1, j) /\ i + 1 \in 1..Len(s)
  BY <1>1 DEF CutPlaces
<1>3. s[i + 1] \in T
  BY <1>2
<1> DEFINE w == <<s[i + 1]>>
           u == Cut(s, i, i + 1)
<1>4. w \in Seq(T) /\ Len(w) = 1 /\ w[1] = s[i + 1]
  BY <1>3
<1>5. u \in Seq(T) /\ Len(u) = (i + 1) - i /\ \A x \in 1..((i + 1) - i) : u[x] = s[i + x]
  BY <1>2, CutIs
<1> HIDE DEF u, w
<1>6. Len(u) = Len(w) /\ \A x \in 1..Len(w) : u[x] = w[x]
  <2>1. (i + 1) - i = 1 /\ \A x \in 1..1 : x = 1
    BY <1>1
  <2> QED BY <1>4, <1>5, <2>1
<1>7. u = w
  BY <1>4, <1>5, <1>6, SameElements
<1>8. u \o Cut(s, i + 1, j) = Cut(s, i, j)
  BY <1>2, CutJoin DEF u
<1> QED BY <1>2, <1>3, <1>7, <1>8 DEF u, w

\* Where the sequences lie in the flattened one: sequence k ends at o[k].
Laid(o, seqs) ==
    /\ o \in [0..Len(seqs) -> Nat] /\ o[0] = 0 /\ o[Len(seqs)] = Len(FlattenSeq(seqs))
    /\ \A k \in 1..Len(seqs) :
          /\ o[k] = o[k - 1] + Len(seqs[k]) /\ o[k] <= Len(FlattenSeq(seqs))
          /\ \A x \in 1..Len(seqs[k]) : FlattenSeq(seqs)[o[k - 1] + x] = seqs[k][x]

\* Each sequence is in the flattened one, behind those before it.
LEMMA FlattenPlaces ==
    ASSUME NEW T, NEW seqs \in Seq(Seq(T)), Len(seqs) # 0
    PROVE  FlattenSeq(seqs) \in Seq(T) /\ \E o : Laid(o, seqs)
<1> DEFINE n == Len(seqs)
           e == FlattenSeq(seqs)
<1>1. n \in Nat /\ n >= 1 /\ 1 \in 1..n /\ n \in 1..n /\ \A k \in 1..n : seqs[k] \in Seq(T)
  OBVIOUS
<1>2. PICK f \in [1..n -> Seq(T)] : FlatSteps(f, seqs) /\ e = f[n]
  BY FlattenSteps
<1>3. f[1] = seqs[1] /\ \A i \in 2..n : f[i] = f[i - 1] \o seqs[i]
  BY <1>2 DEF FlatSteps
<1> HIDE DEF e, n
<1>4. ASSUME NEW i \in 2..n
      PROVE  /\ i \in 1..n /\ i - 1 \in 1..n /\ Len(f[i]) = Len(f[i - 1]) + Len(seqs[i])
             /\ \A x \in 1..Len(f[i - 1]) : f[i][x] = f[i - 1][x]
             /\ \A x \in 1..Len(seqs[i]) : f[i][Len(f[i - 1]) + x] = seqs[i][x]
  <2> DEFINE a == f[i - 1]
             b == seqs[i]
  <2>1. i \in 1..n /\ i - 1 \in 1..n
    BY <1>1
  <2>2. a \in Seq(T) /\ b \in Seq(T)
    BY <1>1, <1>2, <2>1
  <2>3. f[i] = a \o b
    BY <1>3
  <2> HIDE DEF a, b
  <2>4. /\ Len(a \o b) = Len(a) + Len(b)
        /\ \A x \in 1..Len(a) : (a \o b)[x] = a[x]
        /\ \A x \in 1..Len(b) : (a \o b)[Len(a) + x] = b[x]
    BY <2>2, ConcatIs
  <2>5. /\ Len(f[i]) = Len(a) + Len(b)
        /\ \A x \in 1..Len(a) : f[i][x] = a[x]
        /\ \A x \in 1..Len(b) : f[i][Len(a) + x] = b[x]
    BY <2>3, <2>4
  <2> QED BY <2>1, <2>5 DEF a, b
<1>5. \A i \in 1..n : f[i] \in Seq(T) /\ Len(f[i]) \in Nat /\ Len(seqs[i]) \in Nat
  BY <1>1, <1>2
<1> DEFINE Prefix(i, j) == Len(f[i]) <= Len(f[j]) /\ \A x \in 1..Len(f[i]) : f[j][x] = f[i][x]
           U == {m \in Nat : \A i \in 1..n : i + m <= n => Prefix(i, i + m)}
<1>6. 0 \in U
  <2>1. ASSUME NEW i \in 1..n PROVE Prefix(i, i + 0)
    <3>1. i + 0 = i
      BY <1>1
    <3> QED BY <1>5, <3>1
  <2> HIDE DEF Prefix
  <2> QED BY <2>1
<1>7. ASSUME NEW m \in Nat, m \in U PROVE m + 1 \in U
  <2>1. ASSUME NEW i \in 1..n, i + (m + 1) <= n PROVE Prefix(i, i + (m + 1))
    <3> DEFINE j == i + m
               k == i + (m + 1)
    <3>1. j \in 1..n /\ j <= n /\ k \in 2..n /\ k - 1 = j /\ k \in 1..n
      BY <1>1, <2>1
    <3>2. Prefix(i, j)
      BY <1>7, <3>1
    <3> HIDE DEF j, k
    <3>3. Len(f[k]) = Len(f[j]) + Len(seqs[k]) /\ \A x \in 1..Len(f[j]) : f[k][x] = f[j][x]
      BY <1>4, <3>1
    <3>4. Len(f[i]) \in Nat /\ Len(f[j]) \in Nat /\ Len(f[k]) \in Nat /\ Len(seqs[k]) \in Nat
      BY <1>5, <3>1
    <3>5. Prefix(i, k)
      <4>1. Len(f[i]) <= Len(f[j]) /\ \A x \in 1..Len(f[i]) : f[j][x] = f[i][x]
        BY <3>2
      <4>2. Len(f[i]) <= Len(f[k])
        <5>1. Len(f[k]) = Len(f[j]) + Len(seqs[k])
          BY <3>3
        <5>2. \A a, b, c, e1 \in Nat : a <= b /\ e1 = b + c => a <= e1
          OBVIOUS
        <5> QED BY <3>4, <4>1, <5>1, <5>2
      <4>3. \A x \in 1..Len(f[i]) : x \in 1..Len(f[j])
        <5>1. \A a, b \in Nat : a <= b => \A x \in 1..a : x \in 1..b
          OBVIOUS
        <5> QED BY <3>4, <4>1, <5>1
      <4>4. \A x \in 1..Len(f[i]) : f[k][x] = f[i][x]
        BY <3>3, <4>1, <4>3
      <4> QED BY <4>2, <4>4
    <3> HIDE DEF Prefix
    <3> QED BY <3>5 DEF k
  <2> HIDE DEF Prefix
  <2> QED BY <2>1
<1> HIDE DEF U
<1>8. Nat \subseteq U
  BY <1>6, <1>7, SetInduction
<1>9. ASSUME NEW i \in 1..n PROVE Prefix(i, n)
  <2>1. n - i \in Nat /\ i + (n - i) = n /\ n <= n
    BY <1>1
  <2>2. Prefix(i, i + (n - i))
    <3> HIDE DEF Prefix
    <3> QED BY <1>8, <2>1 DEF U
  <2> HIDE DEF Prefix
  <2> QED BY <2>1, <2>2
<1> DEFINE o == [k \in 0..n |-> IF k = 0 THEN 0 ELSE Len(f[k])]
<1>10. /\ o \in [0..n -> Nat] /\ o[0] = 0 /\ o[n] = Len(e)
       /\ \A k \in 1..n : k \in 0..n /\ o[k] = Len(f[k])
  <2>1. \A k \in 0..n : k # 0 => k \in 1..n
    BY <1>1
  <2>2. \A k \in 1..n : k \in 0..n /\ k # 0
    BY <1>1
  <2>3. 0 \in 0..n /\ 0 \in Nat
    BY <1>1
  <2>4. \A k \in 1..n : o[k] = Len(f[k])
    BY <2>2
  <2>5. o[0] = 0
    BY <2>3
  <2>6. o \in [0..n -> Nat]
    BY <1>5, <2>1, <2>3
  <2> QED BY <1>1, <1>2, <2>2, <2>4, <2>5, <2>6
<1> HIDE DEF o
<1>11. ASSUME NEW k \in 1..n
       PROVE  /\ o[k] = o[k - 1] + Len(seqs[k]) /\ o[k] <= Len(e)
              /\ \A x \in 1..Len(seqs[k]) : e[o[k - 1] + x] = seqs[k][x]
  <2>1. Len(f[k]) <= Len(e) /\ \A x \in 1..Len(f[k]) : e[x] = f[k][x]
    BY <1>2, <1>9
  <2>2. CASE k = 1
    <3>1. o[k - 1] = 0 /\ f[k] = seqs[k] /\ o[k] = Len(f[k])
      <4>1. k - 1 = 0
        BY <2>2
      <4> QED BY <1>3, <1>10, <2>2, <4>1
    <3>2. Len(seqs[k]) \in Nat
      BY <1>5
    <3>3. \A x \in 1..Len(seqs[k]) : 0 + x = x
      BY <3>2
    <3>4. 0 + Len(seqs[k]) = Len(seqs[k])
      BY <3>2
    <3> QED BY <2>1, <3>1, <3>3, <3>4
  <2>3. CASE k # 1
    <3>1. k \in 2..n
      BY <2>3
    <3>2. /\ k - 1 \in 1..n /\ Len(f[k]) = Len(f[k - 1]) + Len(seqs[k])
          /\ \A x \in 1..Len(seqs[k]) : f[k][Len(f[k - 1]) + x] = seqs[k][x]
      BY <1>4, <3>1
    <3>3. o[k] = Len(f[k]) /\ o[k - 1] = Len(f[k - 1])
      BY <1>10, <3>2
    <3>4. Len(f[k]) \in Nat /\ Len(f[k - 1]) \in Nat /\ Len(seqs[k]) \in Nat
      BY <1>5, <3>2
    <3>5. \A x \in 1..Len(seqs[k]) : Len(f[k - 1]) + x \in 1..Len(f[k])
      BY <3>2, <3>4
    <3>6. \A x \in 1..Len(seqs[k]) : e[Len(f[k - 1]) + x] = f[k][Len(f[k - 1]) + x]
      BY <2>1, <3>5
    <3> QED BY <2>1, <3>2, <3>3, <3>6
  <2> QED BY <2>2, <2>3
<1>12. e \in Seq(T)
  BY <1>1, <1>2
<1>13. Laid(o, seqs)
  BY <1>10, <1>11 DEF Laid, e, n
<1> QED BY <1>12, <1>13 DEF e

\* Flattening one list behind another.
Behind(q, u, w) ==
    /\ Len(w) = Len(q) + Len(u)
    /\ \A k \in 1..Len(q) : w[k] = q[k]
    /\ \A k \in 1..Len(u) : w[Len(q) + k] = u[k]

\* The second list is flattened behind the first.
LEMMA FlattenBehind ==
    ASSUME NEW T, NEW q \in Seq(Seq(T)), NEW u \in Seq(Seq(T)), NEW w \in Seq(Seq(T)),
           Len(q) # 0, Len(u) # 0, Behind(q, u, w)
    PROVE  FlattenSeq(w) = FlattenSeq(q) \o FlattenSeq(u)
<1> DEFINE n == Len(q)
           m == Len(u)
           one == 1
<1>1. /\ n \in Nat \ {0} /\ m \in Nat \ {0} /\ Len(w) = n + m /\ Len(w) # 0
      /\ \A k \in 1..n : q[k] \in Seq(T)
      /\ \A k \in 1..m : u[k] \in Seq(T)
  <2>1. Len(w) = n + m
    BY DEF Behind
  <2>2. n \in Nat \ {0} /\ m \in Nat \ {0}
    OBVIOUS
  <2>3. \A k \in 1..n : q[k] \in Seq(T)
    OBVIOUS
  <2>4. \A k \in 1..m : u[k] \in Seq(T)
    OBVIOUS
  <2> HIDE DEF n, m
  <2>5. n + m # 0
    BY <2>2
  <2> QED BY <2>1, <2>2, <2>3, <2>4, <2>5
<1>2. (\A k \in 1..n : w[k] = q[k]) /\ (\A k \in 1..m : w[n + k] = u[k])
  BY DEF Behind
<1>3. PICK f \in [1..n -> Seq(T)] : FlatSteps(f, q) /\ FlattenSeq(q) = f[n]
  BY <1>1, FlattenSteps
<1>4. PICK g \in [1..m -> Seq(T)] : FlatSteps(g, u) /\ FlattenSeq(u) = g[m]
  BY <1>1, FlattenSteps
<1>5. PICK h \in [1..Len(w) -> Seq(T)] : FlatSteps(h, w) /\ FlattenSeq(w) = h[Len(w)]
  BY <1>1, FlattenSteps
<1>6. /\ f[1] = q[1] /\ \A i \in 2..n : f[i] = f[i - 1] \o q[i]
      /\ g[1] = u[1] /\ \A i \in 2..m : g[i] = g[i - 1] \o u[i]
      /\ h[1] = w[1] /\ \A i \in 2..(n + m) : h[i] = h[i - 1] \o w[i]
  BY <1>1, <1>3, <1>4, <1>5 DEF FlatSteps
<1>7. FlattenSeq(w) = h[n + m]
  BY <1>1, <1>5
<1> HIDE DEF n, m
<1> DEFINE U == {k \in Nat : k + 1 <= n => h[k + 1] = f[k + 1]}
<1>8. Nat \subseteq U
  <2>1. 0 \in U
    <3>1. 0 + 1 = 1 /\ 1 \in 1..n
      BY <1>1
    <3> QED BY <1>2, <1>6, <3>1
  <2>2. ASSUME NEW k \in Nat, k \in U PROVE k + 1 \in U
    <3>1. SUFFICES ASSUME (k + 1) + 1 <= n PROVE h[(k + 1) + 1] = f[(k + 1) + 1]
      OBVIOUS
    <3> DEFINE i == (k + 1) + 1
    <3>2. i \in 1..n /\ i \in 2..n /\ i \in 2..(n + m) /\ i - 1 = k + 1 /\ k + 1 <= n
      BY <1>1, <3>1
    <3>3. h[k + 1] = f[k + 1]
      BY <2>2, <3>2
    <3> HIDE DEF i
    <3>4. h[i] = h[i - 1] \o w[i] /\ f[i] = f[i - 1] \o q[i] /\ w[i] = q[i]
      BY <1>2, <1>6, <3>2
    <3>5. h[i - 1] = f[i - 1]
      BY <3>2, <3>3
    <3>6. h[i] = f[i]
      BY <3>4, <3>5
    <3> QED BY <3>6 DEF i
  <2> HIDE DEF U
  <2> QED BY <2>1, <2>2, SetInduction
<1>9. h[n] = f[n] /\ f[n] \in Seq(T)
  <2>1. n - 1 \in Nat /\ (n - 1) + 1 = n /\ n \in 1..n /\ n <= n
    BY <1>1
  <2>2. n - 1 \in U
    <3> HIDE DEF U
    <3> QED BY <1>8, <2>1
  <2>3. (n - 1) + 1 <= n => h[(n - 1) + 1] = f[(n - 1) + 1]
    BY <2>2
  <2> QED BY <1>3, <2>1, <2>3
<1> DEFINE V == {k \in Nat : k + 1 <= m => h[n + (k + 1)] = f[n] \o g[k + 1]}
<1>10. 0 \in V
  <2>1. 0 + 1 = 1 /\ 1 \in 1..m /\ n + 1 \in 2..(n + m) /\ (n + 1) - 1 = n
    BY <1>1
  <2>2. h[n + 1] = h[(n + 1) - 1] \o w[n + 1]
    BY <1>6, <2>1
  <2>3. w[n + 1] = u[1]
    BY <1>2, <2>1
  <2>4. h[n + 1] = f[n] \o g[1]
    BY <1>6, <1>9, <2>1, <2>2, <2>3
  <2> QED BY <2>1, <2>4
<1>11. ASSUME NEW k \in Nat, k \in V PROVE k + 1 \in V
  <2>0. k + 1 \in Nat
    OBVIOUS
  <2>1. SUFFICES ASSUME (k + 1) + 1 <= m PROVE h[n + ((k + 1) + 1)] = f[n] \o g[(k + 1) + 1]
    BY <2>0, Zenon
  <2> DEFINE i == (k + 1) + 1
             x == n + i
  <2>2. i \in 1..m /\ i \in 2..m /\ x \in 2..(n + m) /\ x - 1 = n + (k + 1) /\ i - 1 = k + 1
        /\ k + 1 <= m /\ k + 1 \in 1..m
    BY <1>1, <2>1
  <2>3. h[n + (k + 1)] = f[n] \o g[k + 1]
    BY <1>11, <2>2
  <2>4. g[k + 1] \in Seq(T) /\ u[i] \in Seq(T) /\ w[n + i] = u[i]
    BY <1>1, <1>2, <1>4, <2>2
  <2> HIDE DEF i
  <2>5. h[x] = h[x - 1] \o w[x] /\ g[i] = g[i - 1] \o u[i]
    BY <1>6, <2>2
  <2>6. Regroups(f[n], g[k + 1], u[i])
    BY <1>9, <2>4, ConcatRegroups
  <2>7. h[x] = (f[n] \o g[k + 1]) \o u[i]
    BY <2>2, <2>3, <2>4, <2>5
  <2>8. g[i] = g[k + 1] \o u[i]
    BY <2>2, <2>5
  <2>9. h[x] = f[n] \o g[i]
    BY <2>6, <2>7, <2>8 DEF Regroups
  <2> QED BY <2>9 DEF i
<1> HIDE DEF V
<1>12. Nat \subseteq V
  BY <1>10, <1>11, SetInduction
<1>13. h[n + m] = f[n] \o g[m]
  <2>1. m - 1 \in Nat /\ (m - 1) + 1 = m /\ (m - 1) + 1 <= m
    BY <1>1
  <2>2. m - 1 \in V
    BY <1>12, <2>1
  <2>3. h[n + ((m - 1) + 1)] = f[n] \o g[(m - 1) + 1]
    BY <2>1, <2>2, Zenon DEF V
  <2> QED BY <2>1, <2>3
<1> QED BY <1>3, <1>4, <1>7, <1>13
================================================================================
