--------------------------- MODULE BlockingPoolProofs ---------------------------
(***************************************************************************)
(* Proofs about BlockingPool for any workers, tasks, locks and bounds.     *)
(* First the run queues: what the links of one list spell is a sequence     *)
(* without repetitions (found by induction, SetInduction of DataLemmas),    *)
(* and head, tail, count and links of all workers describe sequences that   *)
(* have no task in common.  That is inductive, and each operation does to   *)
(* the sequence what RunQueueSpec says.                                     *)
(* Then where tasks are: the lists and the workers hold each task once.     *)
(* Last, who can go on: while each lock is held in order, the holder of the *)
(* greatest lock that anyone waits for waits for none itself.               *)
(***************************************************************************)
EXTENDS BlockingPool, DataLemmas

------------------------------------------------------------------------------
(* What the links of the run queues spell.                                   *)

Blocks == Tasks \cup {None}

\* The block in place i of a list, and NULL behind its end.
Nth(s, i) == IF i <= Len(s) THEN s[i] ELSE None

\* From block first the links lead through the tasks of s, each once, to NULL.
Spells(links, first, s) ==
    /\ s \in Seq(Tasks)
    /\ first = Nth(s, 1)
    /\ \A i \in 1..Len(s) : links[s[i]] = Nth(s, i + 1)
    /\ \A i, j \in 1..Len(s) : s[i] = s[j] => i = j

\* A walk of up to n steps from each block.
Walks(links, walk) ==
    /\ \A t \in Blocks : walk[0][t] = <<>>
    /\ \A n \in 1..Cardinality(Tasks) :
          /\ walk[n][None] = <<>>
          /\ \A t \in Tasks : walk[n][t] = <<t>> \o walk[n - 1][links[t]]

\* The recursive function in ListFrom is such a walk.
LEMMA ListFromWalks ==
    ASSUME NEW links \in [Tasks -> Blocks], NEW first \in Blocks
    PROVE  \E walk : Walks(links, walk) /\ ListFrom(links, first) = walk[Cardinality(Tasks)][first]
  <1> DEFINE N == Cardinality(Tasks)
             S == [Blocks -> Seq(Tasks)]
             Step(f) == [t \in Blocks |-> IF t = None THEN <<>> ELSE <<t>> \o f[links[t]]]
             F == [n \in 1..N |-> [f \in S |-> Step(f)]]
             zero == [t \in Blocks |-> <<>>]
             Eqn(g) == g = [n \in 0..N |->
                              [t \in Tasks \cup {None} |->
                                 IF t = None \/ n = 0 THEN <<>> ELSE <<t>> \o g[n - 1][links[t]]]]
  <1>1. N \in Nat
    BY QueueAssumption, FS_CardinalityType
  <1>2. ASSUME NEW f \in S PROVE Step(f) \in S
    <2>1. ASSUME NEW t \in Blocks, t # None PROVE <<t>> \o f[links[t]] \in Seq(Tasks)
      BY <2>1 DEF Blocks
    <2> QED BY <2>1
  <1>3. F \in [1..N -> [S -> S]]
    BY <1>2
  <1>4. zero \in S
    OBVIOUS
  <1>5. PICK g \in [0..N -> S] : g[0] = zero /\ \A n \in 1..N : g[n] = F[n][g[n - 1]]
    <2> HIDE DEF N, F, S, zero
    <2>1. StepsOn(F, N, S)
      BY <1>3 DEF StepsOn
    <2>2. \E f : StepsFrom(f, F, N, S, zero)
      BY <1>1, <1>4, <2>1, RecursionExists
    <2> QED BY <2>2 DEF StepsFrom
  <1>6. ASSUME NEW n \in 1..N PROVE g[n] = Step(g[n - 1])
    <2>1. n - 1 \in 0..N
      BY <1>1
    <2>2. g[n - 1] \in S
      BY <1>5, <2>1
    <2> QED BY <1>5, <2>2
  <1>8. \A n \in 0..N : g[n] = [t \in Blocks |->
                          IF t = None \/ n = 0 THEN <<>> ELSE <<t>> \o g[n - 1][links[t]]]
    <2> SUFFICES ASSUME NEW n \in 0..N
                 PROVE  g[n] = [t \in Blocks |->
                          IF t = None \/ n = 0 THEN <<>> ELSE <<t>> \o g[n - 1][links[t]]]
      OBVIOUS
    <2>1. CASE n = 0
      BY <1>5, <2>1
    <2>2. CASE n # 0
      <3>1. n \in 1..N
        BY <1>1, <2>2
      <3> QED BY <1>6, <2>2, <3>1
    <2> QED BY <2>1, <2>2
  <1>9. Eqn(g)
    BY <1>5, <1>8 DEF Blocks
  <1>10. \E h : Eqn(h)
    BY <1>9
  <1> DEFINE walk == CHOOSE h : Eqn(h)
  <1>11. Eqn(walk)
    <2> HIDE DEF Eqn
    <2> QED BY <1>10
  <1>12. ListFrom(links, first) = walk[N][first]
    BY DEF ListFrom
  <1> HIDE DEF walk
  <1>13. Walks(links, walk)
    <2>1. ASSUME NEW n \in 1..N
          PROVE  /\ walk[n][None] = <<>>
                 /\ \A t \in Tasks : walk[n][t] = <<t>> \o walk[n - 1][links[t]]
      <3>1. n \in 0..N /\ n # 0
        BY <1>1
      <3>2. walk[n] = [t \in Tasks \cup {None} |->
                         IF t = None \/ n = 0 THEN <<>> ELSE <<t>> \o walk[n - 1][links[t]]]
        BY <1>11, <3>1
      <3> QED BY <3>1, <3>2, QueueAssumption
    <2>2. ASSUME NEW t \in Blocks PROVE walk[0][t] = <<>>
      <3>1. 0 \in 0..N
        BY <1>1
      <3> QED BY <1>11, <3>1 DEF Blocks
    <2> QED BY <2>1, <2>2 DEF Walks
  <1> QED BY <1>12, <1>13

\* A list without repetitions is not longer than there are tasks.
LEMMA SpelledFits ==
    ASSUME NEW links, NEW first, NEW s, Spells(links, first, s)
    PROVE  Len(s) \in 0..Cardinality(Tasks)
  <1>1. s \in [1..Len(s) -> Tasks] /\ Len(s) \in Nat
    BY DEF Spells
  <1>2. s \in Injection(1..Len(s), Tasks)
    BY <1>1 DEF Spells, Injection, IsInjective
  <1>3. IsFiniteSet(1..Len(s)) /\ Cardinality(1..Len(s)) = Len(s)
    <2>1. Cardinality(1..Len(s)) = IF 1 > Len(s) THEN 0 ELSE Len(s) - 1 + 1
      BY <1>1, FS_Interval
    <2> QED BY <1>1, <2>1, FS_Interval
  <1>4. Cardinality(1..Len(s)) <= Cardinality(Tasks)
    BY <1>2, QueueAssumption, FS_Injection DEF ExistsInjection
  <1>5. Cardinality(Tasks) \in Nat
    BY QueueAssumption, FS_CardinalityType
  <1> QED BY <1>1, <1>3, <1>4, <1>5

\* What the links spell is what following them finds.
LEMMA SpelledIsListFrom ==
    ASSUME NEW links \in [Tasks -> Blocks], NEW first, NEW s, Spells(links, first, s)
    PROVE  ListFrom(links, first) = s
  <1> DEFINE N == Cardinality(Tasks)
             L == Len(s)
  <1>1. /\ s \in Seq(Tasks) /\ L \in Nat /\ N \in Nat /\ L <= N
        /\ \A i \in 1..(L + 1) : Nth(s, i) \in Blocks
        /\ \A i \in 1..L : s[i] \in Tasks /\ Nth(s, i) = s[i]
        /\ Nth(s, L + 1) = None
    BY SpelledFits, QueueAssumption, FS_CardinalityType DEF Spells, Nth, Blocks
  <1>2. PICK walk : Walks(links, walk) /\ ListFrom(links, first) = walk[N][first]
    BY <1>1, ListFromWalks DEF Spells
  <1> DEFINE Found(n) == \A j \in 1..(L + 1) : L - j + 1 <= n => walk[n][Nth(s, j)] = SubSeq(s, j, L)
             T == {n \in Nat : n <= N => Found(n)}
  <1>3. SubSeq(s, L + 1, L) = <<>>
    BY <1>1
  <1>4. 0 \in T
    <2>1. ASSUME NEW j \in 1..(L + 1), L - j + 1 <= 0 PROVE j = L + 1
      BY <1>1, <2>1
    <2>2. walk[0][None] = <<>>
      BY <1>2 DEF Walks, Blocks
    <2> QED BY <1>1, <1>3, <2>1, <2>2
  <1>5. ASSUME NEW n \in Nat, n \in T PROVE n + 1 \in T
    <2>1. SUFFICES ASSUME n + 1 <= N, NEW j \in 1..(L + 1), L - j + 1 <= n + 1
                   PROVE  walk[n + 1][Nth(s, j)] = SubSeq(s, j, L)
      OBVIOUS
    <2>2. n + 1 \in 1..N /\ (n + 1) - 1 = n
      BY <1>1, <2>1
    <2>3. CASE j = L + 1
      <3>1. walk[n + 1][None] = <<>>
        BY <1>2, <2>2 DEF Walks
      <3> QED BY <1>1, <1>3, <2>3, <3>1
    <2>4. CASE j # L + 1
      <3>1. j \in 1..L /\ j + 1 \in 1..(L + 1) /\ L - (j + 1) + 1 <= n /\ n <= N
        BY <1>1, <2>1, <2>4
      <3>2. walk[n][Nth(s, j + 1)] = SubSeq(s, j + 1, L)
        BY <1>5, <3>1
      <3>3. walk[n + 1][s[j]] = <<s[j]>> \o walk[n][links[s[j]]]
        <4>1. walk[n + 1][s[j]] = <<s[j]>> \o walk[(n + 1) - 1][links[s[j]]]
          BY <1>1, <1>2, <2>2, <3>1, Zenon DEF Walks
        <4> QED BY <2>2, <4>1
      <3>4. links[s[j]] = Nth(s, j + 1)
        BY <3>1 DEF Spells
      <3>5. <<s[j]>> \o SubSeq(s, j + 1, L) = SubSeq(s, j, L)
        BY <1>1, <3>1
      <3> QED BY <1>1, <3>1, <3>2, <3>3, <3>4, <3>5
    <2> QED BY <2>3, <2>4
  <1> HIDE DEF T
  <1>6. N \in T
    BY <1>1, <1>4, <1>5, SetInduction
  <1>7. walk[N][Nth(s, 1)] = SubSeq(s, 1, L)
    BY <1>1, <1>6 DEF T
  <1>8. SubSeq(s, 1, L) = s
    BY <1>1
  <1> QED BY <1>2, <1>7, <1>8 DEF Spells

------------------------------------------------------------------------------
(* The inductive invariant: each worker's head, tail and count, and the links,
   describe the sequence that following the links finds; no task is in two
   of them, and a task in none of them points nowhere.                       *)

LastOf(s) == IF s = <<>> THEN None ELSE s[Len(s)]

Apart(q) ==
    \A v, w \in Workers : \A i \in 1..Len(q[v]), j \in 1..Len(q[w]) :
        q[v][i] = q[w][j] => v = w

NotIn(q, t) == \A w \in Workers : \A i \in 1..Len(q[w]) : q[w][i] # t

Describe(q, head, tail, count, links) ==
    /\ head \in [Workers -> Blocks] /\ tail \in [Workers -> Blocks]
    /\ links \in [Tasks -> Blocks] /\ count \in [Workers -> Nat]
    /\ q \in [Workers -> Seq(Tasks)]
    /\ \A w \in Workers : /\ Spells(links, head[w], q[w])
                          /\ tail[w] = LastOf(q[w])
                          /\ count[w] = Len(q[w])
    /\ Apart(q)
    /\ \A t \in Tasks : NotIn(q, t) => links[t] = None

Lists == [w \in Workers |-> ListOf(w)]

ListInv == Describe(Lists, queue_head, queue_tail, queue_count, next)

LEMMA DescribedAreLists ==
    ASSUME NEW q, Describe(q, queue_head, queue_tail, queue_count, next)
    PROVE  Lists = q
  <1>1. ASSUME NEW w \in Workers PROVE ListOf(w) = q[w]
    <2>1. Spells(next, queue_head[w], q[w]) /\ next \in [Tasks -> Blocks]
      BY DEF Describe
    <2> QED BY <2>1, SpelledIsListFrom DEF ListOf
  <1>2. q = [w \in Workers |-> q[w]]
    BY DEF Describe
  <1> QED BY <1>1, <1>2 DEF Lists

LEMMA DescribedAreListsNext ==
    ASSUME NEW q, Describe(q, queue_head', queue_tail', queue_count', next')
    PROVE  Lists' = q /\ ListInv'
  <1>1. ASSUME NEW w \in Workers PROVE ListOf(w)' = q[w]
    <2>1. Spells(next', queue_head'[w], q[w]) /\ next' \in [Tasks -> Blocks]
      BY DEF Describe
    <2>2. ListFrom(next', queue_head'[w]) = q[w]
      BY <2>1, SpelledIsListFrom
    <2> QED BY <2>2 DEF ListOf
  <1>2. q = [w \in Workers |-> q[w]]
    BY DEF Describe
  <1>3. Lists' = q
    BY <1>1, <1>2 DEF Lists
  <1> QED BY <1>3 DEF ListInv

LEMMA ListInvInit == Init => ListInv /\ Lists = [w \in Workers |-> <<>>]
  <1> SUFFICES ASSUME Init PROVE ListInv /\ Lists = [w \in Workers |-> <<>>]
    OBVIOUS
  <1> DEFINE q == [w \in Workers |-> <<>>]
  <1>1. Describe(q, queue_head, queue_tail, queue_count, next)
    BY DEF Init, Describe, Spells, Nth, Blocks, LastOf, Apart, NotIn
  <1>2. Lists = q
    <2> HIDE DEF q
    <2> QED BY <1>1, DescribedAreLists
  <1> QED BY <1>1, <1>2 DEF ListInv

\* What the invariant says of one worker's list.
LEMMA ListFacts ==
    ASSUME ListInv, NEW w \in Workers
    PROVE  /\ Lists[w] \in Seq(Tasks) /\ Len(Lists[w]) \in Nat /\ ListOf(w) = Lists[w]
           /\ queue_head[w] = IF Lists[w] = <<>> THEN None ELSE Lists[w][1]
           /\ queue_tail[w] = IF Lists[w] = <<>> THEN None ELSE Lists[w][Len(Lists[w])]
           /\ queue_count[w] = Len(Lists[w])
           /\ \A i \in 1..Len(Lists[w]) : /\ Lists[w][i] \in Tasks
                                          /\ next[Lists[w][i]] = Nth(Lists[w], i + 1)
           /\ \A i, j \in 1..Len(Lists[w]) : Lists[w][i] = Lists[w][j] => i = j
  BY DEF ListInv, Describe, Spells, Nth, LastOf, Lists

LEMMA NotOnList ==
    ASSUME ListInv, NEW t \in Tasks
    PROVE  ~OnList(t) <=> NotIn(Lists, t)
  BY ListFacts DEF OnList, NotIn

\* One worker's list becomes s, and nothing about the others changes.
LEMMA ChangeOneList ==
    ASSUME ListInv, NEW w \in Workers, NEW s,
           NEW head, head = [queue_head EXCEPT ![w] = Nth(s, 1)],
           NEW tail, tail = [queue_tail EXCEPT ![w] = LastOf(s)],
           NEW count, count = [queue_count EXCEPT ![w] = Len(s)],
           NEW links \in [Tasks -> Blocks], Spells(links, Nth(s, 1), s),
           \A v \in Workers \ {w} : \A i \in 1..Len(Lists[v]) :
               /\ links[Lists[v][i]] = next[Lists[v][i]]
               /\ \A j \in 1..Len(s) : s[j] # Lists[v][i],
           \A t \in Tasks :
               /\ \A j \in 1..Len(s) : s[j] # t
               /\ \A v \in Workers \ {w} : \A i \in 1..Len(Lists[v]) : Lists[v][i] # t
               => links[t] = None
    PROVE  Describe([Lists EXCEPT ![w] = s], head, tail, count, links)
  <1> DEFINE q == [Lists EXCEPT ![w] = s]
  <1>1. /\ s \in Seq(Tasks) /\ Len(s) \in Nat /\ Nth(s, 1) \in Blocks /\ LastOf(s) \in Blocks
        /\ Lists \in [Workers -> Seq(Tasks)]
    BY DEF Spells, Nth, LastOf, Blocks, ListInv, Describe
  <1>2. q \in [Workers -> Seq(Tasks)] /\ q[w] = s /\ \A v \in Workers \ {w} : q[v] = Lists[v]
    BY <1>1
  <1>3. ASSUME NEW v \in Workers
        PROVE  Spells(links, head[v], q[v]) /\ tail[v] = LastOf(q[v]) /\ count[v] = Len(q[v])
    <2>1. CASE v = w
      BY <1>2, <2>1 DEF ListInv, Describe
    <2>2. CASE v # w
      <3>1. /\ Spells(next, queue_head[v], Lists[v])
            /\ queue_tail[v] = LastOf(Lists[v]) /\ queue_count[v] = Len(Lists[v])
        BY DEF ListInv, Describe
      <3>2. head[v] = queue_head[v] /\ tail[v] = queue_tail[v] /\ count[v] = queue_count[v]
        BY <2>2 DEF ListInv, Describe
      <3>3. \A i \in 1..Len(Lists[v]) : links[Lists[v][i]] = Nth(Lists[v], i + 1)
        BY <2>2, <3>1 DEF Spells
      <3>4. Spells(links, queue_head[v], Lists[v])
        BY <3>1, <3>3 DEF Spells
      <3> QED BY <1>2, <2>2, <3>1, <3>2, <3>4
    <2> QED BY <2>1, <2>2
  <1>4. Apart(q)
    <2> SUFFICES ASSUME NEW u \in Workers, NEW v \in Workers, u # v,
                        NEW i \in 1..Len(q[u]), NEW j \in 1..Len(q[v])
                 PROVE  q[u][i] # q[v][j]
      BY DEF Apart
    <2>1. CASE u # w /\ v # w
      BY <1>2, <2>1 DEF ListInv, Describe, Apart
    <2>2. CASE u = w
      BY <1>2, <2>2
    <2>3. CASE v = w
      BY <1>2, <2>3
    <2> QED BY <2>1, <2>2, <2>3
  <1>5. \A t \in Tasks : NotIn(q, t) => links[t] = None
    BY <1>2 DEF NotIn
  <1>6. /\ head \in [Workers -> Blocks] /\ tail \in [Workers -> Blocks]
        /\ count \in [Workers -> Nat]
    BY <1>1 DEF ListInv, Describe
  <1> HIDE DEF q
  <1>7. Describe(q, head, tail, count, links)
    BY <1>2, <1>3, <1>4, <1>5, <1>6 DEF Describe
  <1> QED BY <1>7 DEF q

LEMMA PushList ==
    ASSUME ListInv, NEW w \in Workers, NEW t \in Tasks, Push(w, t)
    PROVE  ListInv' /\ Lists' = [Lists EXCEPT ![w] = <<t>> \o @]
  <1> DEFINE l == Lists[w]
             s == <<t>> \o l
  <1>1. /\ l \in Seq(Tasks) /\ Len(l) \in Nat
        /\ s \in Seq(Tasks) /\ Len(s) = Len(l) + 1 /\ s[1] = t
        /\ \A i \in 2..Len(s) : s[i] = l[i - 1]
        /\ Nth(s, 1) = t
    BY ListFacts DEF Nth
  <1>2. \A v \in Workers : \A i \in 1..Len(Lists[v]) : Lists[v][i] # t
    BY NotOnList DEF Push, NotIn
  <1>3. /\ next' = [next EXCEPT ![t] = queue_head[w]] /\ next' \in [Tasks -> Blocks]
        /\ next'[t] = queue_head[w]
        /\ \A u \in Tasks \ {t} : next'[u] = next[u]
    BY DEF Push, ListInv, Describe
  <1>4. queue_head' = [queue_head EXCEPT ![w] = Nth(s, 1)]
    BY <1>1 DEF Push
  <1>5. LastOf(s) = IF queue_tail[w] = None THEN t ELSE queue_tail[w]
    BY <1>1, ListFacts, QueueAssumption DEF LastOf
  <1>6. queue_tail' = [queue_tail EXCEPT ![w] = LastOf(s)]
    BY <1>5 DEF Push, ListInv, Describe
  <1>7. queue_count' = [queue_count EXCEPT ![w] = Len(s)]
    BY <1>1, ListFacts DEF Push, ListInv, Describe
  <1>8. Spells(next', Nth(s, 1), s)
    <2>1. next'[s[1]] = Nth(s, 2)
      BY <1>1, <1>3, ListFacts DEF Nth
    <2>2. ASSUME NEW i \in 2..Len(s) PROVE next'[s[i]] = Nth(s, i + 1)
      <3>1. i - 1 \in 1..Len(l) /\ s[i] = l[i - 1]
        BY <1>1
      <3>2. next'[s[i]] = Nth(l, (i - 1) + 1)
        BY <1>2, <1>3, <3>1, ListFacts
      <3>3. Nth(s, i + 1) = Nth(l, i)
        BY <1>1, <3>1 DEF Nth
      <3> QED BY <3>2, <3>3
    <2>3. \A i, j \in 1..Len(s) : s[i] = s[j] => i = j
      <3> SUFFICES ASSUME NEW i \in 1..Len(s), NEW j \in 1..Len(s), i < j PROVE s[i] # s[j]
        BY <1>1
      <3>1. j \in 2..Len(s) /\ j - 1 \in 1..Len(l) /\ s[j] = l[j - 1]
        BY <1>1
      <3>2. CASE i = 1
        BY <1>1, <1>2, <3>1, <3>2
      <3>3. CASE i # 1
        <4>1. i - 1 \in 1..Len(l) /\ s[i] = l[i - 1] /\ i - 1 # j - 1
          BY <1>1, <3>3
        <4> QED BY <3>1, <4>1, ListFacts
      <3> QED BY <3>2, <3>3
    <2> HIDE DEF s
    <2>4. \A i \in 1..Len(s) : next'[s[i]] = Nth(s, i + 1)
      BY <1>1, <2>1, <2>2
    <2> QED BY <1>1, <2>3, <2>4 DEF Spells
  <1>9. \A v \in Workers \ {w} : \A i \in 1..Len(Lists[v]) :
           /\ next'[Lists[v][i]] = next[Lists[v][i]]
           /\ \A j \in 1..Len(s) : s[j] # Lists[v][i]
    <2> SUFFICES ASSUME NEW v \in Workers \ {w}, NEW i \in 1..Len(Lists[v])
                 PROVE  /\ next'[Lists[v][i]] = next[Lists[v][i]]
                        /\ \A j \in 1..Len(s) : s[j] # Lists[v][i]
      OBVIOUS
    <2>1. Lists[v][i] \in Tasks /\ Lists[v][i] # t
      BY <1>2, ListFacts
    <2>2. \A j \in 1..Len(l) : l[j] # Lists[v][i]
      BY DEF ListInv, Describe, Apart
    <2>3. \A j \in 1..Len(s) : s[j] # Lists[v][i]
      BY <1>1, <2>1, <2>2
    <2> QED BY <1>3, <2>1, <2>3
  <1>10. ASSUME NEW u \in Tasks, \A j \in 1..Len(s) : s[j] # u,
                \A v \in Workers \ {w} : \A i \in 1..Len(Lists[v]) : Lists[v][i] # u
         PROVE  next'[u] = None
    <2>1. u # t
      BY <1>1, <1>10
    <2>2. ASSUME NEW i \in 1..Len(l) PROVE l[i] # u
      <3>1. i + 1 \in 1..Len(s) /\ l[i] = s[i + 1]
        BY <1>1
      <3> QED BY <1>10, <3>1
    <2>3. NotIn(Lists, u)
      BY <1>10, <2>2 DEF NotIn
    <2> QED BY <1>3, <2>1, <2>3 DEF ListInv, Describe
  <1> HIDE DEF s
  <1>11. Describe([Lists EXCEPT ![w] = s], queue_head', queue_tail', queue_count', next')
    BY <1>3, <1>4, <1>6, <1>7, <1>8, <1>9, <1>10, ChangeOneList
  <1>12. Lists' = [Lists EXCEPT ![w] = s] /\ ListInv'
    BY <1>11, DescribedAreListsNext
  <1> QED BY <1>12 DEF s

\* A list loses one end, x, which points nowhere afterwards; the rest is s.
LEMMA ShortenList ==
    ASSUME ListInv, NEW w \in Workers, NEW s, NEW x \in Tasks,
           NEW head, head = [queue_head EXCEPT ![w] = Nth(s, 1)],
           NEW tail, tail = [queue_tail EXCEPT ![w] = LastOf(s)],
           NEW count, count = [queue_count EXCEPT ![w] = Len(s)],
           NEW links \in [Tasks -> Blocks], Spells(links, Nth(s, 1), s), links[x] = None,
           \A i \in 1..Len(Lists[w]) : Lists[w][i] = x \/ \E j \in 1..Len(s) : s[j] = Lists[w][i],
           \A j \in 1..Len(s) : \E i \in 1..Len(Lists[w]) : s[j] = Lists[w][i],
           \A t \in Tasks : (\A i \in 1..Len(Lists[w]) : Lists[w][i] # t) => links[t] = next[t]
    PROVE  Describe([Lists EXCEPT ![w] = s], head, tail, count, links)
  <1>1. ASSUME NEW v \in Workers \ {w}, NEW i \in 1..Len(Lists[v])
        PROVE  /\ links[Lists[v][i]] = next[Lists[v][i]]
               /\ \A j \in 1..Len(s) : s[j] # Lists[v][i]
    <2>1. Lists[v][i] \in Tasks /\ \A k \in 1..Len(Lists[w]) : Lists[w][k] # Lists[v][i]
      BY ListFacts DEF ListInv, Describe, Apart
    <2> QED BY <2>1
  <1>2. ASSUME NEW t \in Tasks, \A j \in 1..Len(s) : s[j] # t,
               \A v \in Workers \ {w} : \A i \in 1..Len(Lists[v]) : Lists[v][i] # t
        PROVE  links[t] = None
    <2>1. CASE t = x
      BY <2>1
    <2>2. CASE t # x
      <3>1. \A i \in 1..Len(Lists[w]) : Lists[w][i] # t
        BY <1>2, <2>2
      <3>2. NotIn(Lists, t)
        BY <1>2, <3>1 DEF NotIn
      <3> QED BY <3>1, <3>2 DEF ListInv, Describe
    <2> QED BY <2>1, <2>2
  <1> QED BY <1>1, <1>2, ChangeOneList

LEMMA PopList ==
    ASSUME ListInv, NEW w \in Workers, Pop(w)
    PROVE  /\ ListInv' /\ Lists[w] # <<>> /\ took' = Head(Lists[w])
           /\ Lists' = [Lists EXCEPT ![w] = Tail(@)]
  <1> DEFINE l == Lists[w]
             s == Tail(l)
             x == Head(l)
  <1>1. /\ l \in Seq(Tasks) /\ l # <<>> /\ Len(l) \in Nat /\ Len(l) >= 1
        /\ x = l[1] /\ x \in Tasks /\ queue_head[w] = x
        /\ s \in Seq(Tasks) /\ Len(s) = Len(l) - 1
        /\ \A i \in 1..Len(s) : s[i] = l[i + 1]
    BY ListFacts DEF Pop
  <1>2. /\ next' = [next EXCEPT ![x] = None] /\ next' \in [Tasks -> Blocks] /\ next'[x] = None
        /\ \A u \in Tasks \ {x} : next'[u] = next[u]
    BY <1>1 DEF Pop, ListInv, Describe, Blocks
  <1>3. next[x] = Nth(s, 1)
    <2>1. next[x] = Nth(l, 2)
      BY <1>1, ListFacts
    <2>2. Nth(l, 2) = Nth(s, 1)
      BY <1>1 DEF Nth
    <2> QED BY <2>1, <2>2
  <1>4. queue_head' = [queue_head EXCEPT ![w] = Nth(s, 1)]
    BY <1>1, <1>3 DEF Pop
  <1>5. LastOf(s) = IF next[x] = None THEN None ELSE queue_tail[w]
    <2>1. CASE s = <<>>
      <3>1. Len(s) = 0 /\ LastOf(s) = None
        BY <2>1 DEF LastOf
      <3>2. Nth(s, 1) = None
        BY <3>1 DEF Nth
      <3> HIDE DEF s
      <3> QED BY <1>3, <3>1, <3>2
    <2>2. CASE s # <<>>
      <3>1. Len(s) \in 1..Len(s) /\ s[Len(s)] = l[Len(l)] /\ s[1] \in Tasks
        BY <1>1, <2>2
      <3> QED BY <1>1, <1>3, <2>2, <3>1, ListFacts, QueueAssumption DEF LastOf, Nth
    <2> QED BY <2>1, <2>2
  <1>6. queue_tail' = [queue_tail EXCEPT ![w] = LastOf(s)]
    BY <1>1, <1>5 DEF Pop, ListInv, Describe
  <1>7. queue_count' = [queue_count EXCEPT ![w] = Len(s)]
    BY <1>1, ListFacts DEF Pop, ListInv, Describe
  <1>8. Spells(next', Nth(s, 1), s)
    <2>1. ASSUME NEW i \in 1..Len(s) PROVE next'[s[i]] = Nth(s, i + 1)
      <3>1. i + 1 \in 1..Len(l) /\ i + 1 # 1 /\ 1 \in 1..Len(l) /\ s[i] = l[i + 1]
        BY <1>1
      <3>2. l[i + 1] \in Tasks /\ l[i + 1] # x
        BY <1>1, <3>1, ListFacts
      <3>3. next[l[i + 1]] = Nth(l, (i + 1) + 1)
        BY <3>1, ListFacts
      <3>4. Nth(l, (i + 1) + 1) = Nth(s, i + 1)
        BY <1>1 DEF Nth
      <3> QED BY <1>2, <3>1, <3>2, <3>3, <3>4
    <2>2. ASSUME NEW i \in 1..Len(s), NEW j \in 1..Len(s), s[i] = s[j] PROVE i = j
      <3>1. i + 1 \in 1..Len(l) /\ j + 1 \in 1..Len(l) /\ l[i + 1] = l[j + 1]
        BY <1>1, <2>2
      <3>2. i + 1 = j + 1
        BY <3>1, ListFacts
      <3> QED BY <3>2
    <2> HIDE DEF s
    <2> QED BY <1>1, <2>1, <2>2 DEF Spells
  <1>9. ASSUME NEW i \in 1..Len(l) PROVE l[i] = x \/ \E j \in 1..Len(s) : s[j] = l[i]
    <2>1. CASE i = 1
      BY <1>1, <2>1
    <2>2. CASE i # 1
      <3>1. i - 1 \in 1..Len(s) /\ s[i - 1] = l[i]
        BY <1>1, <2>2
      <3> QED BY <3>1
    <2> QED BY <2>1, <2>2
  <1>10. ASSUME NEW j \in 1..Len(s) PROVE \E i \in 1..Len(l) : s[j] = l[i]
    <2>1. j + 1 \in 1..Len(l) /\ s[j] = l[j + 1]
      BY <1>1
    <2> QED BY <2>1
  <1>11. \A t \in Tasks : (\A i \in 1..Len(l) : l[i] # t) => next'[t] = next[t]
    BY <1>1, <1>2
  <1> HIDE DEF s, x
  <1>12. Describe([Lists EXCEPT ![w] = s], queue_head', queue_tail', queue_count', next')
    BY <1>1, <1>2, <1>4, <1>6, <1>7, <1>8, <1>9, <1>10, <1>11, ShortenList
  <1>13. Lists' = [Lists EXCEPT ![w] = s] /\ ListInv'
    BY <1>12, DescribedAreListsNext
  <1>14. took' = x
    BY <1>1 DEF Pop
  <1> QED BY <1>1, <1>13, <1>14 DEF s, x

LEMMA StealTailList ==
    ASSUME ListInv, NEW w \in Workers, StealTail(w)
    PROVE  /\ ListInv' /\ Lists[w] # <<>> /\ took' = Lists[w][Len(Lists[w])]
           /\ Lists' = [Lists EXCEPT ![w] = SubSeq(@, 1, Len(@) - 1)]
  <1> DEFINE l == Lists[w]
             n == Len(l)
             s == SubSeq(l, 1, n - 1)
             x == l[n]
  <1>1. /\ l \in Seq(Tasks) /\ l # <<>> /\ n \in Nat /\ n >= 1
        /\ x \in Tasks /\ queue_tail[w] = x /\ queue_head[w] = l[1]
        /\ s \in Seq(Tasks) /\ Len(s) = n - 1
        /\ \A i \in 1..Len(s) : s[i] = l[i]
    BY ListFacts DEF StealTail
  <1>2. n >= 2
    BY <1>1 DEF StealTail
  <1>3. PICK i \in 1..n : /\ next[l[i]] = x /\ l[i] \in Tasks
                          /\ queue_tail' = [queue_tail EXCEPT ![w] = l[i]]
                          /\ next' = [next EXCEPT ![l[i]] = None]
    <2>1. PICK prev \in Tasks : /\ \E i \in 1..Len(ListOf(w)) : ListOf(w)[i] = prev
                                /\ next[prev] = queue_tail[w]
                                /\ queue_tail' = [queue_tail EXCEPT ![w] = prev]
                                /\ next' = [next EXCEPT ![prev] = None]
      BY DEF StealTail
    <2>2. ListOf(w) = l
      BY ListFacts
    <2> QED BY <1>1, <2>1, <2>2
  <1>4. i = n - 1
    <2>1. Nth(l, i + 1) = x
      BY <1>3, ListFacts
    <2>2. i + 1 \in 1..n
      BY <1>1, <1>3, <2>1, QueueAssumption DEF Nth
    <2>3. n \in 1..n /\ l[i + 1] = l[n]
      BY <1>1, <2>1, <2>2 DEF Nth
    <2>4. i + 1 = n
      BY <2>2, <2>3, ListFacts
    <2> QED BY <1>1, <2>4
  <1>5. /\ next' \in [Tasks -> Blocks] /\ next'[l[n - 1]] = None
        /\ \A u \in Tasks \ {l[n - 1]} : next'[u] = next[u]
        /\ n - 1 \in 1..n /\ l[n - 1] \in Tasks /\ l[n - 1] # x
    <2>1. n - 1 \in 1..n /\ n \in 1..n /\ n - 1 # n
      BY <1>1, <1>2
    <2>2. l[n - 1] # x
      BY <2>1, ListFacts
    <2> QED BY <1>3, <1>4, <2>1, <2>2 DEF ListInv, Describe, Blocks
  <1>6. queue_head' = [queue_head EXCEPT ![w] = Nth(s, 1)]
    <2>1. Nth(s, 1) = queue_head[w]
      BY <1>1, <1>2 DEF Nth
    <2> QED BY <2>1 DEF StealTail, ListInv, Describe
  <1>7. queue_tail' = [queue_tail EXCEPT ![w] = LastOf(s)]
    <2>1. Len(s) \in 1..Len(s) /\ Len(s) = n - 1
      BY <1>1, <1>2
    <2> HIDE DEF s
    <2>2. s # <<>> /\ s[Len(s)] = l[n - 1]
      BY <1>1, <2>1
    <2> QED BY <1>3, <1>4, <2>2 DEF LastOf
  <1>8. queue_count' = [queue_count EXCEPT ![w] = Len(s)]
    BY <1>1, ListFacts DEF StealTail, ListInv, Describe
  <1>9. Spells(next', Nth(s, 1), s)
    <2>1. ASSUME NEW k \in 1..Len(s) PROVE next'[s[k]] = Nth(s, k + 1)
      <3>1. k \in 1..n /\ k <= n - 1 /\ s[k] = l[k] /\ l[k] \in Tasks
        BY <1>1, ListFacts
      <3>2. CASE k = n - 1
        <4>1. Nth(s, k + 1) = None
          BY <1>1, <1>2, <3>2 DEF Nth
        <4> QED BY <1>5, <3>1, <3>2, <4>1
      <3>3. CASE k # n - 1
        <4>1. l[k] # l[n - 1]
          BY <1>5, <3>1, <3>3, ListFacts
        <4>2. next'[l[k]] = Nth(l, k + 1)
          BY <1>5, <3>1, <4>1, ListFacts
        <4>3. k + 1 \in 1..Len(s) /\ k + 1 <= n
          BY <1>1, <3>1, <3>3
        <4>4. Nth(l, k + 1) = Nth(s, k + 1)
          BY <1>1, <4>3 DEF Nth
        <4> QED BY <3>1, <4>2, <4>4
      <3> QED BY <3>2, <3>3
    <2>2. ASSUME NEW k \in 1..Len(s), NEW j \in 1..Len(s), s[k] = s[j] PROVE k = j
      <3>1. k \in 1..n /\ j \in 1..n /\ l[k] = l[j]
        BY <1>1, <2>2
      <3> QED BY <3>1, ListFacts
    <2> HIDE DEF s
    <2> QED BY <1>1, <2>1, <2>2 DEF Spells
  <1>10. next'[x] = None
    <2>1. n \in 1..n /\ Nth(l, n + 1) = None
      BY <1>1 DEF Nth
    <2>2. next[x] = None
      BY <2>1, ListFacts
    <2> QED BY <1>1, <1>5, <2>2
  <1>11. ASSUME NEW k \in 1..Len(l) PROVE l[k] = x \/ \E j \in 1..Len(s) : s[j] = l[k]
    <2>1. CASE k = n
      BY <2>1
    <2>2. CASE k # n
      <3>1. k \in 1..Len(s) /\ s[k] = l[k]
        BY <1>1, <2>2
      <3> QED BY <3>1
    <2> QED BY <2>1, <2>2
  <1>12. ASSUME NEW j \in 1..Len(s) PROVE \E k \in 1..Len(l) : s[j] = l[k]
    <2>1. j \in 1..Len(l) /\ s[j] = l[j]
      BY <1>1
    <2> QED BY <2>1
  <1>13. \A t \in Tasks : (\A k \in 1..Len(l) : l[k] # t) => next'[t] = next[t]
    BY <1>5
  <1>14. took' = x
    BY <1>1 DEF StealTail
  <1> HIDE DEF s, x
  <1>15. Describe([Lists EXCEPT ![w] = s], queue_head', queue_tail', queue_count', next')
    BY <1>1, <1>5, <1>6, <1>7, <1>8, <1>9, <1>10, <1>11, <1>12, <1>13, ShortenList
  <1>16. Lists' = [Lists EXCEPT ![w] = s] /\ ListInv'
    BY <1>15, DescribedAreListsNext
  <1> QED BY <1>1, <1>14, <1>16 DEF s, x

LEMMA StealOnlyList ==
    ASSUME ListInv, NEW w \in Workers, StealOnly(w)
    PROVE  /\ ListInv' /\ Lists[w] # <<>> /\ took' = Lists[w][Len(Lists[w])]
           /\ Lists' = [Lists EXCEPT ![w] = SubSeq(@, 1, Len(@) - 1)]
  <1> DEFINE l == Lists[w]
             x == l[1]
             s == SubSeq(l, 1, Len(l) - 1)
  <1>1. /\ l \in Seq(Tasks) /\ l # <<>> /\ Len(l) \in Nat /\ Len(l) >= 1
        /\ queue_head[w] = l[1] /\ queue_tail[w] = l[Len(l)] /\ l[1] = l[Len(l)]
    BY ListFacts DEF StealOnly
  <1>2. Len(l) = 1
    <2>1. 1 \in 1..Len(l) /\ Len(l) \in 1..Len(l)
      BY <1>1
    <2> QED BY <1>1, <2>1, ListFacts
  <1>3. s = <<>> /\ s \in Seq(Tasks) /\ Len(s) = 0
    BY <1>1, <1>2
  <1>4. x \in Tasks /\ next[x] = None
    <2>1. 1 \in 1..Len(l) /\ Nth(l, 1 + 1) = None
      BY <1>2 DEF Nth
    <2> QED BY <2>1, ListFacts
  <1> HIDE DEF s
  <1>5. Nth(s, 1) = None /\ LastOf(s) = None
    BY <1>3 DEF Nth, LastOf
  <1>6. /\ queue_head' = [queue_head EXCEPT ![w] = Nth(s, 1)]
        /\ queue_tail' = [queue_tail EXCEPT ![w] = LastOf(s)]
        /\ queue_count' = [queue_count EXCEPT ![w] = Len(s)]
    <2>1. queue_count[w] = 1 /\ 1 - 1 = 0
      BY <1>2, ListFacts
    <2>2. queue_count' = [queue_count EXCEPT ![w] = queue_count[w] - 1]
      BY DEF StealOnly
    <2> QED BY <1>3, <1>5, <2>1, <2>2 DEF StealOnly
  <1>7. next' = next /\ next' \in [Tasks -> Blocks]
    BY DEF StealOnly, ListInv, Describe
  <1>8. Spells(next', Nth(s, 1), s)
    BY <1>3 DEF Spells
  <1>9. \A i \in 1..Len(l) : l[i] = x \/ \E j \in 1..Len(s) : s[j] = l[i]
    BY <1>2
  <1>10. \A j \in 1..Len(s) : \E i \in 1..Len(l) : s[j] = l[i]
    BY <1>3
  <1> HIDE DEF x
  <1>11. Describe([Lists EXCEPT ![w] = s], queue_head', queue_tail', queue_count', next')
    BY <1>4, <1>6, <1>7, <1>8, <1>9, <1>10, ShortenList
  <1>12. Lists' = [Lists EXCEPT ![w] = s] /\ ListInv'
    BY <1>11, DescribedAreListsNext
  <1> QED BY <1>1, <1>12 DEF s, StealOnly

LEMMA FindNothingList ==
    ASSUME ListInv, NEW w \in Workers, FindNothing(w)
    PROVE  ListInv' /\ Lists[w] = <<>> /\ Lists' = Lists /\ took' = None
  <1>1. Lists[w] = <<>>
    <2> SUFFICES ASSUME Lists[w] # <<>> PROVE FALSE
      OBVIOUS
    <2>1. 1 \in 1..Len(Lists[w]) /\ Len(Lists[w]) \in 1..Len(Lists[w])
      BY ListFacts
    <2>2. Lists[w][1] \in Tasks /\ Lists[w][Len(Lists[w])] \in Tasks
      BY <2>1, ListFacts
    <2> QED BY <2>2, ListFacts, QueueAssumption DEF FindNothing
  <1>2. Describe(Lists, queue_head', queue_tail', queue_count', next')
    BY DEF FindNothing, ListInv
  <1>3. Lists' = Lists /\ ListInv'
    BY <1>2, DescribedAreListsNext
  <1> QED BY <1>1, <1>3 DEF FindNothing

------------------------------------------------------------------------------
\* Each step of the queues does to the sequences what RunQueueSpec lets it do.
LEMMA QueueStep ==
    ASSUME ListInv, Next
    PROVE  ListInv' /\ Abstract!Next
  <1>1. PICK w \in Workers : \/ \E t \in Tasks : Push(w, t)
                             \/ Pop(w) \/ StealTail(w) \/ StealOnly(w) \/ FindNothing(w)
    BY DEF Next
  <1> SUFFICES ListInv' /\ (\/ \E t \in Tasks : Abstract!Push(w, t)
                            \/ Abstract!Pop(w) \/ Abstract!Steal(w) \/ Abstract!TakeNothing(w))
    BY DEF Abstract!Next
  <1>2. ASSUME NEW t \in Tasks, Push(w, t) PROVE ListInv' /\ Abstract!Push(w, t)
    <2>1. ListInv' /\ Lists' = [Lists EXCEPT ![w] = <<t>> \o @]
      BY <1>2, PushList
    <2> QED BY <1>2, <2>1 DEF Abstract!Push, Lists, Push
  <1>3. ASSUME Pop(w) PROVE ListInv' /\ Abstract!Pop(w)
    <2>1. /\ ListInv' /\ Lists[w] # <<>> /\ took' = Head(Lists[w])
          /\ Lists' = [Lists EXCEPT ![w] = Tail(@)]
      BY <1>3, PopList
    <2> QED BY <2>1 DEF Abstract!Pop, Lists
  <1>4. ASSUME StealTail(w) \/ StealOnly(w) PROVE ListInv' /\ Abstract!Steal(w)
    <2>1. /\ ListInv' /\ Lists[w] # <<>> /\ took' = Lists[w][Len(Lists[w])]
          /\ Lists' = [Lists EXCEPT ![w] = SubSeq(@, 1, Len(@) - 1)]
      BY <1>4, StealTailList, StealOnlyList
    <2> QED BY <2>1 DEF Abstract!Steal, Abstract!Last, Abstract!Front, Lists
  <1>5. ASSUME FindNothing(w) PROVE ListInv' /\ Abstract!TakeNothing(w)
    <2>1. ListInv' /\ Lists[w] = <<>> /\ Lists' = Lists /\ took' = None
      BY <1>5, FindNothingList
    <2> QED BY <2>1 DEF Abstract!TakeNothing, Lists
  <1> QED BY <1>1, <1>2, <1>3, <1>4, <1>5

LEMMA ListInvIsWellFormed == ListInv => ListsWellFormed
  <1> SUFFICES ASSUME ListInv PROVE ListsWellFormed
    OBVIOUS
  <1>1. ASSUME NEW w \in Workers, Lists[w] # <<>>
        PROVE  next[Lists[w][Len(Lists[w])]] = None
    <2>1. Len(Lists[w]) \in 1..Len(Lists[w]) /\ Nth(Lists[w], Len(Lists[w]) + 1) = None
      BY <1>1, ListFacts DEF Nth
    <2> QED BY <2>1, ListFacts
  <1>2. \A t \in Tasks : ~OnList(t) => next[t] = None
    BY NotOnList DEF ListInv, Describe
  <1> QED BY <1>1, <1>2, ListFacts DEF ListsWellFormed

\* The pool changes the queues by these operations only; a task that yields is one.
PoolListInv == ListInv /\ running \in [Workers -> Blocks]

LEMMA StartsATask ==
    ASSUME PoolListInv, NEW w \in Workers, Next, Start(w), took' \in Tasks
    PROVE  PoolListInv' /\ Abstract!Next
  BY QueueStep DEF PoolListInv, Start, Blocks

LEMMA PoolTakesQueueSteps ==
    ASSUME PoolListInv, [PoolNext]_all_vars
    PROVE  PoolListInv' /\ (Abstract!Next \/ UNCHANGED vars)
  <1>1. ASSUME NEW w \in Workers, NEW t \in Tasks, SpawnTask(w, t)
        PROVE  PoolListInv' /\ Abstract!Next
    <2>1. Next
      BY <1>1 DEF SpawnTask, Next
    <2> QED BY <1>1, <2>1, QueueStep DEF PoolListInv, SpawnTask
  <1>2. ASSUME NEW w \in Workers, TakeOwn(w)
        PROVE  PoolListInv' /\ Abstract!Next
    <2>1. Next /\ Start(w)
      BY <1>2 DEF TakeOwn, Next
    <2>2. Lists[w] # <<>> /\ took' = Head(Lists[w]) /\ Lists[w] \in Seq(Tasks)
      BY <1>2, PopList, ListFacts DEF PoolListInv, TakeOwn
    <2> QED BY <2>1, <2>2, StartsATask
  <1>3. ASSUME NEW w \in Workers, NEW v \in Workers, TakeOther(w, v)
        PROVE  PoolListInv' /\ Abstract!Next
    <2>1. Next /\ Start(w)
      BY <1>3 DEF TakeOther, Next
    <2>2. /\ Lists[v] # <<>> /\ took' = Lists[v][Len(Lists[v])]
          /\ Lists[v] \in Seq(Tasks)
      BY <1>3, StealTailList, StealOnlyList, ListFacts DEF PoolListInv, TakeOther
    <2>3. took' \in Tasks
      BY <2>2
    <2> QED BY <2>1, <2>3, StartsATask
  <1>4. ASSUME NEW w \in Workers, OwnEmpty(w)
        PROVE  PoolListInv' /\ Abstract!Next
    <2>1. Next
      BY <1>4 DEF OwnEmpty, Next
    <2> QED BY <1>4, <2>1, QueueStep DEF PoolListInv, OwnEmpty
  <1>5. ASSUME NEW w \in Workers, YieldTask(w)
        PROVE  PoolListInv' /\ Abstract!Next
    <2>1. running[w] \in Tasks /\ Push(w, running[w])
      BY <1>5 DEF YieldTask, InTask, PoolListInv, Blocks
    <2>2. Next
      BY <2>1 DEF Next
    <2> QED BY <1>5, <2>2, QueueStep DEF PoolListInv, YieldTask, Blocks
  <1>6. ASSUME UNCHANGED vars, running' \in [Workers -> Blocks]
        PROVE  PoolListInv' /\ UNCHANGED vars
    <2>1. Describe(Lists, queue_head', queue_tail', queue_count', next')
      BY <1>6 DEF PoolListInv, ListInv, vars
    <2> QED BY <1>6, <2>1, DescribedAreListsNext DEF PoolListInv
  <1>7. ASSUME NEW w \in Workers, TaskCall(w), ~YieldTask(w)
        PROVE  PoolListInv' /\ UNCHANGED vars
    <2>1. UNCHANGED vars
      BY <1>7 DEF TaskCall, WantLock, GetLock, RelockFails, LockReturns, Unlock, SendOne, Receive,
                  Received, FinishTask
    <2>2. running' \in [Workers -> Blocks]
      BY <1>7 DEF TaskCall, WantLock, GetLock, RelockFails, LockReturns, Unlock, SendOne, Receive,
                  Received, FinishTask, PoolListInv, Blocks
    <2> QED BY <1>6, <2>1, <2>2
  <1>8. CASE UNCHANGED all_vars
    BY <1>6, <1>8 DEF all_vars, pool_vars, PoolListInv
  <1>9. ASSUME NEW w \in Workers, StealNothing(w)
        PROVE  PoolListInv' /\ (Abstract!Next \/ UNCHANGED vars)
    <2>1. /\ UNCHANGED <<queue_head, queue_tail, queue_count, next>> /\ running' = running
          /\ took' = took \/ \E v \in Workers : queue_tail[v] = None /\ took' = None
      BY <1>9 DEF StealNothing, Victims
    <2>2. CASE took' = took
      BY <1>6, <2>1, <2>2 DEF vars, PoolListInv
    <2>3. ASSUME NEW v \in Workers, queue_tail[v] = None, took' = None
          PROVE  PoolListInv' /\ Abstract!Next
      <3>1. Next
        BY <2>1, <2>3 DEF FindNothing, Next
      <3> QED BY <2>1, <3>1, QueueStep DEF PoolListInv
    <2> QED BY <2>1, <2>2, <2>3
  <1> QED BY <1>1, <1>2, <1>3, <1>4, <1>5, <1>7, <1>8, <1>9 DEF PoolNext, FindTask

\* For any workers and any tasks, and however owners and thieves meet at the ends
\* of a list, head, tail, count and links describe one list each.
THEOREM RunQueuesStayWellFormed == PoolSafeSpec => []ListsWellFormed
  <1>1. PoolInit => PoolListInv
    BY ListInvInit DEF PoolInit, PoolListInv, Blocks
  <1>2. PoolListInv /\ [PoolNext]_all_vars => PoolListInv'
    BY PoolTakesQueueSteps
  <1>3. PoolListInv => ListsWellFormed
    BY ListInvIsWellFormed DEF PoolListInv
  <1> QED BY <1>1, <1>2, <1>3, PTL DEF PoolSafeSpec

\* The linked lists implement the sequences that GreenScheduler uses in their place:
\* each push, pop and steal of the pool does to the sequence what RunQueueSpec says.
THEOREM LinkedListsAreQueues == PoolSafeSpec => ImplementsRunQueue
  <1>1. PoolInit => PoolListInv /\ Abstract!Init
    BY ListInvInit DEF PoolInit, Init, PoolListInv, Blocks, Abstract!Init, Lists
  <1>2. PoolListInv /\ [PoolNext]_all_vars => PoolListInv'
    BY PoolTakesQueueSteps
  <1>3. PoolListInv /\ [PoolNext]_all_vars
           => [Abstract!Next]_<<[w \in Workers |-> ListOf(w)], took>>
    <2> SUFFICES ASSUME PoolListInv, [PoolNext]_all_vars, UNCHANGED vars
                 PROVE  UNCHANGED <<[w \in Workers |-> ListOf(w)], took>>
      BY PoolTakesQueueSteps
    <2>1. Describe(Lists, queue_head', queue_tail', queue_count', next')
      BY DEF PoolListInv, ListInv, vars
    <2>2. Lists' = Lists
      BY <2>1, DescribedAreListsNext
    <2> QED BY <2>2 DEF vars, Lists
  <1> QED BY <1>1, <1>2, <1>3, PTL DEF PoolSafeSpec, ImplementsRunQueue, Abstract!Spec

------------------------------------------------------------------------------
(* Where a task is. *)

\* The tasks on lists.
In(s, t) == \E i \in 1..Len(s) : s[i] = t

Queued == {t \in Tasks : \E w \in Workers : In(Lists[w], t)}

\* What a task that is in a worker may be doing.
Busy == {"run", "lock", "recv"}

\* A task is on a list just while it is queued, and in a worker just while it runs
\* or waits in a call; and no two workers are in one task.
OnePlace ==
    /\ \A t \in Tasks : doing[t] = "queued" <=> OnList(t)
    /\ \A t \in Tasks : doing[t] \in Busy <=> \E w \in Workers : running[w] = t
    /\ \A v, w \in Workers : running[v] # None /\ running[v] = running[w] => v = w

\* The same of the sequences the links spell; this is inductive.
PlaceInv ==
    /\ PoolListInv
    /\ doing \in [Tasks -> {"new", "queued", "done"} \cup Busy]
    /\ \A t \in Tasks : doing[t] = "queued" <=> t \in Queued
    /\ \A t \in Tasks : doing[t] \in Busy <=> \E w \in Workers : running[w] = t
    /\ \A v, w \in Workers : running[v] # None /\ running[v] = running[w] => v = w

LEMMA PlaceInvOnePlace == PlaceInv => OnePlace
  BY NotOnList DEF PlaceInv, OnePlace, PoolListInv, NotIn, Queued, In

\* A push adds the task to the queued ones.
LEMMA PushQueues ==
    ASSUME ListInv, NEW w \in Workers, NEW t \in Tasks, Push(w, t)
    PROVE  ListInv' /\ Queued' = Queued \cup {t}
  <1>1. ListInv' /\ Lists' = [Lists EXCEPT ![w] = <<t>> \o @]
    BY PushList
  <1>2. Lists[w] \in Seq(Tasks) /\ Len(Lists[w]) \in Nat /\ Lists \in [Workers -> Seq(Tasks)]
    BY ListFacts DEF ListInv, Describe
  <1> DEFINE s == <<t>> \o Lists[w]
  <1>3. Len(s) = Len(Lists[w]) + 1 /\ s[1] = t
    BY <1>2
  <1>4. \A i \in 1..Len(Lists[w]) : s[i + 1] = Lists[w][i]
    BY <1>2
  <1>5. Lists'[w] = s /\ \A v \in Workers \ {w} : Lists'[v] = Lists[v]
    BY <1>1, <1>2
  <1> HIDE DEF s
  <1>6. \A i \in 1..Len(s) : s[i] = t \/ \E j \in 1..Len(Lists[w]) : s[i] = Lists[w][j]
    <2> SUFFICES ASSUME NEW i \in 1..Len(s), i # 1
                 PROVE  \E j \in 1..Len(Lists[w]) : s[i] = Lists[w][j]
      BY <1>3
    <2>1. i - 1 \in 1..Len(Lists[w]) /\ (i - 1) + 1 = i
      BY <1>2, <1>3
    <2> QED BY <1>4, <2>1
  <1>7. \A j \in 1..Len(Lists[w]) : \E i \in 1..Len(s) : s[i] = Lists[w][j]
    <2> SUFFICES ASSUME NEW j \in 1..Len(Lists[w]) PROVE \E i \in 1..Len(s) : s[i] = Lists[w][j]
      OBVIOUS
    <2>1. j + 1 \in 1..Len(s)
      BY <1>2, <1>3
    <2> QED BY <1>4, <2>1
  <1>8. \E i \in 1..Len(s) : s[i] = t
    <2>1. 1 \in 1..Len(s)
      BY <1>2, <1>3
    <2> QED BY <1>3, <2>1
  <1>9. \A u : In(Lists'[w], u) <=> In(Lists[w], u) \/ u = t
    BY <1>5, <1>6, <1>7, <1>8, SMTT(30) DEF In
  <1>10. Queued' = {u \in Tasks : \E v \in Workers : In(Lists'[v], u)}
    BY DEF Queued
  <1>11. ASSUME NEW u \in Tasks PROVE u \in Queued' <=> u \in Queued \/ u = t
    BY <1>5, <1>9, <1>10 DEF Queued
  <1>12. Queued' \subseteq Tasks /\ Queued \subseteq Tasks
    BY <1>10 DEF Queued
  <1> QED BY <1>1, <1>11, <1>12

\* Place k of one list goes, and with it the task there from the queued ones.
LEMMA TakeUnqueues ==
    ASSUME ListInv, NEW w \in Workers, NEW k \in 1..Len(Lists[w]), NEW s,
           Lists' = [Lists EXCEPT ![w] = s],
           \A u : In(s, u) <=> In(Lists[w], u) /\ u # Lists[w][k]
    PROVE  Lists[w][k] \in Queued /\ Queued' = Queued \ {Lists[w][k]}
  <1>1. Lists \in [Workers -> Seq(Tasks)] /\ Apart(Lists) /\ Lists[w][k] \in Tasks
    BY ListFacts DEF ListInv, Describe
  <1>2. Lists'[w] = s /\ \A v \in Workers \ {w} : Lists'[v] = Lists[v]
    BY <1>1
  <1>3. In(Lists[w], Lists[w][k]) /\ Lists[w][k] \in Queued
    BY <1>1 DEF Queued, In
  <1>4. \A v \in Workers \ {w} : ~In(Lists[v], Lists[w][k])
    BY <1>1 DEF Apart, In
  <1>5. Queued' = {u \in Tasks : \E v \in Workers : In(Lists'[v], u)}
    BY DEF Queued
  <1>6. ASSUME NEW u \in Tasks PROVE u \in Queued' <=> u \in Queued /\ u # Lists[w][k]
    <2>1. CASE u = Lists[w][k]
      BY <1>2, <1>4, <1>5, <2>1
    <2>2. CASE u # Lists[w][k]
      BY <1>2, <1>5, <2>2 DEF Queued
    <2> QED BY <2>1, <2>2
  <1>7. Queued' \subseteq Tasks /\ Queued \subseteq Tasks
    BY <1>5 DEF Queued
  <1> QED BY <1>3, <1>6, <1>7

LEMMA PopUnqueues ==
    ASSUME ListInv, NEW w \in Workers, Pop(w)
    PROVE  ListInv' /\ took' \in Queued /\ Queued' = Queued \ {took'}
  <1>1. /\ ListInv' /\ Lists[w] # <<>> /\ took' = Head(Lists[w])
        /\ Lists' = [Lists EXCEPT ![w] = Tail(@)]
    BY PopList
  <1>2. Lists[w] \in Seq(Tasks) /\ Len(Lists[w]) \in Nat /\ Lists \in [Workers -> Seq(Tasks)]
    BY ListFacts DEF ListInv, Describe
  <1> DEFINE s == Tail(Lists[w])
             one == 1
  <1>3. Len(s) = Len(Lists[w]) - 1 /\ Len(Lists[w]) >= 1 /\ took' = Lists[w][1]
    BY <1>1, <1>2
  <1>4. \A j \in 1..Len(s) : s[j] = Lists[w][j + 1]
    BY <1>1, <1>2
  <1>5. Lists' = [Lists EXCEPT ![w] = s]
    BY <1>1
  <1>6. one \in 1..Len(Lists[w]) /\ took' = Lists[w][one]
    BY <1>2, <1>3
  <1> HIDE DEF s
  <1>7. \A j \in 1..Len(s) : \E i \in 1..Len(Lists[w]) : i # one /\ s[j] = Lists[w][i]
    <2> SUFFICES ASSUME NEW j \in 1..Len(s)
                 PROVE  \E i \in 1..Len(Lists[w]) : i # one /\ s[j] = Lists[w][i]
      OBVIOUS
    <2>1. j + 1 \in 1..Len(Lists[w]) /\ j + 1 # one
      BY <1>2, <1>3
    <2> QED BY <1>4, <2>1
  <1>8. \A i \in 1..Len(Lists[w]) : i # one => \E j \in 1..Len(s) : s[j] = Lists[w][i]
    <2> SUFFICES ASSUME NEW i \in 1..Len(Lists[w]), i # one
                 PROVE  \E j \in 1..Len(s) : s[j] = Lists[w][i]
      OBVIOUS
    <2>1. i - 1 \in 1..Len(s) /\ (i - 1) + 1 = i
      BY <1>2, <1>3
    <2> QED BY <1>4, <2>1
  <1>9. \A i, j \in 1..Len(Lists[w]) : Lists[w][i] = Lists[w][j] => i = j
    BY ListFacts
  <1>10. \A u : In(s, u) <=> In(Lists[w], u) /\ u # Lists[w][one]
    BY <1>6, <1>7, <1>8, <1>9 DEF In
  <1> HIDE DEF one
  <1>11. one \in 1..Len(Lists[w])
    BY <1>6
  <1>12. Lists[w][one] \in Queued /\ Queued' = Queued \ {Lists[w][one]}
    BY <1>5, <1>10, <1>11, TakeUnqueues, Zenon
  <1> QED BY <1>1, <1>6, <1>12

LEMMA StealUnqueues ==
    ASSUME ListInv, NEW w \in Workers, StealTail(w) \/ StealOnly(w)
    PROVE  ListInv' /\ took' \in Queued /\ Queued' = Queued \ {took'}
  <1>1. /\ ListInv' /\ Lists[w] # <<>> /\ took' = Lists[w][Len(Lists[w])]
        /\ Lists' = [Lists EXCEPT ![w] = SubSeq(@, 1, Len(@) - 1)]
    BY StealTailList, StealOnlyList
  <1>2. Lists[w] \in Seq(Tasks) /\ Len(Lists[w]) \in Nat /\ Lists \in [Workers -> Seq(Tasks)]
    BY ListFacts DEF ListInv, Describe
  <1> DEFINE s == SubSeq(Lists[w], 1, Len(Lists[w]) - 1)
             k == Len(Lists[w])
  <1>3. k \in Nat /\ k >= 1
    BY <1>1, <1>2
  <1>4. Len(s) = k - 1 /\ \A j \in 1..Len(s) : s[j] = Lists[w][j]
    <2>1. k - 1 \in 0..Len(Lists[w])
      BY <1>3
    <2> QED BY <1>2, <2>1, SubSeqPrefix
  <1>5. Lists' = [Lists EXCEPT ![w] = s]
    BY <1>1
  <1>6. k \in 1..Len(Lists[w]) /\ took' = Lists[w][k]
    BY <1>1, <1>3
  <1> HIDE DEF s
  <1>7. \A j \in 1..Len(s) : \E i \in 1..Len(Lists[w]) : i # k /\ s[j] = Lists[w][i]
    <2> SUFFICES ASSUME NEW j \in 1..Len(s)
                 PROVE  \E i \in 1..Len(Lists[w]) : i # k /\ s[j] = Lists[w][i]
      OBVIOUS
    <2>1. j \in 1..Len(Lists[w]) /\ j # k
      BY <1>3, <1>4
    <2> QED BY <1>4, <2>1
  <1>8. \A i \in 1..Len(Lists[w]) : i # k => \E j \in 1..Len(s) : s[j] = Lists[w][i]
    <2> SUFFICES ASSUME NEW i \in 1..Len(Lists[w]), i # k
                 PROVE  \E j \in 1..Len(s) : s[j] = Lists[w][i]
      OBVIOUS
    <2>1. i \in 1..Len(s)
      BY <1>3, <1>4
    <2> QED BY <1>4, <2>1
  <1>9. \A i, j \in 1..Len(Lists[w]) : Lists[w][i] = Lists[w][j] => i = j
    BY ListFacts
  <1>10. \A u : In(s, u) <=> In(Lists[w], u) /\ u # Lists[w][k]
    BY <1>6, <1>7, <1>8, <1>9 DEF In
  <1> HIDE DEF k
  <1>11. k \in 1..Len(Lists[w])
    BY <1>6
  <1>12. Lists[w][k] \in Queued /\ Queued' = Queued \ {Lists[w][k]}
    BY <1>5, <1>10, <1>11, TakeUnqueues, Zenon
  <1> QED BY <1>1, <1>6, <1>12

LEMMA QueuesUntouched ==
    ASSUME ListInv, UNCHANGED <<queue_head, queue_tail, queue_count, next>>
    PROVE  ListInv' /\ Queued' = Queued
  <1>1. Describe(Lists, queue_head', queue_tail', queue_count', next')
    BY DEF ListInv
  <1> QED BY <1>1, DescribedAreListsNext DEF Queued

------------------------------------------------------------------------------
\* A worker in no task takes a queued one.
LEMMA StartKeepsPlaces ==
    ASSUME PlaceInv, NEW w \in Workers, Start(w), ListInv', took' \in Queued,
           Queued' = Queued \ {took'}
    PROVE  PlaceInv'
  <1> DEFINE t == took'
  <1>1. /\ t \in Tasks /\ doing[t] = "queued" /\ running[w] = None /\ None \notin Tasks
        /\ running' = [running EXCEPT ![w] = t] /\ doing' = [doing EXCEPT ![t] = "run"]
    BY QueueAssumption DEF Start, Queued, PlaceInv
  <1>2. \A v \in Workers : running[v] # t
    BY <1>1 DEF PlaceInv, Busy
  <1>3. /\ running \in [Workers -> Tasks \cup {None}]
        /\ doing \in [Tasks -> {"new", "queued", "done"} \cup Busy]
    BY DEF PlaceInv, PoolListInv, Blocks
  <1> HIDE DEF t
  <1>4. /\ running'[w] = t /\ \A v \in Workers \ {w} : running'[v] = running[v]
        /\ doing'[t] = "run" /\ \A u \in Tasks \ {t} : doing'[u] = doing[u]
    BY <1>1, <1>3
  <1>5. running' \in [Workers -> Blocks] /\ doing' \in [Tasks -> {"new", "queued", "done"} \cup Busy]
    BY <1>1, <1>3 DEF Blocks, Busy
  <1>6. \A u \in Tasks : doing'[u] = "queued" <=> u \in Queued'
    BY <1>1, <1>4 DEF PlaceInv, t
  <1>7. ASSUME NEW u \in Tasks PROVE doing'[u] \in Busy <=> \E v \in Workers : running'[v] = u
    <2>1. CASE u = t
      BY <1>4, <2>1 DEF Busy
    <2>2. CASE u # t
      <3>1. doing[u] \in Busy <=> \E v \in Workers : running[v] = u
        BY DEF PlaceInv
      <3> QED BY <1>1, <1>4, <2>2, <3>1
    <2> QED BY <2>1, <2>2
  <1>8. \A u, v \in Workers : running'[u] # None /\ running'[u] = running'[v] => u = v
    BY <1>1, <1>2, <1>4 DEF PlaceInv
  <1> QED BY <1>5, <1>6, <1>7, <1>8 DEF PlaceInv, PoolListInv

\* A worker leaves its task, which goes to a queue or is done.
LEMMA LeaveKeepsPlaces ==
    ASSUME PlaceInv, NEW w \in Workers, running[w] # None, ListInv', NEW what,
           running' = [running EXCEPT ![w] = None],
           doing' = [doing EXCEPT ![running[w]] = what],
           \/ what = "queued" /\ Queued' = Queued \cup {running[w]}
           \/ what = "done" /\ Queued' = Queued
    PROVE  PlaceInv'
  <1> DEFINE t == running[w]
  <1>1. /\ running \in [Workers -> Tasks \cup {None}] /\ None \notin Tasks
        /\ doing \in [Tasks -> {"new", "queued", "done"} \cup Busy]
    BY QueueAssumption DEF PlaceInv, PoolListInv, Blocks
  <1>2. t \in Tasks /\ doing[t] \in Busy /\ \A v \in Workers \ {w} : running[v] # t
    BY <1>1 DEF PlaceInv
  <1>3. t \notin Queued
    BY <1>2 DEF PlaceInv, Busy
  <1>4. /\ running'[w] = None /\ \A v \in Workers \ {w} : running'[v] = running[v]
        /\ doing'[t] = what /\ \A u \in Tasks \ {t} : doing'[u] = doing[u]
    BY <1>1, <1>2
  <1>5. running' \in [Workers -> Blocks] /\ doing' \in [Tasks -> {"new", "queued", "done"} \cup Busy]
    BY <1>1, <1>2 DEF Blocks, Busy
  <1>6. \A u \in Tasks : doing'[u] = "queued" <=> u \in Queued'
    BY <1>2, <1>3, <1>4 DEF PlaceInv
  <1>7. ASSUME NEW u \in Tasks PROVE doing'[u] \in Busy <=> \E v \in Workers : running'[v] = u
    <2>1. CASE u = t
      BY <1>1, <1>2, <1>4, <2>1 DEF Busy
    <2>2. CASE u # t
      <3>1. doing[u] \in Busy <=> \E v \in Workers : running[v] = u
        BY DEF PlaceInv
      <3> QED BY <1>1, <1>4, <2>2, <3>1
    <2> QED BY <2>1, <2>2
  <1>8. \A u, v \in Workers : running'[u] # None /\ running'[u] = running'[v] => u = v
    BY <1>1, <1>4 DEF PlaceInv
  <1> QED BY <1>5, <1>6, <1>7, <1>8 DEF PlaceInv, PoolListInv

\* A task in a worker goes on to its next call, or returns from one.
LEMMA CallKeepsPlaces ==
    ASSUME PlaceInv, NEW w \in Workers, running[w] # None, NEW what \in Busy,
           UNCHANGED vars, running' = running,
           doing' = [doing EXCEPT ![running[w]] = what]
    PROVE  PlaceInv'
  <1>1. /\ running[w] \in Tasks /\ doing[running[w]] \in Busy
        /\ doing \in [Tasks -> {"new", "queued", "done"} \cup Busy]
    BY DEF PlaceInv, PoolListInv, Blocks
  <1>2. ListInv' /\ Queued' = Queued
    BY QueuesUntouched DEF PlaceInv, PoolListInv, vars
  <1>3. doing' \in [Tasks -> {"new", "queued", "done"} \cup Busy]
    BY <1>1
  <1>4. \A u \in Tasks : /\ doing'[u] \in Busy <=> doing[u] \in Busy
                         /\ doing'[u] = "queued" <=> doing[u] = "queued"
    BY <1>1 DEF Busy
  <1> QED BY <1>2, <1>3, <1>4 DEF PlaceInv, PoolListInv

LEMMA TaskCallKeepsPlaces ==
    ASSUME PlaceInv, NEW w \in Workers, TaskCall(w)
    PROVE  PlaceInv'
  <1>1. CASE \E l \in Mutexes \cup Rwlocks : \E m \in Modes(l) : WantLock(w, l, m)
    <2>1. /\ running[w] # None /\ UNCHANGED vars /\ running' = running
          /\ doing' = [doing EXCEPT ![running[w]] = "lock"]
      BY <1>1 DEF WantLock, InTask
    <2>2. "lock" \in Busy
      BY DEF Busy
    <2> QED BY <2>1, <2>2, CallKeepsPlaces
  <1>2. CASE GetLock(w) \/ RelockFails(w) \/ Received(w)
    <2>1. /\ running[w] # None /\ UNCHANGED vars /\ running' = running
          /\ doing' = [doing EXCEPT ![running[w]] = "run"]
      BY <1>2 DEF GetLock, RelockFails, LockReturns, Received, InTask
    <2>2. "run" \in Busy
      BY DEF Busy
    <2> QED BY <2>1, <2>2, CallKeepsPlaces
  <1>3. CASE Unlock(w) \/ SendOne(w)
    <2>1. UNCHANGED vars /\ running' = running /\ doing' = doing
      BY <1>3 DEF Unlock, SendOne
    <2> QED BY <2>1, QueuesUntouched DEF PlaceInv, PoolListInv, vars
  <1>4. CASE Receive(w)
    <2>1. /\ running[w] # None /\ UNCHANGED vars /\ running' = running
          /\ doing' = [doing EXCEPT ![running[w]] = "recv"]
      BY <1>4 DEF Receive, InTask
    <2>2. "recv" \in Busy
      BY DEF Busy
    <2> QED BY <2>1, <2>2, CallKeepsPlaces
  <1>5. CASE YieldTask(w)
    <2>1. /\ running[w] # None /\ Push(w, running[w])
          /\ running' = [running EXCEPT ![w] = None]
          /\ doing' = [doing EXCEPT ![running[w]] = "queued"]
      BY <1>5 DEF YieldTask, InTask
    <2>2. running[w] \in Tasks
      BY <2>1 DEF PlaceInv, PoolListInv, Blocks
    <2>3. ListInv' /\ Queued' = Queued \cup {running[w]}
      BY <2>1, <2>2, PushQueues DEF PlaceInv, PoolListInv
    <2> QED BY <2>1, <2>3, LeaveKeepsPlaces
  <1>6. CASE FinishTask(w)
    <2>1. /\ running[w] # None /\ UNCHANGED vars
          /\ running' = [running EXCEPT ![w] = None]
          /\ doing' = [doing EXCEPT ![running[w]] = "done"]
      BY <1>6 DEF FinishTask, InTask
    <2>2. ListInv' /\ Queued' = Queued
      BY <2>1, QueuesUntouched DEF PlaceInv, PoolListInv, vars
    <2> QED BY <2>1, <2>2, LeaveKeepsPlaces
  <1> QED BY <1>1, <1>2, <1>3, <1>4, <1>5, <1>6 DEF TaskCall

LEMMA PlaceInvInductive ==
    ASSUME PlaceInv, [PoolNext]_all_vars
    PROVE  PlaceInv'
  <1>1. ASSUME NEW w \in Workers, NEW t \in Tasks, SpawnTask(w, t) PROVE PlaceInv'
    <2>1. ListInv' /\ Queued' = Queued \cup {t}
      BY <1>1, PushQueues DEF SpawnTask, PlaceInv, PoolListInv
    <2>2. running' = running /\ doing[t] = "new" /\ doing' = [doing EXCEPT ![t] = "queued"]
      BY <1>1 DEF SpawnTask
    <2>3. doing' \in [Tasks -> {"new", "queued", "done"} \cup Busy]
      BY <2>2 DEF PlaceInv
    <2>4. \A u \in Tasks : /\ doing'[u] = "queued" <=> doing[u] = "queued" \/ u = t
                           /\ doing'[u] \in Busy <=> doing[u] \in Busy
      BY <2>2 DEF PlaceInv, Busy
    <2> QED BY <2>1, <2>2, <2>3, <2>4 DEF PlaceInv, PoolListInv
  <1>2. ASSUME NEW w \in Workers, TakeOwn(w) PROVE PlaceInv'
    <2>1. ListInv' /\ took' \in Queued /\ Queued' = Queued \ {took'} /\ Start(w)
      BY <1>2, PopUnqueues DEF TakeOwn, PlaceInv, PoolListInv
    <2> QED BY <2>1, StartKeepsPlaces
  <1>3. ASSUME NEW w \in Workers, NEW v \in Workers, TakeOther(w, v) PROVE PlaceInv'
    <2>1. ListInv' /\ took' \in Queued /\ Queued' = Queued \ {took'} /\ Start(w)
      BY <1>3, StealUnqueues DEF TakeOther, PlaceInv, PoolListInv
    <2> QED BY <2>1, StartKeepsPlaces
  <1>4. ASSUME NEW w \in Workers, OwnEmpty(w) \/ StealNothing(w) PROVE PlaceInv'
    <2>1. ListInv' /\ Queued' = Queued
      BY <1>4, QueuesUntouched DEF OwnEmpty, FindNothing, StealNothing, PlaceInv, PoolListInv
    <2> QED BY <1>4, <2>1 DEF OwnEmpty, StealNothing, PlaceInv, PoolListInv
  <1>5. CASE UNCHANGED all_vars
    <2>1. ListInv' /\ Queued' = Queued
      BY <1>5, QueuesUntouched DEF all_vars, vars, PlaceInv, PoolListInv
    <2> QED BY <1>5, <2>1 DEF all_vars, pool_vars, PlaceInv, PoolListInv
  <1> QED BY <1>1, <1>2, <1>3, <1>4, <1>5, TaskCallKeepsPlaces DEF PoolNext, FindTask

LEMMA PlaceInvInit == PoolInit => PlaceInv
  <1> SUFFICES ASSUME PoolInit PROVE PlaceInv
    OBVIOUS
  <1>1. ListInv /\ Lists = [w \in Workers |-> <<>>]
    BY ListInvInit DEF PoolInit
  <1>2. \A w \in Workers : \A t : ~In(Lists[w], t)
    BY <1>1 DEF In
  <1>3. Queued = {}
    BY <1>2 DEF Queued
  <1> QED BY <1>1, <1>3, QueueAssumption DEF PoolInit, PlaceInv, PoolListInv, Blocks, Busy

\* However tasks are spawned, stolen, yielded and blocked, no task is lost and none is
\* run twice: a task that has work left is on one list or in one worker.
THEOREM EachTaskInOnePlace == PoolSafeSpec => []OnePlace
  BY PlaceInvInit, PlaceInvInductive, PlaceInvOnePlace, PTL DEF PoolSafeSpec

------------------------------------------------------------------------------
(* Who can go on. *)

\* What waits and holds look like; and only receivers receive.
WaitInv ==
    /\ want \in [Tasks -> [lock : Nat, mode : {"none", "read", "write"}]]
    /\ locks \subseteq [lock : Nat, mode : {"none", "read", "write"}, task : Blocks,
                        thread : Workers, nth : Nat]
    /\ ops \in [Tasks -> Nat]
    /\ \A t \in Tasks : doing[t] = "recv" => t \in Receivers

\* Steps that leave the locks alone and after which nobody receives who did not before.
LEMMA NoNewReceive ==
    ASSUME WaitInv, want' = want, locks' = locks, ops' \in [Tasks -> Nat],
           \A t \in Tasks : doing'[t] = "recv" => doing[t] = "recv"
    PROVE  WaitInv'
  BY DEF WaitInv

LEMMA TaskCallKeepsWaits ==
    ASSUME PlaceInv, WaitInv, NEW w \in Workers, TaskCall(w)
    PROVE  WaitInv'
  <1>1. doing \in [Tasks -> {"new", "queued", "done"} \cup Busy]
    BY DEF PlaceInv
  <1>2. ASSUME running[w] # None PROVE running[w] \in Tasks
    BY <1>2 DEF PlaceInv, PoolListInv, Blocks
  <1>3. ASSUME running[w] # None, OneOp(running[w]) PROVE ops' \in [Tasks -> Nat]
    <2>1. running[w] \in Tasks /\ ops' = [ops EXCEPT ![running[w]] = @ + 1]
      BY <1>2, <1>3 DEF OneOp
    <2> QED BY <2>1 DEF WaitInv
  <1>4. ASSUME NEW l \in Mutexes \cup Rwlocks, NEW m \in Modes(l), WantLock(w, l, m)
        PROVE  WaitInv'
    <2>1. /\ running[w] \in Tasks /\ running[w] # None /\ locks' = locks /\ OneOp(running[w])
          /\ doing' = [doing EXCEPT ![running[w]] = "lock"]
          /\ want' = [want EXCEPT ![running[w]] = [lock |-> l, mode |-> m]]
      BY <1>2, <1>4 DEF WantLock, InTask
    <2>2. l \in Nat /\ m \in {"none", "read", "write"}
      BY PoolAssumption DEF Modes
    <2> QED BY <1>1, <1>3, <2>1, <2>2 DEF WaitInv
  <1>5. CASE GetLock(w) \/ RelockFails(w)
    <2>1. PICK mode \in {"none", "read", "write"} : running[w] \in Tasks /\ LockReturns(w, mode)
      BY <1>2, <1>5 DEF GetLock, RelockFails, InTask, WaitInv
    <2>2. Hold(w, mode) \in [lock : Nat, mode : {"none", "read", "write"}, task : Blocks,
                            thread : Workers, nth : Nat]
      BY <2>1 DEF Hold, WaitInv, Blocks
    <2>3. /\ locks' = locks \cup {Hold(w, mode)} /\ ops' = ops
          /\ want' = [want EXCEPT ![running[w]] = NoLock]
          /\ doing' = [doing EXCEPT ![running[w]] = "run"]
      BY <2>1 DEF LockReturns
    <2> QED BY <1>1, <2>1, <2>2, <2>3 DEF WaitInv, NoLock
  <1>6. CASE Unlock(w)
    <2> DEFINE H == [lock : Nat, mode : {"none", "read", "write"}, task : Blocks,
                     thread : Workers, nth : Nat]
    <2>1. want' = want /\ ops' = ops /\ doing' = doing /\ locks \subseteq H
      BY <1>6 DEF Unlock, WaitInv
    <2>2. \A h \in H : [h EXCEPT !.task = None] \in H /\ [h EXCEPT !.mode = "none"] \in H
      BY DEF Blocks
    <2> HIDE DEF H
    <2>3. \A g \in locks : LetGo(g) \subseteq H
      BY <2>1, <2>2 DEF LetGo
    <2>4. PICK h \in locks : UnlockOwn(w, h) \/ UnlockAlien(w, h)
      BY <1>6 DEF Unlock, Has
    <2>5. locks' \subseteq H
      <3>1. CASE UnlockOwn(w, h)
        BY <2>1, <3>1 DEF UnlockOwn
      <3>2. CASE UnlockAlien(w, h)
        BY <2>1, <2>2, <2>3, <3>2 DEF UnlockAlien
      <3> QED BY <2>4, <3>1, <3>2
    <2> QED BY <2>1, <2>5 DEF WaitInv, H
  <1>7. CASE SendOne(w)
    BY <1>3, <1>7, NoNewReceive DEF SendOne, InTask
  <1>8. CASE Receive(w)
    <2>1. /\ running[w] \in Receivers /\ locks' = locks /\ want' = want
          /\ running[w] # None /\ OneOp(running[w])
          /\ doing' = [doing EXCEPT ![running[w]] = "recv"]
      BY <1>8 DEF Receive, InTask
    <2> QED BY <1>1, <1>3, <2>1 DEF WaitInv
  <1>9. CASE Received(w) \/ YieldTask(w) \/ FinishTask(w)
    <2>1. PICK what \in {"run", "queued", "done"} : doing' = [doing EXCEPT ![running[w]] = what]
      BY <1>9 DEF Received, YieldTask, FinishTask
    <2>2. /\ locks' = locks /\ want' = want
          /\ ops' = ops \/ (running[w] # None /\ OneOp(running[w]))
      <3>1. CASE Received(w) \/ FinishTask(w)
        BY <3>1 DEF Received, FinishTask
      <3>2. CASE YieldTask(w)
        BY <3>2 DEF YieldTask, InTask
      <3> QED BY <1>9, <3>1, <3>2
    <2>3. CASE ops' = ops
      BY <1>1, <2>1, <2>2, <2>3 DEF WaitInv
    <2>4. CASE running[w] # None /\ OneOp(running[w])
      BY <1>1, <1>3, <2>1, <2>2, <2>4, NoNewReceive
    <2> QED BY <2>2, <2>3, <2>4
  <1> QED BY <1>4, <1>5, <1>6, <1>7, <1>8, <1>9 DEF TaskCall

LEMMA WaitInvInductive ==
    ASSUME PlaceInv, WaitInv, [PoolNext]_all_vars
    PROVE  WaitInv'
  <1>1. doing \in [Tasks -> {"new", "queued", "done"} \cup Busy] /\ ops \in [Tasks -> Nat]
    BY DEF PlaceInv, WaitInv
  <1>2. ASSUME NEW w \in Workers, NEW t \in Tasks, SpawnTask(w, t) PROVE WaitInv'
    BY <1>1, <1>2, NoNewReceive DEF SpawnTask
  <1>3. ASSUME NEW w \in Workers, Start(w) PROVE WaitInv'
    BY <1>1, <1>3, NoNewReceive DEF Start
  <1>4. ASSUME NEW w \in Workers, OwnEmpty(w) \/ StealNothing(w) PROVE WaitInv'
    BY <1>1, <1>4, NoNewReceive DEF OwnEmpty, StealNothing
  <1>5. CASE UNCHANGED pool_vars
    BY <1>1, <1>5, NoNewReceive DEF pool_vars
  <1> QED BY <1>2, <1>3, <1>4, <1>5, TaskCallKeepsWaits
          DEF PoolNext, FindTask, TakeOwn, TakeOther, all_vars

LEMMA WaitInvInit == PoolInit => WaitInv
  BY DEF PoolInit, WaitInv, NoLock

\* Of finitely many things with a number, one has the greatest.
LEMMA GreatestOf ==
    ASSUME NEW g, NEW A, IsFiniteSet(A), A # {}, \A x \in A : g[x] \in Nat
    PROVE  \E x \in A : \A y \in A : g[y] <= g[x]
  <1> DEFINE Greatest(S) == \E x \in S : \A y \in S : g[y] <= g[x]
             Good == {n \in Nat : \A S \in SUBSET A : Cardinality(S) = n /\ S # {} => Greatest(S)}
  <1>1. 0 \in Good
    <2>1. \A S \in SUBSET A : Cardinality(S) = 0 => S = {}
      BY FS_Subset, FS_EmptySet
    <2> QED BY <2>1
  <1>2. ASSUME NEW n \in Nat, n \in Good PROVE n + 1 \in Good
    <2>1. ASSUME NEW S \in SUBSET A, Cardinality(S) = n + 1, S # {} PROVE Greatest(S)
      <3>1. PICK x \in S : TRUE
        BY <2>1
      <3>2. IsFiniteSet(S)
        BY FS_Subset
      <3>3. Cardinality(S \ {x}) = n /\ S \ {x} \in SUBSET A
        <4>1. Cardinality(S \ {x}) = Cardinality(S) - 1
          BY <3>1, <3>2, FS_RemoveElement
        <4> QED BY <2>1, <4>1
      <3>4. CASE S \ {x} = {}
        <4>1. \A y \in S : y = x
          BY <3>4
        <4>2. g[x] \in Nat
          OBVIOUS
        <4>3. \A y \in S : g[y] <= g[x]
          BY <4>1, <4>2
        <4> QED BY <4>3
      <3>5. CASE S \ {x} # {}
        <4>0. Greatest(S \ {x})
          <5> HIDE DEF Greatest
          <5> QED BY <1>2, <3>3, <3>5
        <4>1. PICK m \in S \ {x} : \A y \in S \ {x} : g[y] <= g[m]
          BY <4>0
        <4>2. \A y \in S : g[y] \in Nat /\ (y = x \/ g[y] <= g[m])
          BY <4>1
        <4>3. m \in S /\ x \in S /\ g[m] \in Nat /\ g[x] \in Nat
          BY <4>2
        <4>4. CASE g[x] <= g[m]
          BY <4>2, <4>3, <4>4
        <4>5. CASE g[m] < g[x]
          <5>1. \A y \in S : g[y] <= g[x]
            BY <4>2, <4>3, <4>5
          <5> QED BY <4>3, <5>1
        <4> QED BY <4>3, <4>4, <4>5
      <3> QED BY <3>4, <3>5
    <2> HIDE DEF Greatest
    <2> QED BY <2>1
  <1>3. Nat \subseteq Good
    <2> HIDE DEF Good
    <2> QED BY <1>1, <1>2, SetInduction
  <1>4. Cardinality(A) \in Nat
    BY FS_CardinalityType
  <1> QED BY <1>3, <1>4

\* The greatest lock waited for is free, or its holder runs: it waits for none greater.
LEMMA GreatestWaitEnds ==
    ASSUME Orderly, PlaceInv, WaitInv
    PROVE  NoCircularWait
  <1> SUFFICES ASSUME \E t \in Tasks : doing[t] = "lock" PROVE \E w \in Workers : GoesOn(w)
    BY DEF NoCircularWait
  <1> DEFINE waiting == {t \in Tasks : doing[t] = "lock"}
             number == [t \in Tasks |-> want[t].lock]
  <1>1. waiting # {} /\ IsFiniteSet(waiting)
    BY QueueAssumption, FS_Subset
  <1>2. \A t \in Tasks : number[t] = want[t].lock /\ number[t] \in Nat
    BY DEF WaitInv
  <1>3. waiting \subseteq Tasks
    OBVIOUS
  <1>4. PICK t \in waiting : \A u \in waiting : want[u].lock <= want[t].lock
    <2> HIDE DEF waiting, number
    <2>1. \A t \in waiting : number[t] \in Nat
      BY <1>2, <1>3
    <2>2. \E t \in waiting : \A u \in waiting : number[u] <= number[t]
      BY <1>1, <2>1, GreatestOf
    <2> QED BY <1>2, <1>3, <2>2
  <1>5. t \in Tasks /\ doing[t] = "lock" /\ want[t].lock \in Nat
    BY DEF WaitInv
  <1>6. PICK w \in Workers : running[w] = t
    BY <1>5 DEF PlaceInv, Busy
  <1>7. InTask(w, "lock")
    BY <1>5, <1>6, QueueAssumption DEF InTask
  <1>8. CASE Available(want[t].lock, want[t].mode)
    BY <1>6, <1>7, <1>8 DEF GoesOn
  <1>9. CASE ~Available(want[t].lock, want[t].mode)
    <2>1. PICK h \in locks : h.lock = want[t].lock
      BY <1>9 DEF Available
    <2>2. /\ h.task \in Tasks /\ h.thread \in Workers /\ running[h.thread] = h.task
          /\ doing[h.task] \in {"run", "lock"}
          /\ doing[h.task] = "lock" => h.lock < want[h.task].lock
      BY DEF Orderly, WaitInv
    <2>3. doing[h.task] # "lock"
      <3> SUFFICES ASSUME doing[h.task] = "lock" PROVE FALSE
        OBVIOUS
      <3>1. h.task \in waiting
        BY <2>2
      <3>2. h.lock < want[h.task].lock /\ want[h.task].lock <= want[t].lock /\ want[h.task].lock \in Nat
        BY <1>4, <2>2, <3>1 DEF WaitInv
      <3> QED BY <1>5, <2>1, <3>2
    <2>4. InTask(h.thread, "run")
      BY <2>2, <2>3, QueueAssumption DEF InTask
    <2> QED BY <2>2, <2>4 DEF GoesOn
  <1> QED BY <1>8, <1>9

\* Workers are in different tasks: not all of them can be in receivers.
LEMMA ReceiversLeaveAWorker ==
    ASSUME PlaceInv, WaitInv, NoCircularWait
    PROVE  PoolMoves
  <1> SUFFICES ASSUME Cardinality(Receivers) < Cardinality(Workers),
                      \A w \in Workers : running[w] # None /\ ~GoesOn(w)
               PROVE  FALSE
    BY DEF PoolMoves
  <1>1. \A w \in Workers : running[w] \in Tasks /\ doing[running[w]] \in Busy
    BY DEF PlaceInv, PoolListInv, Blocks
  <1>2. \A w \in Workers : doing[running[w]] # "run"
    BY DEF GoesOn, InTask
  <1>3. \A t \in Tasks : doing[t] # "lock"
    BY DEF NoCircularWait
  <1>4. \A w \in Workers : running[w] \in Receivers
    BY <1>1, <1>2, <1>3 DEF Busy, WaitInv
  <1>5. running \in Injection(Workers, Receivers)
    BY <1>4 DEF PlaceInv, PoolListInv, Injection, IsInjective
  <1>6. IsFiniteSet(Receivers)
    BY PoolAssumption, QueueAssumption, FS_Subset
  <1>7. IsFiniteSet(Workers) /\ Cardinality(Workers) <= Cardinality(Receivers)
    BY <1>5, <1>6, FS_Injection DEF ExistsInjection
  <1>8. Cardinality(Workers) \in Nat /\ Cardinality(Receivers) \in Nat
    BY <1>6, <1>7, FS_CardinalityType
  <1> QED BY <1>7, <1>8

\* Mutexes and rwlocks in a pool of threads, for any workers, tasks and locks, and whatever
\* callers have done before: in a state in which each lock held is held in order, the waits
\* do not close to a circle, and with more workers than receivers some worker can go on.
\* This is what remains of LocksAreGiven and OthersFinish without fairness.
THEOREM SomeWorkerGoesOn == PoolSafeSpec => []OrderlyPoolMoves
  <1> DEFINE I == PlaceInv /\ WaitInv
  <1>1. PoolInit => I
    BY PlaceInvInit, WaitInvInit
  <1>2. I /\ [PoolNext]_all_vars => I'
    BY PlaceInvInductive, WaitInvInductive
  <1>3. I => OrderlyPoolMoves
    BY GreatestWaitEnds, ReceiversLeaveAWorker DEF OrderlyPoolMoves
  <1> QED BY <1>1, <1>2, <1>3, PTL DEF PoolSafeSpec
==============================================================================
