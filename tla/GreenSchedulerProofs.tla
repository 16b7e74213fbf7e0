------------------------- MODULE GreenSchedulerProofs -------------------------
(***************************************************************************)
(* Proofs about GreenScheduler for any pool, any number of tasks and any   *)
(* bounds.  The inductive invariant is InPlace: the types, one place per   *)
(* task, and the agreement of a task's place with its state word.  It is   *)
(* inductive as long as no block is handed out again while a worker is     *)
(* still leaving it; the theorems name the two ways to be sure of that.    *)
(* The last part is about joins: Task_Wait polls memory that is still       *)
(* allocated.                                                              *)
(***************************************************************************)
EXTENDS GreenScheduler, TLAPS

InPlace == TypeOK /\ OnePlace /\ PlaceMatchesState

\* No freed block is used again, or none is freed under a worker's feet.
NoBlockRecycledEarly == Reuse = FALSE \/ StackLeftBeforeFree

------------------------------------------------------------------------------
(* The three operations on a run queue, as operations on sequences.          *)

LEMMA PushSeq ==
    ASSUME NEW S, NEW q \in Seq(S), NEW t \in S
    PROVE  /\ <<t>> \o q \in Seq(S)
           /\ Len(<<t>> \o q) = Len(q) + 1
           /\ \A i \in 1..(Len(q) + 1) :
                 (<<t>> \o q)[i] = IF i = 1 THEN t ELSE q[i - 1]
  OBVIOUS

LEMMA PopSeq ==
    ASSUME NEW S, NEW q \in Seq(S), q # <<>>
    PROVE  /\ Head(q) \in S /\ Head(q) = q[1] /\ Len(q) \in Nat /\ Len(q) >= 1
           /\ Tail(q) \in Seq(S)
           /\ Len(Tail(q)) = Len(q) - 1
           /\ \A i \in 1..(Len(q) - 1) : Tail(q)[i] = q[i + 1]
  OBVIOUS

LEMMA StealSeq ==
    ASSUME NEW S, NEW q \in Seq(S), q # <<>>
    PROVE  /\ Last(q) \in S /\ Last(q) = q[Len(q)] /\ Len(q) \in Nat /\ Len(q) >= 1
           /\ Front(q) \in Seq(S)
           /\ Len(Front(q)) = Len(q) - 1
           /\ \A i \in 1..(Len(q) - 1) : Front(q)[i] = q[i]
<1>1. Len(q) \in Nat /\ Len(q) >= 1
  OBVIOUS
<1>2. Last(q) \in S /\ Last(q) = q[Len(q)]
  BY <1>1 DEF Last
<1>3. Front(q) = [i \in 1..(Len(q) - 1) |-> q[i]]
  BY <1>1 DEF Front
<1>4. \A i \in 1..(Len(q) - 1) : q[i] \in S
  BY <1>1
<1>5. Front(q) \in Seq(S) /\ Len(Front(q)) = Len(q) - 1
  BY <1>1, <1>3, <1>4
<1>. QED  BY <1>1, <1>2, <1>3, <1>5

------------------------------------------------------------------------------
(* The same operations on the queues of the pool.  Everything the invariant  *)
(* needs of them is which tasks are queued, and that no task is queued twice.*)

LEMMA AfterPush ==
    ASSUME TypeOK, QueuesDisjoint, NEW t \in Tasks, NEW w \in Workers, ~Queued(t),
           queue' = Pushed(t, w)
    PROVE  /\ queue' \in [Workers -> Seq(Tasks)]
           /\ \A u : Queued(u)' <=> Queued(u) \/ u = t
           /\ QueuesDisjoint'
<1>0. queue \in [Workers -> Seq(Tasks)]
  BY DEF TypeOK
<1>1. queue' = [queue EXCEPT ![w] = <<t>> \o queue[w]]
  BY DEF Pushed
<1>2. /\ queue'[w] \in Seq(Tasks) /\ Len(queue[w]) \in Nat
      /\ Len(queue'[w]) = Len(queue[w]) + 1
      /\ \A i \in 1..(Len(queue[w]) + 1) :
            queue'[w][i] = IF i = 1 THEN t ELSE queue[w][i - 1]
  BY <1>0, <1>1, PushSeq
<1>3. \A v \in Workers : v # w => queue'[v] = queue[v]
  BY <1>0, <1>1
<1>4. queue' \in [Workers -> Seq(Tasks)]
  BY <1>0, <1>1, <1>2
<1>5. \A u : Queued(u)' <=> Queued(u) \/ u = t
  <2>1. ASSUME NEW u, Queued(u)' PROVE Queued(u) \/ u = t
    <3>1. PICK v \in Workers : \E i \in 1..Len(queue'[v]) : queue'[v][i] = u
      BY <2>1 DEF Queued
    <3>0. PICK i \in 1..Len(queue'[v]) : queue'[v][i] = u
      BY <3>1
    <3>2. CASE v = w
      <4>1. i = 1 \/ (i - 1 \in 1..Len(queue[w]) /\ queue'[w][i] = queue[w][i - 1])
        BY <1>2, <3>0, <3>2
      <4>. QED  BY <1>2, <3>0, <3>2, <4>1 DEF Queued
    <3>3. CASE v # w
      BY <1>3, <3>0, <3>3 DEF Queued
    <3>. QED  BY <3>2, <3>3
  <2>2. ASSUME NEW u, Queued(u) PROVE Queued(u)'
    <3>1. PICK v \in Workers : \E i \in 1..Len(queue[v]) : queue[v][i] = u
      BY <2>2 DEF Queued
    <3>0. PICK i \in 1..Len(queue[v]) : queue[v][i] = u
      BY <3>1
    <3>2. CASE v = w
      <4>1. i + 1 \in 1..Len(queue'[w]) /\ queue'[w][i + 1] = queue[w][i]
        BY <1>2, <3>0, <3>2
      <4>. QED  BY <3>0, <3>2, <4>1 DEF Queued
    <3>3. CASE v # w
      BY <1>3, <3>0, <3>3 DEF Queued
    <3>. QED  BY <3>2, <3>3
  <2>3. Queued(t)'
    <3>1. 1 \in 1..Len(queue'[w]) /\ queue'[w][1] = t
      BY <1>2
    <3>. QED  BY <3>1 DEF Queued
  <2>. QED  BY <2>1, <2>2, <2>3
<1>6. QueuesDisjoint'
  <2> SUFFICES ASSUME NEW v1 \in Workers, NEW v2 \in Workers,
                      NEW i \in 1..Len(queue'[v1]), NEW j \in 1..Len(queue'[v2]),
                      queue'[v1][i] = queue'[v2][j]
               PROVE  v1 = v2 /\ i = j
    BY DEF QueuesDisjoint
  <2>1. ASSUME NEW v \in Workers, NEW k \in 1..Len(queue'[v]), ~(v = w /\ k = 1)
        PROVE  LET m == IF v = w THEN k - 1 ELSE k
               IN  m \in 1..Len(queue[v]) /\ queue'[v][k] = queue[v][m] /\ queue'[v][k] # t
    <3>1. LET m == IF v = w THEN k - 1 ELSE k
          IN  m \in 1..Len(queue[v]) /\ queue'[v][k] = queue[v][m]
      BY <1>2, <1>3, <2>1
    <3>. QED  BY <3>1 DEF Queued
  <2>2. queue'[w][1] = t
    BY <1>2
  <2>3. CASE v1 = w /\ i = 1
    BY <2>1, <2>2, <2>3
  <2>4. CASE v2 = w /\ j = 1
    BY <2>1, <2>2, <2>4
  <2>5. CASE ~(v1 = w /\ i = 1) /\ ~(v2 = w /\ j = 1)
    <3>1. LET m == IF v1 = w THEN i - 1 ELSE i
              n == IF v2 = w THEN j - 1 ELSE j
          IN  /\ m \in 1..Len(queue[v1]) /\ n \in 1..Len(queue[v2])
              /\ queue[v1][m] = queue[v2][n]
      BY <2>1, <2>5
    <3>2. LET m == IF v1 = w THEN i - 1 ELSE i
              n == IF v2 = w THEN j - 1 ELSE j
          IN  v1 = v2 /\ m = n
      BY <3>1 DEF QueuesDisjoint
    <3>. QED  BY <3>2
  <2>. QED  BY <2>3, <2>4, <2>5
<1>. QED  BY <1>4, <1>5, <1>6

\* Pop and steal both take one position out of one queue.
LEMMA AfterRemove ==
    ASSUME TypeOK, QueuesDisjoint, NEW w \in Workers, NEW k \in 1..Len(queue[w]),
           NEW r \in Seq(Tasks), Len(r) = Len(queue[w]) - 1,
           \A i \in 1..(Len(queue[w]) - 1) :
               r[i] = queue[w][IF i < k THEN i ELSE i + 1],
           queue' = [queue EXCEPT ![w] = r]
    PROVE  /\ queue' \in [Workers -> Seq(Tasks)]
           /\ \A u : Queued(u)' <=> Queued(u) /\ u # queue[w][k]
           /\ QueuesDisjoint'
<1>0. queue \in [Workers -> Seq(Tasks)] /\ Len(queue[w]) \in Nat
  BY DEF TypeOK
<1>1. queue'[w] = r /\ \A v \in Workers : v # w => queue'[v] = queue[v]
  BY <1>0
<1>2. queue' \in [Workers -> Seq(Tasks)]
  BY <1>0
<1> DEFINE From(v, i) == IF v = w /\ i >= k THEN i + 1 ELSE i
<1>3. ASSUME NEW v \in Workers, NEW i \in 1..Len(queue'[v])
      PROVE  /\ From(v, i) \in 1..Len(queue[v])
             /\ queue'[v][i] = queue[v][From(v, i)]
             /\ ~(v = w /\ From(v, i) = k)
  <2>1. CASE v = w
    BY <1>0, <1>1, <1>3, <2>1
  <2>2. CASE v # w
    BY <1>1, <1>3, <2>2
  <2>. QED  BY <2>1, <2>2
<1>4. \A u : Queued(u)' <=> Queued(u) /\ u # queue[w][k]
  <2>1. ASSUME NEW u, Queued(u)' PROVE Queued(u) /\ u # queue[w][k]
    <3>1. PICK v \in Workers : \E i \in 1..Len(queue'[v]) : queue'[v][i] = u
      BY <2>1 DEF Queued
    <3>2. PICK i \in 1..Len(queue'[v]) : queue'[v][i] = u
      BY <3>1
    <3>3. /\ From(v, i) \in 1..Len(queue[v]) /\ u = queue[v][From(v, i)]
          /\ ~(v = w /\ From(v, i) = k)
      BY <1>3, <3>2
    <3> HIDE DEF From
    <3>4. Queued(u)
      BY <3>3 DEF Queued
    <3>5. u # queue[w][k]
      BY <3>3 DEF QueuesDisjoint
    <3>. QED  BY <3>4, <3>5
  <2>2. ASSUME NEW u, Queued(u), u # queue[w][k] PROVE Queued(u)'
    <3>1. PICK v \in Workers : \E i \in 1..Len(queue[v]) : queue[v][i] = u
      BY <2>2 DEF Queued
    <3>2. PICK i \in 1..Len(queue[v]) : queue[v][i] = u
      BY <3>1
    <3>3. CASE v = w
      <4>1. i # k
        BY <2>2, <3>2, <3>3
      <4>2. PICK j \in 1..(Len(queue[w]) - 1) : i = IF j < k THEN j ELSE j + 1
        <5>1. CASE i < k
          BY <1>0, <3>3, <5>1
        <5>2. CASE i > k
          <6>1. i - 1 \in 1..(Len(queue[w]) - 1) /\ ~(i - 1 < k) /\ i = (i - 1) + 1
            BY <1>0, <3>3, <5>2
          <6>. QED  BY <6>1
        <5>. QED  BY <1>0, <3>3, <4>1, <5>1, <5>2
      <4>3. j \in 1..Len(queue'[w]) /\ queue'[w][j] = u
        BY <1>1, <3>2, <3>3, <4>2
      <4>. QED  BY <4>3 DEF Queued
    <3>4. CASE v # w
      BY <1>1, <3>2, <3>4 DEF Queued
    <3>. QED  BY <3>3, <3>4
  <2>. QED  BY <2>1, <2>2
<1>5. QueuesDisjoint'
  <2> SUFFICES ASSUME NEW v1 \in Workers, NEW v2 \in Workers,
                      NEW i \in 1..Len(queue'[v1]), NEW j \in 1..Len(queue'[v2]),
                      queue'[v1][i] = queue'[v2][j]
               PROVE  v1 = v2 /\ i = j
    BY DEF QueuesDisjoint
  <2>1. /\ From(v1, i) \in 1..Len(queue[v1]) /\ From(v2, j) \in 1..Len(queue[v2])
        /\ queue[v1][From(v1, i)] = queue[v2][From(v2, j)]
    BY <1>3
  <2>2. v1 = v2 /\ From(v1, i) = From(v2, j)
    <3> HIDE DEF From
    <3>. QED  BY <2>1 DEF QueuesDisjoint
  <2>3. i \in Int /\ j \in Int /\ k \in Int
    BY <1>1, <1>2, <1>0
  <2>. QED  BY <2>2, <2>3
<1>. QED  BY <1>2, <1>4, <1>5

LEMMA AfterPop ==
    ASSUME TypeOK, QueuesDisjoint, NEW w \in Workers, queue[w] # <<>>,
           queue' = [queue EXCEPT ![w] = Tail(@)]
    PROVE  /\ Head(queue[w]) \in Tasks /\ Queued(Head(queue[w]))
           /\ queue' \in [Workers -> Seq(Tasks)]
           /\ \A u : Queued(u)' <=> Queued(u) /\ u # Head(queue[w])
           /\ QueuesDisjoint'
<1>1. queue[w] \in Seq(Tasks)
  BY DEF TypeOK
<1>2. /\ Head(queue[w]) \in Tasks /\ Head(queue[w]) = queue[w][1]
      /\ Len(queue[w]) \in Nat /\ Len(queue[w]) >= 1
      /\ Tail(queue[w]) \in Seq(Tasks)
      /\ Len(Tail(queue[w])) = Len(queue[w]) - 1
      /\ \A i \in 1..(Len(queue[w]) - 1) : Tail(queue[w])[i] = queue[w][i + 1]
  BY <1>1, PopSeq
<1>3. 1 \in 1..Len(queue[w])
  BY <1>2
<1>4. \A i \in 1..(Len(queue[w]) - 1) :
         Tail(queue[w])[i] = queue[w][IF i < 1 THEN i ELSE i + 1]
  BY <1>2
<1>5. Queued(Head(queue[w]))
  BY <1>2, <1>3 DEF Queued
<1>6. /\ queue' \in [Workers -> Seq(Tasks)]
      /\ \A u : Queued(u)' <=> Queued(u) /\ u # queue[w][1]
      /\ QueuesDisjoint'
  BY <1>2, <1>3, <1>4, AfterRemove
<1>. QED  BY <1>2, <1>5, <1>6

LEMMA AfterSteal ==
    ASSUME TypeOK, QueuesDisjoint, NEW w \in Workers, queue[w] # <<>>,
           queue' = [queue EXCEPT ![w] = Front(@)]
    PROVE  /\ Last(queue[w]) \in Tasks /\ Queued(Last(queue[w]))
           /\ queue' \in [Workers -> Seq(Tasks)]
           /\ \A u : Queued(u)' <=> Queued(u) /\ u # Last(queue[w])
           /\ QueuesDisjoint'
<1>1. queue[w] \in Seq(Tasks)
  BY DEF TypeOK
<1>2. /\ Last(queue[w]) \in Tasks /\ Last(queue[w]) = queue[w][Len(queue[w])]
      /\ Len(queue[w]) \in Nat /\ Len(queue[w]) >= 1
      /\ Front(queue[w]) \in Seq(Tasks)
      /\ Len(Front(queue[w])) = Len(queue[w]) - 1
      /\ \A i \in 1..(Len(queue[w]) - 1) : Front(queue[w])[i] = queue[w][i]
  BY <1>1, StealSeq
<1>3. Len(queue[w]) \in 1..Len(queue[w])
  BY <1>2
<1>4. \A i \in 1..(Len(queue[w]) - 1) :
         Front(queue[w])[i] = queue[w][IF i < Len(queue[w]) THEN i ELSE i + 1]
  BY <1>2
<1>5. Queued(Last(queue[w]))
  BY <1>2, <1>3 DEF Queued
<1>6. /\ queue' \in [Workers -> Seq(Tasks)]
      /\ \A u : Queued(u)' <=> Queued(u) /\ u # queue[w][Len(queue[w])]
      /\ QueuesDisjoint'
  BY <1>2, <1>3, <1>4, AfterRemove
<1>. QED  BY <1>2, <1>5, <1>6

LEMMA QueueAlone ==
    ASSUME UNCHANGED queue
    PROVE  (\A u : Queued(u)' <=> Queued(u)) /\ (QueuesDisjoint' <=> QueuesDisjoint)
BY DEF Queued, QueuesDisjoint

LEMMA QueuedIsTask ==
    ASSUME TypeOK, NEW u, Queued(u)
    PROVE  u \in Tasks
<1>1. PICK v \in Workers : \E i \in 1..Len(queue[v]) : queue[v][i] = u
  BY DEF Queued
<1>2. queue[v] \in Seq(Tasks)
  BY DEF TypeOK
<1>. QED  BY <1>1, <1>2

------------------------------------------------------------------------------
(* The invariant, action by action.  Queued stays folded: the lemmas above   *)
(* say all that is needed of the queues.                                     *)

\* What a successful pop or steal does besides its queue.
Taken(w, h) ==
    /\ wpc[w] \in {"pop", "steal"}
    /\ found' = [found EXCEPT ![w] = h]
    /\ wpc' = [wpc EXCEPT ![w] = "switch"]
    /\ UNCHANGED <<current, state, live, waiting, yields, handles, spawned>>
    /\ UNCHANGED <<mpc, mwaiting, shutdown>>

LEMMA TakenKeepsInPlace ==
    ASSUME InPlace, NEW w \in Workers, NEW h \in Tasks, Queued(h), Taken(w, h),
           queue' \in [Workers -> Seq(Tasks)], QueuesDisjoint',
           \A u : Queued(u)' <=> Queued(u) /\ u # h
    PROVE  InPlace'
<1> USE DEF InPlace, OnePlace
<1>1. TypeOK'
  BY DEF TypeOK, Taken
<1>2. /\ h # None /\ found'[w] = h /\ wpc'[w] = "switch" /\ found[w] = None /\ current[w] = None
      /\ \A v \in Workers : v # w => found'[v] = found[v] /\ wpc'[v] = wpc[v]
      /\ UNCHANGED <<current, state, live>>
  BY NoneIsNoTask DEF Taken, TypeOK, PlaceMatchesState
<1>3. HandsDisjoint'
  <2>1. ASSUME NEW v \in Workers PROVE ~Queued(found[v])' /\ ~Queued(current[v])'
    BY <1>2, <2>1 DEF HandsDisjoint
  <2>2. ASSUME NEW v \in Workers, NEW x \in Workers, v # x
        PROVE  /\ found'[v] # None => found'[v] # found'[x]
               /\ current'[v] # None => current'[v] # current'[x]
    BY <1>2, <2>2 DEF HandsDisjoint
  <2>3. ASSUME NEW v \in Workers, NEW x \in Workers, found'[v] # None
        PROVE  found'[v] # current'[x]
    BY <1>2, <2>3 DEF HandsDisjoint
  <2>. QED  BY <2>1, <2>2, <2>3 DEF HandsDisjoint
<1>4. PlaceMatchesState'
  BY <1>2 DEF PlaceMatchesState
<1>. QED  BY <1>1, <1>3, <1>4

LEMMA WorkerKeepsInPlace ==
    ASSUME InPlace, NEW w \in Workers, WorkerStep(w)
    PROVE  InPlace'
<1> USE DEF InPlace, OnePlace
<1>0. \A u : Queued(u) => u \in Tasks
  BY QueuedIsTask
<1>1. CASE TestShutdown(w)
  <2> USE <1>1 DEF TestShutdown, mainVars, taskVars
  <2>1. TypeOK'
    BY DEF TypeOK
  <2>2. QueuesDisjoint' /\ \A u : Queued(u)' <=> Queued(u)
    BY QueueAlone
  <2>3. HandsDisjoint'
    BY <2>2 DEF HandsDisjoint
  <2>4. PlaceMatchesState'
    BY <2>2 DEF PlaceMatchesState, TypeOK
  <2>. QED  BY <2>1, <2>2, <2>3, <2>4
<1>2. CASE Pop(w)
  <2>1. CASE queue[w] # <<>>
    <3> DEFINE h == Head(queue[w])
    <3>1. /\ h \in Tasks /\ Queued(h)
          /\ queue' \in [Workers -> Seq(Tasks)]
          /\ \A u : Queued(u)' <=> Queued(u) /\ u # h
          /\ QueuesDisjoint'
      BY <1>2, <2>1, AfterPop DEF Pop
    <3>2. Taken(w, h)
      BY <1>2, <2>1, <3>1 DEF Pop, Taken, mainVars, taskVars
    <3> HIDE DEF h
    <3>. QED  BY <3>1, <3>2, TakenKeepsInPlace
  <2>2. CASE queue[w] = <<>>
    <3> USE <1>2, <2>2 DEF Pop, mainVars, taskVars
    <3>0. QueuesDisjoint' /\ \A u : Queued(u)' <=> Queued(u)
      BY QueueAlone
    <3>1. TypeOK'
      BY DEF TypeOK
    <3>2. HandsDisjoint'
      BY <3>0 DEF HandsDisjoint
    <3>3. PlaceMatchesState'
      BY <3>0 DEF PlaceMatchesState, TypeOK
    <3>. QED  BY <3>0, <3>1, <3>2, <3>3
  <2>. QED  BY <2>1, <2>2
<1>3. CASE Switch(w)
  <2>0. found[w] \in Tasks /\ current[w] = None
    <3>1. wpc[w] = "switch"
      BY <1>3 DEF Switch
    <3>2. found[w] # None /\ ~(current[w] # None)
      BY <3>1 DEF PlaceMatchesState
    <3>. QED  BY <3>2 DEF TypeOK
  <2> DEFINE t == found[w]
  <2>1. TypeOK'
    BY <1>3, <2>0 DEF TypeOK, Switch, mainVars
  <2>2. QueuesDisjoint' /\ \A u : Queued(u)' <=> Queued(u)
    BY <1>3, QueueAlone DEF Switch
  <2>3. /\ found'[w] = None /\ current'[w] = t /\ wpc'[w] = "run" /\ t # None
        /\ state'[t] = "RUNNING" /\ live[t] /\ live' = live
        /\ \A v \in Workers : v # w => /\ found'[v] = found[v]
                                       /\ current'[v] = current[v]
                                       /\ wpc'[v] = wpc[v]
        /\ \A u \in Tasks : u # t => state'[u] = state[u]
    BY <1>3, <2>0, NoneIsNoTask DEF Switch, TypeOK, PlaceMatchesState
  <2>4. ~Queued(None) /\ ~Queued(t)
    BY <1>0, NoneIsNoTask DEF HandsDisjoint
  <2>5. \A v \in Workers : current[v] # t /\ (v # w => found[v] # t)
    BY <2>3 DEF HandsDisjoint
  <2>7. \A v \in Workers : /\ current[v] # None => current[v] \in Tasks
                           /\ found[v] # None => found[v] \in Tasks
    BY DEF TypeOK
  <2> HIDE DEF t
  <2>6. HandsDisjoint'
    <3>1. ASSUME NEW v \in Workers PROVE ~Queued(found[v])' /\ ~Queued(current[v])'
      BY <2>2, <2>3, <2>4, <3>1 DEF HandsDisjoint
    <3>2. ASSUME NEW v \in Workers, NEW x \in Workers, v # x
          PROVE  /\ found'[v] # None => found'[v] # found'[x]
                 /\ current'[v] # None => current'[v] # current'[x]
      BY <2>3, <2>5, <3>2 DEF HandsDisjoint
    <3>3. ASSUME NEW v \in Workers, NEW x \in Workers, found'[v] # None
          PROVE  found'[v] # current'[x]
      BY <2>3, <2>5, <3>3 DEF HandsDisjoint
    <3>. QED  BY <3>1, <3>2, <3>3 DEF HandsDisjoint
  <2>8. PlaceMatchesState'
    BY <2>2, <2>3, <2>4, <2>5, <2>7 DEF PlaceMatchesState
  <2>. QED  BY <2>1, <2>2, <2>6, <2>8
<1>4. CASE Leave(w)
  <2> USE <1>4 DEF Leave, mainVars, taskVars
  <2>1. TypeOK'
    BY DEF TypeOK
  <2>2. QueuesDisjoint' /\ \A u : Queued(u)' <=> Queued(u)
    BY QueueAlone
  <2>3. HandsDisjoint'
    BY <2>2 DEF HandsDisjoint
  <2>4. PlaceMatchesState'
    BY <2>2 DEF PlaceMatchesState, TypeOK
  <2>. QED  BY <2>1, <2>2, <2>3, <2>4
<1>5. CASE Back(w)
  <2> USE <1>5 DEF Back, mainVars, taskVars
  <2>0. /\ current[w] \in Tasks /\ ~Queued(current[w]) /\ found[w] = None
        /\ \/ state[current[w]] = "FINISHED"
           \/ live[current[w]] /\ state[current[w]] = "READY"
    BY DEF PlaceMatchesState, HandsDisjoint, TypeOK
  <2>1. CASE state[current[w]] = "FINISHED"
    <3>0. QueuesDisjoint' /\ \A u : Queued(u)' <=> Queued(u)
      BY <2>1, QueueAlone
    <3>1. TypeOK'
      BY <2>1 DEF TypeOK
    <3>4. /\ ~Queued(None) /\ current'[w] = None /\ found' = found
          /\ \A v \in Workers : v # w => current'[v] = current[v]
      BY <1>0, <2>1, NoneIsNoTask DEF TypeOK
    <3>2. HandsDisjoint'
      <4> HIDE <1>5 DEF Back
      <4>. QED  BY <3>0, <3>4 DEF HandsDisjoint
    <3>3. PlaceMatchesState'
      BY <2>1, <3>0 DEF PlaceMatchesState, TypeOK
    <3>. QED  BY <3>0, <3>1, <3>2, <3>3
  <2>2. CASE state[current[w]] = "READY"
    <3>0. /\ queue' \in [Workers -> Seq(Tasks)]
          /\ \A u : Queued(u)' <=> Queued(u) \/ u = current[w]
          /\ QueuesDisjoint'
      BY <2>0, <2>2, AfterPush
    <3>1. TypeOK'
      BY <2>2, <3>0 DEF TypeOK
    <3>4. /\ ~Queued(None) /\ current'[w] = None /\ found' = found
          /\ current[w] # None
          /\ \A v \in Workers : v # w => current'[v] = current[v]
      BY <1>0, <2>0, <2>2, NoneIsNoTask DEF TypeOK
    <3>2. HandsDisjoint'
      <4> HIDE <1>5 DEF Back
      <4>1. ASSUME NEW v \in Workers PROVE ~Queued(found[v])' /\ ~Queued(current[v])'
        <5>1. found[v] # current[w] /\ ~Queued(found[v])
          BY <3>4 DEF HandsDisjoint
        <5>2. current'[v] # current[w] /\ ~Queued(current'[v])
          BY <3>4 DEF HandsDisjoint
        <5>3. ~Queued(found[v])'
          BY <3>0, <3>4, <5>1
        <5>4. ~Queued(current[v])'
          BY <3>0, <5>2
        <5>. QED  BY <5>3, <5>4
      <4>2. ASSUME NEW v \in Workers, NEW x \in Workers, v # x
            PROVE  /\ found'[v] # None => found'[v] # found'[x]
                   /\ current'[v] # None => current'[v] # current'[x]
        BY <3>4, <4>2 DEF HandsDisjoint
      <4>3. ASSUME NEW v \in Workers, NEW x \in Workers, found'[v] # None
            PROVE  found'[v] # current'[x]
        BY <3>4, <4>3 DEF HandsDisjoint
      <4>. QED  BY <4>1, <4>2, <4>3 DEF HandsDisjoint
    <3>3. PlaceMatchesState'
      BY <2>0, <2>2, <3>0 DEF PlaceMatchesState, TypeOK
    <3>. QED  BY <3>0, <3>1, <3>2, <3>3
  <2>. QED  BY <2>0, <2>1, <2>2
<1>. QED  BY <1>1, <1>2, <1>3, <1>4, <1>5 DEF WorkerStep

LEMMA StealKeepsInPlace ==
    ASSUME InPlace, NEW w \in Workers, NEW v \in Workers, Steal(w, v)
    PROVE  InPlace'
<1> USE DEF InPlace, OnePlace
<1>1. CASE queue[v] # <<>>
  <2> DEFINE h == Last(queue[v])
  <2>1. /\ h \in Tasks /\ Queued(h)
        /\ queue' \in [Workers -> Seq(Tasks)]
        /\ \A u : Queued(u)' <=> Queued(u) /\ u # h
        /\ QueuesDisjoint'
    BY <1>1, AfterSteal DEF Steal
  <2>2. Taken(w, h)
    BY <1>1 DEF Steal, Taken, mainVars, taskVars
  <2> HIDE DEF h
  <2>. QED  BY <2>1, <2>2, TakenKeepsInPlace
<1>2. CASE queue[v] = <<>>
  <2> USE <1>2 DEF Steal, mainVars, taskVars
  <2>1. TypeOK'
    BY DEF TypeOK
  <2>2. QueuesDisjoint' /\ \A u : Queued(u)' <=> Queued(u)
    BY QueueAlone
  <2>3. HandsDisjoint'
    BY <2>2 DEF HandsDisjoint
  <2>4. PlaceMatchesState'
    BY <2>2 DEF PlaceMatchesState, TypeOK
  <2>. QED  BY <2>1, <2>2, <2>3, <2>4
<1>. QED  BY <1>1, <1>2

\* Most calls of a task or of the main thread move no task.
LEMMA SameHands ==
    ASSUME OnePlace, UNCHANGED <<queue, found, current>>
    PROVE  OnePlace' /\ \A u : Queued(u)' <=> Queued(u)
BY QueueAlone DEF OnePlace, HandsDisjoint

\* Task_Wait frees only blocks whose state word is FINISHED; none of those is
\* queued, found or running.
LEMMA FreeKeepsPlaceMatchesState ==
    ASSUME TypeOK, PlaceMatchesState, NEW t \in Tasks, state[t] = "FINISHED",
           UNCHANGED <<queue, found, current, wpc, state>>,
           live' = [live EXCEPT ![t] = FALSE]
    PROVE  PlaceMatchesState'
<1>1. \A u \in Tasks : u # t => live'[u] = live[u]
  BY DEF TypeOK
<1>2. \A u : Queued(u)' <=> Queued(u)
  BY QueueAlone
<1>3. \A v \in Workers : /\ found[v] # None => found[v] \in Tasks
                         /\ current[v] # None => current[v] \in Tasks
  BY DEF TypeOK
<1>. QED  BY <1>1, <1>2, <1>3 DEF PlaceMatchesState

LEMMA GiveUpKeepsInPlace ==
    ASSUME InPlace, NEW w \in Workers, wpc[w] = "run", GiveUp(w), UNCHANGED live
    PROVE  OnePlace' /\ PlaceMatchesState' /\ current[w] \in Tasks
           /\ state' \in [Tasks -> {"none", "READY", "RUNNING", "FINISHED"}]
<1>1. OnePlace' /\ \A u : Queued(u)' <=> Queued(u)
  BY SameHands DEF GiveUp, InPlace
<1> DEFINE t == current[w]
<1>2. t \in Tasks /\ t # None /\ live[t] /\ state[t] = "RUNNING"
  BY DEF InPlace, TypeOK, PlaceMatchesState
<1>3. /\ state'[t] = "READY" /\ (\A u \in Tasks : u # t => state'[u] = state[u])
      /\ wpc'[w] = "back" /\ (\A v \in Workers : v # w => wpc'[v] = wpc[v])
      /\ UNCHANGED <<queue, found, current>>
  BY <1>2 DEF GiveUp, InPlace, TypeOK
<1>4. ~Queued(t) /\ \A v \in Workers : found[v] # t /\ (v # w => current[v] # t)
  BY <1>2 DEF InPlace, OnePlace, HandsDisjoint
<1>5. \A v \in Workers : /\ found[v] # None => found[v] \in Tasks
                         /\ current[v] # None => current[v] \in Tasks
  BY DEF InPlace, TypeOK
<1>6. PlaceMatchesState
  BY DEF InPlace
<1>7. state' \in [Tasks -> {"none", "READY", "RUNNING", "FINISHED"}]
  BY <1>2 DEF GiveUp, InPlace, TypeOK
<1>8. PlaceMatchesState'
  <2> HIDE DEF t
  <2>1. current[w] = t
    BY DEF t
  <2>2. ASSUME NEW u \in Tasks, Queued(u)' PROVE live'[u] /\ state'[u] = "READY"
    BY <1>1, <1>3, <1>4, <1>6, <2>2 DEF PlaceMatchesState
  <2>3. ASSUME NEW v \in Workers, v # w PROVE found[v] # t /\ current[v] # t
    BY <1>4, <2>3
  <2>. QED  BY <1>2, <1>3, <1>4, <1>5, <1>6, <2>1, <2>2, <2>3 DEF PlaceMatchesState
<1>. QED  BY <1>1, <1>2, <1>7, <1>8

LEMMA SpawnKeepsInPlace ==
    ASSUME InPlace, NoBlockRecycledEarly, NEW t \in Tasks, NEW v \in Workers, Spawn(t, v),
           UNCHANGED mainVars
    PROVE  InPlace'
<1> USE DEF InPlace, OnePlace
<1>0. \A x \in Workers : /\ found[x] # None => found[x] \in Tasks
                         /\ current[x] # None => current[x] \in Tasks
  BY DEF TypeOK
<1>1. ~Queued(t)
  BY DEF Spawn, PlaceMatchesState
<1>2. /\ queue' \in [Workers -> Seq(Tasks)]
      /\ \A u : Queued(u)' <=> Queued(u) \/ u = t
      /\ QueuesDisjoint'
  BY <1>1, AfterPush DEF Spawn
<1>3. spawned' \in 0..MaxSpawns
  BY BoundsAreNat DEF Spawn, TypeOK
<1>4. yields' \in [Tasks -> 0..MaxYields]
  BY BoundsAreNat DEF Spawn, TypeOK
<1>5. TypeOK'
  BY <1>2, <1>3, <1>4 DEF Spawn, TypeOK, mainVars
<1>6. ASSUME NEW x \in Workers PROVE found[x] # t /\ current[x] # t
  <2>1. ~live[t] /\ (state[t] = "none" \/ Reuse)
    BY DEF Spawn
  <2>2. found[x] # t
    BY <2>1, <1>0, NoneIsNoTask DEF PlaceMatchesState
  <2>3. ASSUME current[x] = t PROVE FALSE
    <3>1. wpc[x] \in {"leave", "back"}
      BY <2>1, <2>3, NoneIsNoTask DEF PlaceMatchesState
    <3>2. state[t] # "none"
      BY <2>3, <3>1 DEF PlaceMatchesState
    <3>. QED  BY <2>1, <2>3, <3>1, <3>2 DEF NoBlockRecycledEarly, StackLeftBeforeFree
  <2>. QED  BY <2>2, <2>3
<1>7. /\ state'[t] = "READY" /\ live'[t]
      /\ \A u \in Tasks : u # t => state'[u] = state[u] /\ live'[u] = live[u]
      /\ UNCHANGED <<found, current, wpc>>
  BY DEF Spawn, TypeOK
<1>8. HandsDisjoint'
  BY <1>2, <1>6, <1>7 DEF HandsDisjoint
<1>9. PlaceMatchesState'
  <2>1. ASSUME NEW u \in Tasks, Queued(u)' PROVE live'[u] /\ state'[u] = "READY"
    BY <1>2, <1>7, <2>1 DEF PlaceMatchesState
  <2>. QED  BY <1>0, <1>6, <1>7, <2>1 DEF PlaceMatchesState
<1>. QED  BY <1>2, <1>5, <1>8, <1>9

LEMMA TaskKeepsInPlace ==
    ASSUME InPlace, NoBlockRecycledEarly, NEW w \in Workers, TaskStep(w)
    PROVE  InPlace'
<1>0. \A x \in Workers : /\ found[x] # None => found[x] \in Tasks
                         /\ current[x] # None => current[x] \in Tasks
  BY DEF InPlace, TypeOK
<1>1. CASE Yield(w)
  <2>1. /\ OnePlace' /\ PlaceMatchesState' /\ current[w] \in Tasks
        /\ state' \in [Tasks -> {"none", "READY", "RUNNING", "FINISHED"}]
    BY <1>1, GiveUpKeepsInPlace DEF Yield
  <2>2. yields' \in [Tasks -> 0..MaxYields]
    BY <1>1, <2>1, BoundsAreNat DEF Yield, InPlace, TypeOK
  <2>3. TypeOK'
    BY <1>1, <2>1, <2>2 DEF Yield, GiveUp, InPlace, TypeOK, mainVars
  <2>. QED  BY <2>1, <2>3 DEF InPlace
<1>2. CASE Finish(w)
  <2> USE DEF InPlace
  <2> DEFINE t == current[w]
  <2>1. t \in Tasks /\ t # None /\ live[t] /\ state[t] = "RUNNING"
    BY <1>2 DEF Finish, TypeOK, PlaceMatchesState
  <2>2. TypeOK'
    BY <1>2, <2>1 DEF Finish, TypeOK, mainVars
  <2>3. OnePlace' /\ \A u : Queued(u)' <=> Queued(u)
    BY <1>2, SameHands DEF Finish
  <2>4. /\ state'[t] = "FINISHED" /\ (\A u \in Tasks : u # t => state'[u] = state[u])
        /\ wpc'[w] = "leave" /\ (\A v \in Workers : v # w => wpc'[v] = wpc[v])
        /\ wpc[w] = "run" /\ UNCHANGED <<found, current, live>>
    BY <1>2, <2>1 DEF Finish, TypeOK
  <2>5. ~Queued(t) /\ \A v \in Workers : found[v] # t /\ (v # w => current[v] # t)
    BY <2>1 DEF OnePlace, HandsDisjoint
  <2> HIDE DEF t
  <2>6. PlaceMatchesState'
    <3>1. t = current[w]
      BY DEF t
    <3>. QED  BY <1>0, <2>1, <2>3, <2>4, <2>5, <3>1 DEF PlaceMatchesState
  <2>. QED  BY <2>2, <2>3, <2>6
<1>3. CASE PollInTask(w)
  <2>1. CASE state[waiting[current[w]]] # "FINISHED"
    <3>1. /\ OnePlace' /\ PlaceMatchesState'
          /\ state' \in [Tasks -> {"none", "READY", "RUNNING", "FINISHED"}]
      BY <1>3, <2>1, GiveUpKeepsInPlace DEF PollInTask
    <3>2. TypeOK'
      BY <1>3, <2>1, <3>1 DEF PollInTask, GiveUp, InPlace, TypeOK, mainVars
    <3>. QED  BY <3>1, <3>2 DEF InPlace
  <2>2. CASE state[waiting[current[w]]] = "FINISHED"
    <3> DEFINE t == waiting[current[w]]
    <3> USE DEF InPlace
    <3>1. wpc[w] = "run" /\ t # None
      BY <1>3 DEF PollInTask
    <3>2. current[w] \in Tasks
      BY <3>1, <1>0 DEF PlaceMatchesState
    <3>3. t \in Tasks
      BY <3>1, <3>2 DEF TypeOK
    <3>4. /\ UNCHANGED <<queue, found, current, wpc, state, yields, handles, spawned, mpc, mwaiting, shutdown>>
          /\ live' = [live EXCEPT ![t] = FALSE]
          /\ waiting' = [waiting EXCEPT ![current[w]] = None]
      BY <1>3, <2>2 DEF PollInTask, mainVars, poolVars
    <3>5. TypeOK'
      BY <3>2, <3>4 DEF TypeOK
    <3>6. OnePlace'
      BY <3>4, SameHands
    <3>7. PlaceMatchesState'
      BY <2>2, <3>3, <3>4, FreeKeepsPlaceMatchesState
    <3>. QED  BY <3>5, <3>6, <3>7
  <2>. QED  BY <2>1, <2>2
<1>4. ASSUME NEW t \in Tasks, BeginWaitInTask(w, t) PROVE InPlace'
  <2> USE <1>4 DEF BeginWaitInTask, InPlace, poolVars, mainVars
  <2>1. TypeOK'
    BY DEF TypeOK
  <2>2. OnePlace' /\ \A u : Queued(u)' <=> Queued(u)
    BY SameHands
  <2>3. PlaceMatchesState'
    BY <2>2 DEF PlaceMatchesState
  <2>. QED  BY <2>1, <2>2, <2>3
<1>5. ASSUME NEW t \in Tasks, NEW v \in Workers, SpawnFromTask(w, t, v) PROVE InPlace'
  BY <1>5, SpawnKeepsInPlace DEF SpawnFromTask, Spawn
<1>. QED  BY <1>1, <1>2, <1>3, <1>4, <1>5 DEF TaskStep

LEMMA MainKeepsInPlace ==
    ASSUME InPlace, NoBlockRecycledEarly, MainStep
    PROVE  InPlace'
<1>1. ASSUME NEW t \in Tasks, NEW v \in Workers, SpawnFromMain(t, v) PROVE InPlace'
  BY <1>1, SpawnKeepsInPlace DEF SpawnFromMain, Spawn
<1>2. ASSUME NEW t \in Tasks, BeginWaitInMain(t) PROVE InPlace'
  <2> USE <1>2 DEF BeginWaitInMain, InPlace, poolVars
  <2>1. TypeOK'
    BY DEF TypeOK
  <2>2. OnePlace' /\ \A u : Queued(u)' <=> Queued(u)
    BY SameHands
  <2>3. PlaceMatchesState'
    BY <2>2 DEF PlaceMatchesState
  <2>. QED  BY <2>1, <2>2, <2>3
<1>3. CASE EndWaitInMain
  <2> USE DEF InPlace
  <2>1. mwaiting \in Tasks /\ state[mwaiting] = "FINISHED"
    BY <1>3 DEF EndWaitInMain, TypeOK
  <2>2. TypeOK'
    BY <1>3 DEF EndWaitInMain, TypeOK, poolVars
  <2>3. OnePlace'
    BY <1>3, SameHands DEF EndWaitInMain, poolVars
  <2>4. PlaceMatchesState'
    BY <1>3, <2>1, FreeKeepsPlaceMatchesState DEF EndWaitInMain, poolVars
  <2>. QED  BY <2>2, <2>3, <2>4
<1>4. CASE BeginShutdown \/ EndShutdown
  <2> USE <1>4 DEF BeginShutdown, EndShutdown, InPlace, poolVars, taskVars
  <2>1. TypeOK'
    BY DEF TypeOK
  <2>2. OnePlace' /\ \A u : Queued(u)' <=> Queued(u)
    BY SameHands
  <2>3. PlaceMatchesState'
    BY <2>2 DEF PlaceMatchesState
  <2>. QED  BY <2>1, <2>2, <2>3
<1>. QED  BY <1>1, <1>2, <1>3, <1>4 DEF MainStep

LEMMA InPlaceInit == Init => InPlace
<1> SUFFICES ASSUME Init PROVE InPlace
  OBVIOUS
<1>1. \A w \in Workers : queue[w] = <<>> /\ found[w] = None /\ current[w] = None
  BY DEF Init
<1>2. TypeOK
  <2>1. queue \in [Workers -> Seq(Tasks)]
    BY DEF Init
  <2>2. yields \in [Tasks -> 0..MaxYields] /\ spawned \in 0..MaxSpawns
    BY BoundsAreNat DEF Init
  <2>. QED  BY <2>1, <2>2 DEF Init, TypeOK
<1>3. \A u : ~Queued(u)
  BY <1>1 DEF Queued
<1>4. OnePlace
  BY <1>1, <1>3 DEF OnePlace, QueuesDisjoint, HandsDisjoint
<1>5. PlaceMatchesState
  BY <1>1, <1>3 DEF Init, PlaceMatchesState
<1>. QED  BY <1>2, <1>4, <1>5 DEF InPlace

LEMMA InPlaceStep ==
    InPlace /\ NoBlockRecycledEarly /\ [Next]_vars => InPlace'
<1> SUFFICES ASSUME InPlace, NoBlockRecycledEarly, [Next]_vars PROVE InPlace'
  OBVIOUS
<1>1. CASE UNCHANGED vars
  <2> USE <1>1 DEF vars, InPlace
  <2>1. TypeOK'
    BY DEF TypeOK
  <2>2. OnePlace' /\ \A u : Queued(u)' <=> Queued(u)
    BY SameHands
  <2>3. PlaceMatchesState'
    BY <2>2 DEF PlaceMatchesState
  <2>. QED  BY <2>1, <2>2, <2>3
<1>2. CASE Next
  BY <1>2, WorkerKeepsInPlace, TaskKeepsInPlace, StealKeepsInPlace, MainKeepsInPlace DEF Next
<1>. QED  BY <1>1, <1>2

\* Where a task that is not finished can be found.
Held(t) == \E w \in Workers : found[w] = t \/ current[w] = t

\* Every step hands each unfinished task on: queue, found, current, queue.
LEMMA NoTaskLostStep ==
    InPlace /\ NoTaskLost /\ [Next]_vars => NoTaskLost'
<1> SUFFICES ASSUME InPlace, NoTaskLost, [Next]_vars,
                    NEW t \in Tasks, state'[t] \in {"READY", "RUNNING"}
             PROVE  Queued(t)' \/ Held(t)'
  BY DEF NoTaskLost, Held
<1> USE DEF InPlace, OnePlace
<1>0. state[t] \in {"READY", "RUNNING"} => Queued(t) \/ Held(t)
  BY DEF NoTaskLost, Held
<1>1. ASSUME UNCHANGED <<queue, found, current>>, state[t] \in {"READY", "RUNNING"}
      PROVE  Queued(t)' \/ Held(t)'
  BY <1>0, <1>1, QueueAlone DEF Held
<1>2. ASSUME NEW w \in Workers, NEW h \in Tasks, Taken(w, h),
             \A u : Queued(u)' <=> Queued(u) /\ u # h
      PROVE  Queued(t)' \/ Held(t)'
  <2>1. found[w] = None /\ found'[w] = h /\ \A v \in Workers : v # w => found'[v] = found[v]
    BY <1>2 DEF Taken, PlaceMatchesState, TypeOK
  <2>2. state[t] \in {"READY", "RUNNING"} /\ current' = current
    BY <1>2 DEF Taken
  <2>3. CASE Queued(t)
    BY <1>2, <2>1, <2>3 DEF Held
  <2>4. CASE Held(t)
    BY <2>1, <2>2, <2>4, NoneIsNoTask DEF Held
  <2>. QED  BY <1>0, <2>2, <2>3, <2>4
<1>3. ASSUME NEW u \in Tasks, NEW v \in Workers, Spawn(u, v) PROVE Queued(t)' \/ Held(t)'
  <2>1. ~Queued(u)
    BY <1>3 DEF Spawn, PlaceMatchesState
  <2>2. \A x : Queued(x)' <=> Queued(x) \/ x = u
    BY <1>3, <2>1, AfterPush DEF Spawn
  <2>3. t # u => state'[t] = state[t]
    BY <1>3 DEF Spawn, TypeOK
  <2>4. UNCHANGED <<found, current>>
    BY <1>3 DEF Spawn
  <2>. QED  BY <1>0, <2>2, <2>3, <2>4 DEF Held
<1>4. ASSUME NEW w \in Workers, GiveUp(w), wpc[w] = "run" PROVE Queued(t)' \/ Held(t)'
  <2>1. CASE t = current[w]
    BY <1>4, <2>1 DEF GiveUp, Held
  <2>2. CASE t # current[w]
    BY <1>1, <1>4, <2>2 DEF GiveUp, TypeOK
  <2>. QED  BY <2>1, <2>2
<1>5. ASSUME NEW w \in Workers, WorkerStep(w) PROVE Queued(t)' \/ Held(t)'
  <2>1. CASE TestShutdown(w) \/ Leave(w)
    BY <1>1, <2>1 DEF TestShutdown, Leave, taskVars
  <2>2. CASE Pop(w)
    <3>1. CASE queue[w] # <<>>
      <4>1. /\ Head(queue[w]) \in Tasks
            /\ \A u : Queued(u)' <=> Queued(u) /\ u # Head(queue[w])
        BY <2>2, <3>1, AfterPop DEF Pop
      <4>2. Taken(w, Head(queue[w]))
        BY <2>2, <3>1 DEF Pop, Taken, mainVars, taskVars
      <4>. QED  BY <1>2, <4>1, <4>2
    <3>2. CASE queue[w] = <<>>
      BY <1>1, <2>2, <3>2 DEF Pop, taskVars
    <3>. QED  BY <3>1, <3>2
  <2>3. CASE Switch(w)
    <3>1. wpc[w] = "switch" /\ found[w] \in Tasks
      BY <2>3 DEF Switch, PlaceMatchesState, TypeOK
    <3>2. current[w] = None
      BY <3>1 DEF PlaceMatchesState
    <3>3. /\ current'[w] = found[w]
          /\ \A v \in Workers : v # w => current'[v] = current[v] /\ found'[v] = found[v]
          /\ t # found[w] => state'[t] = state[t]
      BY <2>3, <3>1 DEF Switch, TypeOK
    <3>4. \A u : Queued(u)' <=> Queued(u)
      BY <2>3, QueueAlone DEF Switch
    <3>. QED  BY <1>0, <3>2, <3>3, <3>4, NoneIsNoTask DEF Held
  <2>4. CASE Back(w)
    <3>1. /\ current[w] \in Tasks /\ ~Queued(current[w])
          /\ state[current[w]] \in {"FINISHED", "READY"} /\ state' = state
      BY <2>4 DEF Back, PlaceMatchesState, HandsDisjoint, TypeOK, taskVars
    <3>2. /\ current'[w] = None /\ found' = found
          /\ \A v \in Workers : v # w => current'[v] = current[v]
      BY <2>4, <3>1 DEF Back, TypeOK
    <3>3. CASE state[current[w]] = "FINISHED"
      <4>1. \A u : Queued(u)' <=> Queued(u)
        BY <2>4, <3>3, QueueAlone DEF Back
      <4>2. t # current[w]
        BY <3>1, <3>3
      <4>. QED  BY <1>0, <3>1, <3>2, <4>1, <4>2 DEF Held
    <3>4. CASE state[current[w]] = "READY"
      <4>1. \A u : Queued(u)' <=> Queued(u) \/ u = current[w]
        BY <2>4, <3>1, <3>4, AfterPush DEF Back
      <4>. QED  BY <1>0, <3>1, <3>2, <4>1 DEF Held
    <3>. QED  BY <3>1, <3>3, <3>4
  <2>. QED  BY <1>5, <2>1, <2>2, <2>3, <2>4 DEF WorkerStep
<1>6. ASSUME NEW w \in Workers, NEW v \in Workers, Steal(w, v) PROVE Queued(t)' \/ Held(t)'
  <2>1. CASE queue[v] # <<>>
    <3>1. /\ Last(queue[v]) \in Tasks
          /\ \A u : Queued(u)' <=> Queued(u) /\ u # Last(queue[v])
      BY <1>6, <2>1, AfterSteal DEF Steal
    <3>2. Taken(w, Last(queue[v]))
      BY <1>6, <2>1 DEF Steal, Taken, mainVars, taskVars
    <3>. QED  BY <1>2, <3>1, <3>2
  <2>2. CASE queue[v] = <<>>
    BY <1>1, <1>6, <2>2 DEF Steal, taskVars
  <2>. QED  BY <2>1, <2>2
<1>7. ASSUME NEW w \in Workers, TaskStep(w) PROVE Queued(t)' \/ Held(t)'
  <2>1. CASE Yield(w)
    BY <1>4, <2>1 DEF Yield
  <2>2. CASE Finish(w)
    BY <1>1, <2>2 DEF Finish, TypeOK
  <2>3. CASE PollInTask(w)
    BY <1>1, <1>4, <2>3 DEF PollInTask, poolVars
  <2>4. ASSUME NEW u \in Tasks, BeginWaitInTask(w, u) PROVE Queued(t)' \/ Held(t)'
    BY <1>1, <2>4 DEF BeginWaitInTask, poolVars
  <2>5. ASSUME NEW u \in Tasks, NEW v \in Workers, SpawnFromTask(w, u, v)
        PROVE  Queued(t)' \/ Held(t)'
    BY <1>3, <2>5 DEF SpawnFromTask
  <2>. QED  BY <1>7, <2>1, <2>2, <2>3, <2>4, <2>5 DEF TaskStep
<1>8. CASE MainStep
  <2>1. ASSUME NEW u \in Tasks, NEW v \in Workers, SpawnFromMain(u, v)
        PROVE  Queued(t)' \/ Held(t)'
    BY <1>3, <2>1 DEF SpawnFromMain
  <2>2. ASSUME NEW u \in Tasks, BeginWaitInMain(u) PROVE Queued(t)' \/ Held(t)'
    BY <1>1, <2>2 DEF BeginWaitInMain, poolVars
  <2>3. CASE EndWaitInMain \/ BeginShutdown \/ EndShutdown
    BY <1>1, <2>3 DEF EndWaitInMain, BeginShutdown, EndShutdown, poolVars, taskVars
  <2>. QED  BY <1>8, <2>1, <2>2, <2>3 DEF MainStep
<1>9. CASE UNCHANGED vars
  BY <1>1, <1>9 DEF vars
<1>. QED  BY <1>5, <1>6, <1>7, <1>8, <1>9 DEF Next

------------------------------------------------------------------------------
(* The theorems.                                                             *)

\* If the allocator never hands out the block of a freed task again, a task is
\* in one place at most: no two workers of any pool ever run one stack.
THEOREM OnePlaceWithoutReuse ==
    ASSUME Reuse = FALSE
    PROVE  SafeSpec => []OnePlace
<1>1. InPlace /\ [Next]_vars => InPlace'
  BY InPlaceStep DEF NoBlockRecycledEarly
<1>2. InPlace => OnePlace
  BY DEF InPlace
<1>. QED  BY InPlaceInit, <1>1, <1>2, PTL DEF SafeSpec

\* Under the same condition the state word a worker or a waiter reads without a
\* lock always tells where the task is.
THEOREM StateWordWithoutReuse ==
    ASSUME Reuse = FALSE
    PROVE  SafeSpec => []PlaceMatchesState
<1>1. InPlace /\ [Next]_vars => InPlace'
  BY InPlaceStep DEF NoBlockRecycledEarly
<1>2. InPlace => PlaceMatchesState
  BY DEF InPlace
<1>. QED  BY InPlaceInit, <1>1, <1>2, PTL DEF SafeSpec

\* Type correctness, from the same invariant: found and current hold a task
\* whenever the worker's next step uses them as one.
THEOREM TypeCorrectWithoutReuse ==
    ASSUME Reuse = FALSE
    PROVE  SafeSpec => []TypeOK
<1>1. InPlace /\ [Next]_vars => InPlace'
  BY InPlaceStep DEF NoBlockRecycledEarly
<1>2. InPlace => TypeOK
  BY DEF InPlace
<1>. QED  BY InPlaceInit, <1>1, <1>2, PTL DEF SafeSpec

\* Whatever the allocator does, the race of Task_Wait with the worker that is
\* leaving the finished task is the only way to two places: a run in which
\* no task is freed before its stack is left keeps every task in one place.
THEOREM JoinRaceIsTheOnlyCause ==
    SafeSpec /\ []StackLeftBeforeFree => [](OnePlace /\ PlaceMatchesState)
<1>1. InPlace /\ StackLeftBeforeFree /\ [Next]_vars => InPlace'
  BY InPlaceStep DEF NoBlockRecycledEarly
<1>2. InPlace => OnePlace /\ PlaceMatchesState
  BY DEF InPlace
<1>. QED  BY InPlaceInit, <1>1, <1>2, PTL DEF SafeSpec

\* No task that was spawned and is not finished disappears between the queues,
\* a thief and a worker; on the same condition as above.
THEOREM NoTaskLostWithoutReuse ==
    ASSUME Reuse = FALSE
    PROVE  SafeSpec => []NoTaskLost
<1>1. InPlace /\ [Next]_vars => InPlace'
  BY InPlaceStep DEF NoBlockRecycledEarly
<1>2. Init => NoTaskLost
  BY DEF Init, NoTaskLost
<1>. QED  BY InPlaceInit, <1>1, <1>2, NoTaskLostStep, PTL DEF SafeSpec

------------------------------------------------------------------------------
(* Joins.  A block is freed by the one who waits for it; that nobody else    *)
(* holds it then is WaiterOwnsHandle, which needs InPlace: the caller of     *)
(* Task_Wait is running, so its own block is not a finished one that another *)
(* waiter may free.                                                          *)

\* A task that waits is not finished and has its block; the block it waits for
\* is allocated, nobody else waits for it, and its handle is spent.
WaiterOwnsHandle ==
    /\ \A t \in Tasks : waiting[t] # None =>
          /\ live[t] /\ state[t] # "FINISHED"
          /\ live[waiting[t]]
          /\ waiting[t] \notin handles
          /\ waiting[t] # mwaiting
    /\ \A t, u \in Tasks : waiting[t] # None /\ waiting[t] = waiting[u] => t = u
    /\ mwaiting # None => live[mwaiting] /\ mwaiting \notin handles
    /\ \A t \in handles : live[t]

LEMMA WaiterOwnsHandleInit == Init => WaiterOwnsHandle
  BY DEF Init, WaiterOwnsHandle

\* What a step that only moves tasks about, without any that finishes, leaves.
LEMMA MovesKeepWaiters ==
    ASSUME WaiterOwnsHandle, UNCHANGED <<live, waiting, handles, mwaiting>>,
           \A t \in Tasks : state'[t] = "FINISHED" => state[t] = "FINISHED"
    PROVE  WaiterOwnsHandle'
  BY DEF WaiterOwnsHandle

LEMMA WorkerKeepsWaiters ==
    ASSUME InPlace, WaiterOwnsHandle, NEW w \in Workers, WorkerStep(w)
    PROVE  WaiterOwnsHandle'
<1>1. CASE TestShutdown(w) \/ Pop(w) \/ Leave(w) \/ Back(w)
  BY <1>1, MovesKeepWaiters
     DEF TestShutdown, Pop, Leave, Back, taskVars, mainVars
<1>2. CASE Switch(w)
  <2>1. UNCHANGED <<live, waiting, handles, mwaiting>>
    BY <1>2 DEF Switch, mainVars
  <2>2. \A t \in Tasks : state'[t] = "FINISHED" => state[t] = "FINISHED"
    BY <1>2 DEF Switch, InPlace, TypeOK
  <2>. QED  BY <2>1, <2>2, MovesKeepWaiters
<1>. QED  BY <1>1, <1>2 DEF WorkerStep

LEMMA SpawnKeepsWaiters ==
    ASSUME InPlace, WaiterOwnsHandle, NEW t \in Tasks, NEW v \in Workers, Spawn(t, v)
    PROVE  WaiterOwnsHandle'
<1>1. /\ ~live[t] /\ mwaiting' = mwaiting /\ handles' = handles \cup {t}
      /\ live'[t] /\ waiting'[t] = None
      /\ \A u \in Tasks : u # t => /\ live'[u] = live[u] /\ state'[u] = state[u]
                                   /\ waiting'[u] = waiting[u]
  BY DEF Spawn, InPlace, TypeOK, mainVars
<1>2. \A u \in Tasks : waiting[u] # None => waiting[u] \in Tasks /\ waiting[u] # t
  BY <1>1 DEF WaiterOwnsHandle, InPlace, TypeOK
<1>3. mwaiting # None => mwaiting \in Tasks /\ mwaiting # t
  BY <1>1 DEF WaiterOwnsHandle, InPlace, TypeOK
<1>4. handles \subseteq Tasks
  BY DEF InPlace, TypeOK
<1>. QED  BY <1>1, <1>2, <1>3, <1>4 DEF WaiterOwnsHandle

\* The one step that frees a block: x is finished and its only waiter lets go.
LEMMA FreeKeepsWaiters ==
    ASSUME InPlace, WaiterOwnsHandle, NEW x \in Tasks, state[x] = "FINISHED",
           live' = [live EXCEPT ![x] = FALSE], state' = state, handles' = handles,
           x \notin handles,
           \A t \in Tasks : waiting'[t] # None => waiting'[t] = waiting[t] /\ waiting[t] # x,
           mwaiting' # None => mwaiting' = mwaiting /\ mwaiting # x
    PROVE  WaiterOwnsHandle'
<1>1. \A t \in Tasks : t # x => live'[t] = live[t]
  BY DEF InPlace, TypeOK
<1>2. handles \subseteq Tasks /\ mwaiting \in Tasks \cup {None}
  BY DEF InPlace, TypeOK
<1>3. \A t \in Tasks : waiting'[t] # None =>
         /\ live'[t] /\ state'[t] # "FINISHED"
         /\ live'[waiting'[t]]
         /\ waiting'[t] \notin handles'
         /\ waiting'[t] # mwaiting'
  BY <1>1 DEF WaiterOwnsHandle, InPlace, TypeOK
<1>4. \A t, u \in Tasks : waiting'[t] # None /\ waiting'[t] = waiting'[u] => t = u
  BY DEF WaiterOwnsHandle
<1>5. mwaiting' # None => live'[mwaiting'] /\ mwaiting' \notin handles'
  BY <1>1, <1>2 DEF WaiterOwnsHandle
<1>6. \A t \in handles' : live'[t]
  BY <1>1, <1>2 DEF WaiterOwnsHandle
<1>. QED  BY <1>3, <1>4, <1>5, <1>6 DEF WaiterOwnsHandle

LEMMA TaskKeepsWaiters ==
    ASSUME InPlace, WaiterOwnsHandle, NEW w \in Workers, TaskStep(w)
    PROVE  WaiterOwnsHandle'
<1>1. ASSUME wpc[w] = "run"
      PROVE  current[w] \in Tasks /\ live[current[w]] /\ state[current[w]] = "RUNNING"
  BY <1>1 DEF InPlace, PlaceMatchesState, TypeOK
<1>2. ASSUME GiveUp(w), wpc[w] = "run", UNCHANGED <<live, waiting, handles, mwaiting>>
      PROVE  WaiterOwnsHandle'
  <2>1. \A t \in Tasks : state'[t] = "FINISHED" => state[t] = "FINISHED"
    BY <1>1, <1>2 DEF GiveUp, InPlace, TypeOK
  <2>. QED  BY <1>2, <2>1, MovesKeepWaiters
<1>3. CASE Yield(w)
  BY <1>2, <1>3 DEF Yield, mainVars
<1>4. CASE Finish(w)
  <2>1. /\ UNCHANGED <<live, waiting, handles, mwaiting>>
        /\ waiting[current[w]] = None
        /\ \A t \in Tasks : t # current[w] => state'[t] = state[t]
    BY <1>1, <1>4 DEF Finish, InPlace, TypeOK, mainVars
  <2>. QED  BY <2>1 DEF WaiterOwnsHandle
<1>5. CASE PollInTask(w)
  <2> DEFINE x == waiting[current[w]]
  <2>1. current[w] \in Tasks /\ x \in Tasks /\ x # None
    BY <1>1, <1>5 DEF PollInTask, InPlace, TypeOK
  <2>2. CASE state[x] # "FINISHED"
    BY <1>2, <1>5, <2>2 DEF PollInTask, mainVars
  <2>3. CASE state[x] = "FINISHED"
    <3>1. /\ live' = [live EXCEPT ![x] = FALSE] /\ state' = state
          /\ handles' = handles /\ mwaiting' = mwaiting
          /\ waiting' = [waiting EXCEPT ![current[w]] = None]
      BY <1>5, <2>3 DEF PollInTask, mainVars
    <3>2. x \notin handles /\ mwaiting # x
      BY <2>1 DEF WaiterOwnsHandle
    <3>3. \A t \in Tasks : waiting'[t] # None => waiting'[t] = waiting[t] /\ waiting[t] # x
      BY <2>1, <3>1 DEF WaiterOwnsHandle, InPlace, TypeOK
    <3>. HIDE DEF x
    <3>. QED  BY <2>1, <2>3, <3>1, <3>2, <3>3, FreeKeepsWaiters
  <2>. QED  BY <2>2, <2>3
<1>6. ASSUME NEW t \in Tasks, BeginWaitInTask(w, t) PROVE WaiterOwnsHandle'
  <2>1. /\ UNCHANGED <<live, state, mwaiting>>
        /\ t \in handles /\ handles' = handles \ {t}
        /\ waiting' = [waiting EXCEPT ![current[w]] = t]
    BY <1>6 DEF BeginWaitInTask, mainVars
  <2>2. current[w] \in Tasks /\ live[current[w]] /\ state[current[w]] = "RUNNING"
    BY <1>1, <1>6 DEF BeginWaitInTask
  <2>3. waiting'[current[w]] = t /\ \A u \in Tasks : u # current[w] => waiting'[u] = waiting[u]
    BY <2>1, <2>2 DEF InPlace, TypeOK
  <2>4. t # None /\ live[t] /\ t # mwaiting /\ \A u \in Tasks : waiting[u] # t
    BY <2>1, NoneIsNoTask DEF WaiterOwnsHandle, InPlace, TypeOK
  <2>. QED  BY <2>1, <2>2, <2>3, <2>4 DEF WaiterOwnsHandle
<1>7. ASSUME NEW t \in Tasks, NEW v \in Workers, SpawnFromTask(w, t, v)
      PROVE  WaiterOwnsHandle'
  BY <1>7, SpawnKeepsWaiters DEF SpawnFromTask
<1>. QED  BY <1>3, <1>4, <1>5, <1>6, <1>7 DEF TaskStep

LEMMA MainKeepsWaiters ==
    ASSUME InPlace, WaiterOwnsHandle, MainStep
    PROVE  WaiterOwnsHandle'
<1>1. ASSUME NEW t \in Tasks, NEW v \in Workers, SpawnFromMain(t, v)
      PROVE  WaiterOwnsHandle'
  BY <1>1, SpawnKeepsWaiters DEF SpawnFromMain
<1>2. ASSUME NEW t \in Tasks, BeginWaitInMain(t) PROVE WaiterOwnsHandle'
  <2>1. /\ UNCHANGED <<live, state, waiting>>
        /\ t \in handles /\ handles' = handles \ {t} /\ mwaiting' = t
    BY <1>2 DEF BeginWaitInMain
  <2>. QED  BY <2>1 DEF WaiterOwnsHandle
<1>3. CASE EndWaitInMain
  <2>1. /\ mwaiting \in Tasks /\ state[mwaiting] = "FINISHED"
        /\ live' = [live EXCEPT ![mwaiting] = FALSE] /\ mwaiting' = None
        /\ UNCHANGED <<state, waiting, handles>>
    BY <1>3 DEF EndWaitInMain, InPlace, TypeOK
  <2>2. mwaiting \notin handles /\ \A t \in Tasks : waiting[t] # None => waiting[t] # mwaiting
    BY <2>1, NoneIsNoTask DEF WaiterOwnsHandle
  <2>. QED  BY <2>1, <2>2, FreeKeepsWaiters
<1>4. CASE BeginShutdown \/ EndShutdown
  BY <1>4, MovesKeepWaiters DEF BeginShutdown, EndShutdown, taskVars
<1>. QED  BY <1>1, <1>2, <1>3, <1>4 DEF MainStep

LEMMA WaiterOwnsHandleStep ==
    InPlace /\ WaiterOwnsHandle /\ [Next]_vars => WaiterOwnsHandle'
<1> SUFFICES ASSUME InPlace, WaiterOwnsHandle, [Next]_vars PROVE WaiterOwnsHandle'
  OBVIOUS
<1>1. ASSUME NEW w \in Workers, NEW v \in Workers, Steal(w, v) PROVE WaiterOwnsHandle'
  BY <1>1, MovesKeepWaiters DEF Steal, taskVars, mainVars
<1>2. CASE UNCHANGED vars
  BY <1>2, MovesKeepWaiters DEF vars
<1>. QED  BY <1>1, <1>2, WorkerKeepsWaiters, TaskKeepsWaiters, MainKeepsWaiters DEF Next

LEMMA OwnersWaitOnLiveTasks == WaiterOwnsHandle => WaitsOnLiveTask
  BY DEF WaiterOwnsHandle, WaitsOnLiveTask

------------------------------------------------------------------------------
\* Every poll of Task_Wait, in a task or on the main thread, reads a block that
\* nobody has freed, if the allocator does not hand out freed blocks again.
THEOREM WaitsOnLiveTaskWithoutReuse ==
    ASSUME Reuse = FALSE
    PROVE  SafeSpec => []WaitsOnLiveTask
<1>1. InPlace /\ [Next]_vars => InPlace'
  BY InPlaceStep DEF NoBlockRecycledEarly
<1>. QED  BY InPlaceInit, WaiterOwnsHandleInit, <1>1, WaiterOwnsHandleStep,
             OwnersWaitOnLiveTasks, PTL DEF SafeSpec

\* With an allocator that does, it is enough that no stack is freed before its
\* worker has left it: Task_Wait itself never frees a block twice or too early.
THEOREM WaitsOnLiveTaskUnlessRaced ==
    SafeSpec /\ []StackLeftBeforeFree => []WaitsOnLiveTask
<1>1. InPlace /\ StackLeftBeforeFree /\ [Next]_vars => InPlace'
  BY InPlaceStep DEF NoBlockRecycledEarly
<1>. QED  BY InPlaceInit, WaiterOwnsHandleInit, <1>1, WaiterOwnsHandleStep,
             OwnersWaitOnLiveTasks, PTL DEF SafeSpec
==============================================================================
