------------------------- MODULE AsyncCoroutinesProofs -------------------------
(***************************************************************************)
(* Proofs about AsyncCoroutines for any number of coroutines and any bounds *)
(* of yields and of the clock.  The queue holds what it should, exactly     *)
(* once; so taking a finished coroutine out of it when its block is freed   *)
(* takes out nothing, and an empty queue means that all have finished.  A   *)
(* handle is open or in one await, so that nothing meets a freed block.     *)
(***************************************************************************)
EXTENDS AsyncCoroutines, DataLemmas

CurrentRuns == current # None => state[current] = "running"

CoInv == TypeOK /\ CurrentRuns /\ QueueHoldsUnfinished

Unfinished(t) == state[t] \in {"ready", "running"} /\ current # t

------------------------------------------------------------------------------
LEMMA Counts ==
    ASSUME TypeOK, NEW t \in Tasks
    PROVE  Places(t) = At(ready, t) /\ Cardinality(Places(t)) \in Nat
  <1>1. Places(t) = At(ready, t)
    BY DEF Places, At
  <1> QED BY <1>1, AtIsFinite DEF TypeOK

\* A coroutine that is not in the queue is in no place of it.
LEMMA NotQueued ==
    ASSUME CoInv, NEW t \in Tasks, ~Unfinished(t)
    PROVE  \A i \in 1..Len(ready) : ready[i] # t
  <1>1. Cardinality(Places(t)) = 0
    BY DEF CoInv, QueueHoldsUnfinished, Unfinished
  <1>2. Places(t) = {}
    BY <1>1, Counts, AtIsFinite DEF CoInv, TypeOK
  <1> QED BY <1>2 DEF Places

\* The unlinking in await finds nothing to unlink.
LEMMA CollectLeavesQueue ==
    ASSUME CoInv, NEW t \in Tasks, state[t] = "done", Collect(t)
    PROVE  ready' = ready
  <1>1. \A i \in 1..Len(ready) : ready[i] # t
    BY NotQueued DEF Unfinished
  <1> QED BY <1>1 DEF Collect, RemoveFirst

\* Steps that move no coroutine.
LEMMA QueueUntouched ==
    ASSUME CoInv, TypeOK', UNCHANGED <<ready, current, state>>
    PROVE  CoInv'
  BY DEF CoInv, CurrentRuns, QueueHoldsUnfinished, Places

\* A coroutine goes to the end of the queue: a new one, or the current one.
LEMMA EnqueueKeeps ==
    ASSUME CoInv, TypeOK', CurrentRuns', NEW t \in Tasks, ~Unfinished(t), Unfinished(t)',
           ready' = Enqueued(t),
           \A u \in Tasks \ {t} : Unfinished(u)' <=> Unfinished(u)
    PROVE  CoInv'
  <1> SUFFICES ASSUME NEW u \in Tasks
               PROVE  Cardinality(Places(u)') = IF Unfinished(u)' THEN 1 ELSE 0
    BY DEF CoInv, QueueHoldsUnfinished, Unfinished
  <1>1. Cardinality(Places(u)) = IF Unfinished(u) THEN 1 ELSE 0
    BY DEF CoInv, QueueHoldsUnfinished, Unfinished
  <1>2. Places(u) = At(ready, u) /\ Places(u)' = At(ready', u)
    BY DEF Places, At
  <1>3. Cardinality(Places(u)') =
           IF t = u THEN Cardinality(Places(u)) + 1 ELSE Cardinality(Places(u))
    <2>1. ready \in Seq(Tasks) /\ ready' = Append(ready, t)
      BY DEF Enqueued, CoInv, TypeOK
    <2>2. Cardinality(At(Append(ready, t), u)) =
             IF t = u THEN Cardinality(At(ready, u)) + 1 ELSE Cardinality(At(ready, u))
      BY <2>1, AtAppend
    <2> QED BY <1>2, <2>1, <2>2
  <1> HIDE DEF Unfinished
  <1> QED BY <1>1, <1>3

------------------------------------------------------------------------------
LEMMA CoInvInit == Init => CoInv
  <1> SUFFICES ASSUME Init PROVE CoInv
    OBVIOUS
  <1> USE NamesAreDistinct, BoundsAreNat
  <1>1. TypeOK
    BY DEF Init, TypeOK
  <1>2. \A t \in Tasks : Places(t) = {} /\ Cardinality({}) = 0
    BY FS_EmptySet DEF Init, Places
  <1>3. QueueHoldsUnfinished
    BY <1>2 DEF Init, QueueHoldsUnfinished
  <1> QED BY <1>1, <1>3 DEF CoInv, CurrentRuns, Init

LEMMA SpawnKeeps ==
    ASSUME CoInv, NEW t \in Tasks, Spawn(t)
    PROVE  CoInv'
  <1> USE NamesAreDistinct, BoundsAreNat
  <1>1. /\ state[t] = "none" /\ state' = [state EXCEPT ![t] = "ready"]
        /\ ready' = Enqueued(t) /\ current' = current
    BY DEF Spawn
  <1>2. TypeOK'
    BY DEF Spawn, CoInv, TypeOK, Enqueued, mainVars
  <1>3. CurrentRuns' /\ current # t
    BY <1>1 DEF CoInv, CurrentRuns, TypeOK
  <1>4. ~Unfinished(t) /\ Unfinished(t)' /\ \A u \in Tasks \ {t} : Unfinished(u)' <=> Unfinished(u)
    BY <1>1, <1>3 DEF Unfinished, CoInv, TypeOK
  <1> QED BY <1>1, <1>2, <1>3, <1>4, EnqueueKeeps

\* yield, sleep, and the yield of an await that polls
LEMMA YieldKeeps ==
    ASSUME CoInv, TypeOK', NEW t \in Tasks, current = t, Yielded(t), state' = state
    PROVE  CoInv'
  <1> USE NamesAreDistinct
  <1>1. current' = None /\ ready' = Enqueued(t) /\ state[t] = "running"
    BY DEF Yielded, CoInv, CurrentRuns
  <1>2. ~Unfinished(t) /\ Unfinished(t)' /\ \A u \in Tasks \ {t} : Unfinished(u)' <=> Unfinished(u)
    BY <1>1 DEF Unfinished
  <1>3. CurrentRuns'
    BY <1>1 DEF CurrentRuns
  <1> QED BY <1>1, <1>2, <1>3, EnqueueKeeps

LEMMA RequeueKeeps ==
    ASSUME CoInv, Requeue
    PROVE  CoInv'
  <1>1. /\ ready # <<>> /\ ready' = Append(Tail(ready), Head(ready))
        /\ ready \in Seq(Tasks) /\ Head(ready) \in Tasks /\ Tail(ready) \in Seq(Tasks)
        /\ UNCHANGED <<current, state>>
    BY DEF Requeue, CoInv, TypeOK, taskVars
  <1>2. TypeOK'
    <2>1. ready' \in Seq(Tasks)
      BY <1>1
    <2>2. now' \in 0..MaxNow
      <3>1. now \in 0..MaxNow /\ sleep_until[Head(ready)] \in 0..MaxNow
        BY <1>1 DEF CoInv, TypeOK
      <3>2. now' = now \/ now' = sleep_until[Head(ready)]
        BY DEF Requeue
      <3> QED BY <3>1, <3>2
    <2>3. UNCHANGED <<current, state, sleep_until, result, polls, yields, handles, got, mpc, mpolls>>
      BY DEF Requeue, taskVars, mainVars
    <2> QED BY <2>1, <2>2, <2>3 DEF CoInv, TypeOK
  <1>3. \A u \in Tasks : Cardinality(Places(u)') = Cardinality(Places(u))
    <2> SUFFICES ASSUME NEW u \in Tasks PROVE Cardinality(Places(u)') = Cardinality(Places(u))
      OBVIOUS
    <2>1. Places(u) = At(ready, u) /\ Places(u)' = At(ready', u)
      BY DEF Places, At
    <2>2. Cardinality(At(ready', u)) = Cardinality(At(ready, u))
      BY <1>1, AtRotate
    <2> QED BY <2>1, <2>2
  <1> QED BY <1>1, <1>2, <1>3 DEF CoInv, CurrentRuns, QueueHoldsUnfinished

LEMMA ResumeKeeps ==
    ASSUME CoInv, Resume
    PROVE  CoInv'
  <1> USE NamesAreDistinct, BoundsAreNat
  <1> DEFINE t == Head(ready)
  <1>1. /\ ready # <<>> /\ ready' = Tail(ready) /\ current = None /\ current' = t
        /\ ready \in Seq(Tasks) /\ t \in Tasks /\ Tail(ready) \in Seq(Tasks)
        /\ state' = [state EXCEPT ![t] = "running"]
        /\ sleep_until' = [sleep_until EXCEPT ![t] = 0]
        /\ UNCHANGED <<result, polls, yields, handles, got, now, mpc, mpolls>>
        /\ ready[1] = t /\ 1 \in 1..Len(ready)
    BY DEF Resume, InLoop, CoInv, TypeOK, mainVars
  <1> HIDE DEF t
  <1>2. TypeOK'
    BY <1>1 DEF CoInv, TypeOK
  <1>3. CurrentRuns'
    BY <1>1 DEF CurrentRuns, CoInv, TypeOK
  <1>4. QueueHoldsUnfinished'
    <2> SUFFICES ASSUME NEW u \in Tasks
                 PROVE  Cardinality(Places(u)') = IF Unfinished(u)' THEN 1 ELSE 0
      BY DEF QueueHoldsUnfinished, Unfinished
    <2>1. Cardinality(Places(u)) = IF Unfinished(u) THEN 1 ELSE 0
      BY DEF CoInv, QueueHoldsUnfinished, Unfinished
    <2>2. Places(u) = At(ready, u) /\ Places(u)' = At(ready', u)
      BY DEF Places, At
    <2>3. Cardinality(Places(u)') =
             IF t = u THEN Cardinality(Places(u)) - 1 ELSE Cardinality(Places(u))
      BY <1>1, <2>2, AtTail DEF t
    <2>4. CASE u = t
      <3>1. Unfinished(u)
        BY <1>1, <2>4, NotQueued
      <3>2. ~Unfinished(u)'
        BY <1>1, <2>4 DEF Unfinished
      <3> QED BY <2>1, <2>3, <2>4, <3>1, <3>2
    <2>5. CASE u # t
      <3>1. Unfinished(u)' <=> Unfinished(u)
        BY <1>1, <2>5 DEF Unfinished, CoInv, TypeOK
      <3> QED BY <2>1, <2>3, <2>5, <3>1
    <2> QED BY <2>4, <2>5
  <1> QED BY <1>2, <1>3, <1>4 DEF CoInv

LEMMA FinishKeeps ==
    ASSUME CoInv, NEW t \in Tasks, CoFinish(t)
    PROVE  CoInv'
  <1> USE NamesAreDistinct
  <1>1. /\ current = t /\ current' = None /\ state' = [state EXCEPT ![t] = "done"]
        /\ ready' = ready
    BY DEF CoFinish, InBody
  <1>2. TypeOK'
    BY DEF CoFinish, CoInv, TypeOK, mainVars
  <1>3. \A u \in Tasks : Unfinished(u)' <=> Unfinished(u)
    BY <1>1 DEF Unfinished, CoInv, TypeOK
  <1>4. QueueHoldsUnfinished'
    BY <1>1, <1>3 DEF CoInv, QueueHoldsUnfinished, Unfinished, Places
  <1> QED BY <1>1, <1>2, <1>4 DEF CoInv, CurrentRuns

\* The main code in an await has something to poll.
MainPolls == mpc = "await" => mpolls \in Tasks

\* Both awaits, when what they poll is done.
LEMMA CollectKeeps ==
    ASSUME CoInv, NEW t \in Tasks, state[t] = "done", Collect(t),
           UNCHANGED <<current, yields, handles, now>>, UNCHANGED taskVars,
           mpc' \in {"code", "await", "run"}, mpolls' \in Tasks \cup {None},
           polls' \in [Tasks -> Tasks \cup {None}]
    PROVE  CoInv'
  <1>1. ready' = ready
    BY CollectLeavesQueue
  <1>2. got' = [got EXCEPT ![t] = result[t]] /\ result[t] \in Tasks \cup {Junk}
    BY DEF Collect, CoInv, TypeOK
  <1>3. got' \in [Tasks -> Tasks \cup {None, Junk}]
    BY <1>2 DEF CoInv, TypeOK
  <1>4. TypeOK'
    BY <1>1, <1>3 DEF CoInv, TypeOK, taskVars
  <1> QED BY <1>1, <1>4, QueueUntouched DEF taskVars

LEMMA MainStepKeeps ==
    ASSUME CoInv, MainPolls, MainStep \/ MainPoll \/ EndRun \/ Tick
    PROVE  CoInv'
  <1> USE NamesAreDistinct, BoundsAreNat
  <1>1. CASE MainRun \/ EndRun
    <2>1. UNCHANGED <<ready, current, state, sleep_until, result, polls, yields, handles, got,
                      mpolls, now>> /\ mpc' \in {"code", "await", "run"}
      BY <1>1 DEF MainRun, EndRun, taskVars
    <2>2. TypeOK'
      BY <2>1 DEF CoInv, TypeOK
    <2> QED BY <2>1, <2>2, QueueUntouched
  <1>2. ASSUME NEW t \in Tasks, MainSpawn(t) PROVE CoInv'
    BY <1>2, SpawnKeeps DEF MainSpawn
  <1>3. ASSUME NEW t \in Tasks, MainAwait(t) PROVE CoInv'
    <2>1. TypeOK' /\ UNCHANGED <<ready, current, state>>
      BY <1>3 DEF MainAwait, CoInv, TypeOK, taskVars
    <2> QED BY <2>1, QueueUntouched
  <1>4. CASE MainPoll
    <2>1. CASE state[mpolls] = "done" /\ mpolls \in Tasks
      BY <1>4, <2>1, CollectKeeps DEF MainPoll, CoInv, TypeOK
    <2>2. CASE state[mpolls] # "done"
      <3>1. /\ UNCHANGED <<ready, got, mpolls, current, polls, yields, handles, now>>
            /\ UNCHANGED taskVars /\ mpc' = "run"
        BY <1>4, <2>2 DEF MainPoll
      <3>2. TypeOK'
        BY <3>1 DEF CoInv, TypeOK, taskVars
      <3> QED BY <3>1, <3>2, QueueUntouched DEF taskVars
    <2> QED BY <1>4, <2>1, <2>2 DEF MainPoll, MainPolls
  <1>5. CASE Tick
    <2>1. now' \in 0..MaxNow
      BY <1>5 DEF Tick, CoInv, TypeOK
    <2>2. TypeOK' /\ UNCHANGED <<ready, current, state>>
      BY <1>5, <2>1 DEF Tick, CoInv, TypeOK, taskVars, mainVars
    <2> QED BY <2>2, QueueUntouched
  <1> QED BY <1>1, <1>2, <1>3, <1>4, <1>5 DEF MainStep

LEMMA CoStepKeeps ==
    ASSUME CoInv, NEW t \in Tasks, CoStep(t)
    PROVE  CoInv'
  <1> USE NamesAreDistinct, BoundsAreNat
  <1>1. CASE CoYield(t)
    <2>1. current = t /\ Yielded(t) /\ state' = state
      BY <1>1 DEF CoYield, InBody, taskVars
    <2>2. TypeOK'
      BY <1>1 DEF CoYield, InBody, Yielded, Enqueued, CoInv, TypeOK, taskVars, mainVars
    <2> QED BY <2>1, <2>2, YieldKeeps
  <1>2. CASE CoSleep(t)
    <2>1. current = t /\ Yielded(t) /\ state' = state
      BY <1>2 DEF CoSleep, InBody
    <2>2. now + Delay \in 0..MaxNow
      BY <1>2 DEF CoSleep, CoInv, TypeOK
    <2>3. TypeOK'
      BY <1>2, <2>2 DEF CoSleep, InBody, Yielded, Enqueued, CoInv, TypeOK, mainVars
    <2> QED BY <2>1, <2>3, YieldKeeps
  <1>3. CASE CoReturn(t)
    <2>1. TypeOK' /\ UNCHANGED <<ready, current, state>>
      BY <1>3 DEF CoReturn, CoInv, TypeOK, mainVars
    <2> QED BY <2>1, QueueUntouched
  <1>4. CASE CoPoll(t)
    <2>1. /\ current = t /\ polls[t] \in Tasks
          /\ UNCHANGED <<yields, handles, now>> /\ UNCHANGED taskVars /\ UNCHANGED mainVars
      BY <1>4 DEF CoPoll, CoInv, TypeOK
    <2>2. CASE state[polls[t]] = "done"
      <3>1. /\ Collect(polls[t]) /\ UNCHANGED current
            /\ polls' = [polls EXCEPT ![t] = None]
        BY <1>4, <2>2 DEF CoPoll
      <3>2. polls' \in [Tasks -> Tasks \cup {None}] /\ mpc' \in {"code", "await", "run"}
            /\ mpolls' \in Tasks \cup {None}
        BY <2>1, <3>1 DEF CoInv, TypeOK, mainVars
      <3> QED BY <2>1, <2>2, <3>1, <3>2, CollectKeeps
    <2>3. CASE state[polls[t]] # "done"
      <3>1. Yielded(t) /\ UNCHANGED <<got, polls>>
        BY <1>4, <2>3 DEF CoPoll
      <3>2. TypeOK'
        BY <2>1, <3>1 DEF Yielded, Enqueued, CoInv, TypeOK, taskVars, mainVars
      <3> QED BY <2>1, <3>1, <3>2, YieldKeeps DEF taskVars
    <2> QED BY <2>2, <2>3
  <1>5. CASE CoFinish(t)
    BY <1>5, FinishKeeps
  <1>6. ASSUME NEW u \in Tasks, CoSpawn(t, u) PROVE CoInv'
    BY <1>6, SpawnKeeps DEF CoSpawn
  <1>7. ASSUME NEW u \in Tasks, CoAwait(t, u) PROVE CoInv'
    <2>1. TypeOK' /\ UNCHANGED <<ready, current, state>>
      BY <1>7 DEF CoAwait, CoInv, TypeOK, taskVars, mainVars
    <2> QED BY <2>1, QueueUntouched
  <1> QED BY <1>1, <1>2, <1>3, <1>4, <1>5, <1>6, <1>7 DEF CoStep

LEMMA MainPollsInductive ==
    ASSUME CoInv, MainPolls, [Next]_vars
    PROVE  MainPolls'
  <1>1. CASE UNCHANGED mainVars
    BY <1>1 DEF MainPolls, mainVars
  <1>2. ASSUME NEW t \in Tasks, CoStep(t) PROVE UNCHANGED mainVars
    BY <1>2 DEF CoStep, CoYield, CoSleep, CoReturn, CoPoll, CoFinish, CoSpawn, CoAwait, Spawn
  <1>3. CASE MainStep
    BY <1>3 DEF MainStep, MainRun, MainSpawn, MainAwait, Spawn, mainVars, MainPolls
  <1>4. CASE LoopStep
    BY <1>4 DEF LoopStep, MainPoll, EndRun, Requeue, Resume, mainVars, MainPolls, CoInv, TypeOK
  <1>5. CASE Tick
    BY <1>1, <1>5 DEF Tick
  <1>6. CASE UNCHANGED vars
    BY <1>1, <1>6 DEF vars, mainVars
  <1> QED BY <1>1, <1>2, <1>3, <1>4, <1>5, <1>6 DEF Next

LEMMA CoInvInductive ==
    CoInv /\ MainPolls /\ [Next]_vars => CoInv' /\ MainPolls'
  <1> SUFFICES ASSUME CoInv, MainPolls, [Next]_vars PROVE CoInv'
    BY MainPollsInductive
  <1>1. CASE MainStep \/ Tick
    BY <1>1, MainStepKeeps
  <1>2. CASE LoopStep
    BY <1>2, MainStepKeeps, RequeueKeeps, ResumeKeeps DEF LoopStep
  <1>3. ASSUME NEW t \in Tasks, CoStep(t) PROVE CoInv'
    BY <1>3, CoStepKeeps
  <1>4. CASE UNCHANGED vars
    BY <1>4 DEF vars, CoInv, TypeOK, CurrentRuns, QueueHoldsUnfinished, Places
  <1> QED BY <1>1, <1>2, <1>3, <1>4 DEF Next

LEMMA CoInvAlways == SafeSpec => [](CoInv /\ MainPolls)
  <1>1. Init => CoInv /\ MainPolls
    BY CoInvInit DEF Init, MainPolls
  <1> QED BY <1>1, CoInvInductive, PTL DEF SafeSpec

\* The variables keep their types, for any coroutines and bounds.
THEOREM CoroutineTypes == SafeSpec => []TypeOK
  <1>1. CoInv => TypeOK
    BY DEF CoInv
  <1> QED BY <1>1, CoInvAlways, PTL

\* Every unfinished coroutine but the current one is in the queue, once, and no
\* finished one is.
THEOREM QueueIsExact == SafeSpec => []QueueHoldsUnfinished
  <1>1. CoInv => QueueHoldsUnfinished
    BY DEF CoInv
  <1> QED BY <1>1, CoInvAlways, PTL

\* bux_async_run comes back to the main code only when all coroutines have finished.
THEOREM RunReturnsWhenAllDone == SafeSpec => RunFinishesAll
  <1>1. ASSUME CoInv, [Next]_vars, mpc = "run", mpc' # "run"
        PROVE  \A t \in Tasks : state[t] \in {"none", "done"}
    <2>1. EndRun
      <3>1. ~UNCHANGED vars
        BY <1>1 DEF vars
      <3>2. ASSUME NEW t \in Tasks PROVE ~CoStep(t)
        BY <1>1 DEF CoStep, CoYield, CoSleep, CoReturn, CoPoll, CoFinish, CoSpawn, CoAwait,
                    Spawn, mainVars
      <3>3. ~MainStep
        BY <1>1 DEF MainStep, MainRun, MainSpawn, MainAwait
      <3>4. ~MainPoll /\ ~Requeue /\ ~Resume /\ ~Tick
        BY <1>1 DEF MainPoll, Requeue, Resume, Tick, mainVars
      <3> QED BY <1>1, <3>1, <3>2, <3>3, <3>4 DEF Next, LoopStep
    <2>2. ready = <<>> /\ current = None
      BY <2>1 DEF EndRun, InLoop
    <2> SUFFICES ASSUME NEW t \in Tasks PROVE state[t] \in {"none", "done"}
      OBVIOUS
    <2>3. Cardinality(Places(t)) = 0
      <3>1. Places(t) = {}
        BY <2>2 DEF Places
      <3> QED BY <3>1, FS_EmptySet
    <2>4. state[t] \notin {"ready", "running"}
      <3>1. current # t
        BY <2>2, NamesAreDistinct
      <3>2. 0 = IF state[t] \in {"ready", "running"} /\ current # t THEN 1 ELSE 0
        BY <1>1, <2>3 DEF CoInv, QueueHoldsUnfinished
      <3> QED BY <3>1, <3>2
    <2> QED BY <1>1, <2>4 DEF CoInv, TypeOK
  <1>2. CoInv /\ [Next]_vars =>
           [mpc = "run" /\ mpc' # "run" => \A t \in Tasks : state[t] \in {"none", "done"}]_vars
    BY <1>1
  <1> QED BY <1>2, CoInvAlways, PTL DEF SafeSpec, RunFinishesAll

------------------------------------------------------------------------------
\* A coroutine whose body calls bux_async_return has a result when it is done.
Delivered ==
    /\ \A t \in Tasks : result[t] \in {Junk, t}
    /\ \A t \in Tasks : state[t] = "done" => result[t] = t
    /\ AwaitDelivers

LEMMA DeliveredInductive ==
    ASSUME CallsReturn = TRUE, CoInv, MainPolls, Delivered, [Next]_vars
    PROVE  Delivered'
  <1> USE NamesAreDistinct
  <1>1. ASSUME UNCHANGED <<state, result, got>> PROVE Delivered'
    BY <1>1 DEF Delivered, AwaitDelivers
  <1>2. ASSUME NEW t \in Tasks, Spawn(t) PROVE Delivered'
    BY <1>2 DEF Spawn, Delivered, AwaitDelivers, CoInv, TypeOK
  <1>3. ASSUME NEW t \in Tasks, state[t] = "done", Collect(t), UNCHANGED <<state, result>>
        PROVE  Delivered'
    <2>1. got' = [got EXCEPT ![t] = t]
      BY <1>3 DEF Collect, Delivered
    <2> QED BY <1>3, <2>1 DEF Delivered, AwaitDelivers, CoInv, TypeOK
  <1>4. CASE MainStep
    <2>1. CASE \E t \in Tasks : MainSpawn(t)
      BY <1>2, <2>1 DEF MainSpawn
    <2>2. CASE MainRun \/ \E t \in Tasks : MainAwait(t)
      BY <1>1, <2>2 DEF MainRun, MainAwait, taskVars
    <2> QED BY <1>4, <2>1, <2>2 DEF MainStep
  <1>5. CASE MainPoll
    <2>1. CASE state[mpolls] = "done"
      BY <1>3, <1>5, <2>1 DEF MainPoll, MainPolls, taskVars
    <2>2. CASE state[mpolls] # "done"
      BY <1>1, <1>5, <2>2 DEF MainPoll, taskVars
    <2> QED BY <2>1, <2>2
  <1>6. CASE EndRun \/ Requeue \/ Tick
    BY <1>1, <1>6 DEF EndRun, Requeue, Tick, taskVars
  <1>7. CASE Resume
    <2>1. /\ state' = [state EXCEPT ![Head(ready)] = "running"]
          /\ UNCHANGED <<result, got>>
      BY <1>7 DEF Resume
    <2>2. \A t \in Tasks : state'[t] = "done" => state[t] = "done"
      BY <2>1 DEF CoInv, TypeOK
    <2> QED BY <2>1, <2>2 DEF Delivered, AwaitDelivers
  <1>8. ASSUME NEW t \in Tasks, CoStep(t) PROVE Delivered'
    <2>1. CASE CoYield(t) \/ CoSleep(t)
      BY <1>1, <2>1 DEF CoYield, CoSleep, taskVars
    <2>2. CASE CoReturn(t)
      BY <2>2 DEF CoReturn, Delivered, AwaitDelivers, CoInv, TypeOK
    <2>3. CASE CoPoll(t)
      <3>1. polls[t] \in Tasks
        BY <2>3 DEF CoPoll, CoInv, TypeOK
      <3>2. CASE state[polls[t]] = "done"
        BY <1>3, <2>3, <3>1, <3>2 DEF CoPoll, taskVars
      <3>3. CASE state[polls[t]] # "done"
        BY <1>1, <2>3, <3>3 DEF CoPoll, taskVars
      <3> QED BY <3>2, <3>3
    <2>4. CASE CoFinish(t)
      <3>1. result[t] # Junk /\ state' = [state EXCEPT ![t] = "done"] /\ UNCHANGED <<result, got>>
        BY <2>4 DEF CoFinish
      <3> QED BY <3>1 DEF Delivered, AwaitDelivers, CoInv, TypeOK
    <2>5. CASE \E u \in Tasks : CoSpawn(t, u)
      BY <1>2, <2>5 DEF CoSpawn
    <2>6. CASE \E u \in Tasks : CoAwait(t, u)
      BY <1>1, <2>6 DEF CoAwait, taskVars
    <2> QED BY <1>8, <2>1, <2>2, <2>3, <2>4, <2>5, <2>6 DEF CoStep
  <1>9. CASE UNCHANGED vars
    BY <1>1, <1>9 DEF vars
  <1> QED BY <1>4, <1>5, <1>6, <1>7, <1>8, <1>9 DEF Next, LoopStep

\* Where bodies call bux_async_return, every await delivers what its coroutine returned.
THEOREM AwaitIsDelivered ==
    ASSUME CallsReturn = TRUE
    PROVE  SafeSpec => []AwaitDelivers
  <1>1. Init => Delivered
    BY NamesAreDistinct DEF Init, Delivered, AwaitDelivers
  <1>2. CoInv /\ MainPolls /\ Delivered /\ [Next]_vars => Delivered'
    BY DeliveredInductive
  <1>3. Delivered => AwaitDelivers
    BY DEF Delivered
  <1> QED BY <1>1, <1>2, <1>3, CoInvAlways, PTL DEF SafeSpec

------------------------------------------------------------------------------
(* Freed blocks.                                                             *)

\* bux_async_await has freed the block of t: what it delivers is never None.
Freed(t) == got[t] # None

\* A handle can be awaited: its block is allocated and not freed.
Alive(t) == state[t] # "none" /\ ~Freed(t)

\* A handle that can be awaited, or is being awaited, is alive, and one await at most,
\* a coroutine's or the main code's, is at work on it.
HandlesInv ==
    /\ \A t \in handles : Alive(t)
    /\ \A t \in Tasks : polls[t] # None => Alive(polls[t]) /\ polls[t] \notin handles
    /\ mpolls # None => Alive(mpolls) /\ mpolls \notin handles
    /\ \A t, u \in Tasks : polls[t] = polls[u] /\ polls[t] # None => t = u
    /\ \A t \in Tasks : polls[t] = mpolls => mpolls = None
    /\ \A t \in Tasks : Freed(t) => state[t] = "done"

\* No queue, loop, await or open handle refers to a block that is freed.
FreedIsForgotten ==
    \A t \in Tasks : Freed(t) =>
        /\ t \notin handles /\ t # mpolls /\ t # current
        /\ \A u \in Tasks : polls[u] # t
        /\ \A i \in 1..Len(ready) : ready[i] # t

\* Steps that open, await and free no handle, in which no block is unallocated and no
\* finished coroutine starts again.
LEMMA HandlesUntouched ==
    ASSUME HandlesInv, UNCHANGED <<handles, polls, mpolls, got>>,
           \A t \in Tasks : /\ state[t] # "none" => state'[t] # "none"
                            /\ state[t] = "done" => state'[t] = "done",
           CoInv
    PROVE  HandlesInv'
  <1>1. \A t \in Tasks : (Freed(t)' <=> Freed(t)) /\ (Alive(t) => Alive(t)')
    BY DEF Freed, Alive
  <1> HIDE DEF Freed, Alive
  <1>2. handles \subseteq Tasks /\ polls \in [Tasks -> Tasks \cup {None}]
        /\ mpolls \in Tasks \cup {None}
    BY DEF CoInv, TypeOK
  <1> QED BY <1>1, <1>2 DEF HandlesInv

\* A new handle is open, and no await can have been at work on it.
LEMMA SpawnKeepsHandles ==
    ASSUME CoInv, HandlesInv, NEW t \in Tasks, Spawn(t), UNCHANGED mainVars
    PROVE  HandlesInv'
  <1>1. /\ state[t] = "none" /\ handles' = handles \cup {t}
        /\ UNCHANGED <<polls, mpolls, got>> /\ ~Freed(t)
    BY DEF Spawn, mainVars, HandlesInv, Freed
  <1>2. /\ state' = [state EXCEPT ![t] = "ready"]
        /\ state \in [Tasks -> {"none", "ready", "running", "done"}]
    BY DEF Spawn, CoInv, TypeOK
  <1>3. \A u \in Tasks : Freed(u)' <=> Freed(u)
    BY <1>1 DEF Freed
  <1>4. \A u \in Tasks : Alive(u)' <=> Alive(u) \/ u = t
    BY <1>1, <1>2, <1>3 DEF Alive
  <1>5. ~Alive(t)
    BY <1>1 DEF Alive
  <1>6. \A u \in Tasks : Freed(u)' => state'[u] = "done"
    BY <1>1, <1>2, <1>3 DEF HandlesInv
  <1> HIDE DEF Freed, Alive
  <1>7. handles \subseteq Tasks /\ polls \in [Tasks -> Tasks \cup {None}]
        /\ mpolls \in Tasks \cup {None}
    BY DEF CoInv, TypeOK
  <1> QED BY <1>1, <1>4, <1>5, <1>6, <1>7 DEF HandlesInv

\* The handle awaited is no longer open, and was in no other await.
LEMMA AwaitKeepsHandles ==
    ASSUME CoInv, HandlesInv, NEW u \in Tasks, u \in handles, handles' = handles \ {u},
           UNCHANGED <<state, got>>,
           \/ polls' = polls /\ mpolls' = u
           \/ mpolls' = mpolls /\ \E t \in Tasks : polls' = [polls EXCEPT ![t] = u]
    PROVE  HandlesInv'
  <1> USE NamesAreDistinct
  <1>1. \A t \in Tasks : (Freed(t)' <=> Freed(t)) /\ (Alive(t)' <=> Alive(t))
    BY DEF Freed, Alive
  <1>2. \A t \in Tasks : Freed(t)' => state'[t] = "done"
    BY <1>1 DEF HandlesInv
  <1> HIDE DEF Freed, Alive
  <1>3. handles \subseteq Tasks /\ polls \in [Tasks -> Tasks \cup {None}]
        /\ mpolls \in Tasks \cup {None}
    BY DEF CoInv, TypeOK
  <1>4. Alive(u) /\ mpolls # u /\ \A t \in Tasks : polls[t] # u
    BY DEF HandlesInv
  <1>5. CASE polls' = polls /\ mpolls' = u
    BY <1>1, <1>2, <1>3, <1>4, <1>5 DEF HandlesInv
  <1>6. ASSUME NEW t \in Tasks, polls' = [polls EXCEPT ![t] = u], mpolls' = mpolls
        PROVE  HandlesInv'
    BY <1>1, <1>2, <1>3, <1>4, <1>6 DEF HandlesInv
  <1> QED BY <1>5, <1>6

\* The await that frees a block was the only one at work on it.
LEMMA CollectKeepsHandles ==
    ASSUME CoInv, HandlesInv, NEW u \in Tasks, state[u] = "done", Collect(u),
           UNCHANGED <<state, handles>>,
           \/ mpolls = u /\ polls' = polls /\ mpolls' = None
           \/ /\ mpolls' = mpolls
              /\ \E t \in Tasks : polls[t] = u /\ polls' = [polls EXCEPT ![t] = None]
    PROVE  HandlesInv'
  <1> USE NamesAreDistinct
  <1>1. \A t \in Tasks \ {u} : (Freed(t)' <=> Freed(t)) /\ (Alive(t)' <=> Alive(t))
    BY DEF Freed, Alive, Collect, CoInv, TypeOK
  <1>2. \A t \in Tasks : Freed(t)' => state'[t] = "done"
    BY <1>1 DEF HandlesInv
  <1>3. handles \subseteq Tasks /\ polls \in [Tasks -> Tasks \cup {None}]
        /\ mpolls \in Tasks \cup {None}
    BY DEF CoInv, TypeOK
  <1>4. u \notin handles
    BY DEF HandlesInv
  <1>5. CASE mpolls = u /\ polls' = polls /\ mpolls' = None
    <2>1. \A t \in Tasks : polls[t] # u
      BY <1>5 DEF HandlesInv
    <2> QED BY <1>1, <1>2, <1>3, <1>4, <1>5, <2>1 DEF HandlesInv
  <1>6. ASSUME NEW t \in Tasks, polls[t] = u, polls' = [polls EXCEPT ![t] = None],
               mpolls' = mpolls
        PROVE  HandlesInv'
    <2>1. mpolls # u /\ \A v \in Tasks \ {t} : polls[v] # u
      BY <1>6 DEF HandlesInv
    <2> QED BY <1>1, <1>2, <1>3, <1>4, <1>6, <2>1 DEF HandlesInv
  <1> QED BY <1>5, <1>6

\* One case for each kind of step, by what it does to the handles.
LEMMA HandlesInductive ==
    ASSUME CoInv, MainPolls, HandlesInv, [Next]_vars
    PROVE  HandlesInv'
  <1> USE NamesAreDistinct
  <1>1. CASE MainRun \/ EndRun \/ Requeue \/ Tick \/ UNCHANGED vars
    <2>1. UNCHANGED <<handles, polls, mpolls, got, state>>
      BY <1>1 DEF MainRun, EndRun, Requeue, Tick, vars, taskVars, mainVars
    <2> QED BY <2>1, HandlesUntouched
  <1>2. CASE Resume
    <2>1. /\ state[Head(ready)] # "done" /\ state' = [state EXCEPT ![Head(ready)] = "running"]
          /\ UNCHANGED <<handles, polls, mpolls, got>>
      BY <1>2 DEF Resume, mainVars
    <2>2. \A t \in Tasks : /\ state[t] # "none" => state'[t] # "none"
                           /\ state[t] = "done" => state'[t] = "done"
      BY <2>1 DEF CoInv, TypeOK
    <2> QED BY <2>1, <2>2, HandlesUntouched
  <1>3. ASSUME NEW t \in Tasks, MainSpawn(t) \/ \E u \in Tasks : CoSpawn(u, t)
        PROVE  HandlesInv'
    BY <1>3, SpawnKeepsHandles DEF MainSpawn, CoSpawn, Spawn, mainVars
  <1>4. ASSUME NEW u \in Tasks, MainAwait(u) PROVE HandlesInv'
    <2>1. /\ u \in handles /\ handles' = handles \ {u} /\ UNCHANGED <<state, got>>
          /\ polls' = polls /\ mpolls' = u
      BY <1>4 DEF MainAwait, taskVars
    <2> QED BY <2>1, AwaitKeepsHandles
  <1>5. ASSUME NEW t \in Tasks, NEW u \in Tasks, CoAwait(t, u) PROVE HandlesInv'
    <2>1. /\ u \in handles /\ handles' = handles \ {u} /\ UNCHANGED <<state, got>>
          /\ mpolls' = mpolls /\ polls' = [polls EXCEPT ![t] = u]
      BY <1>5 DEF CoAwait, taskVars, mainVars
    <2> QED BY <2>1, AwaitKeepsHandles
  <1>6. CASE MainPoll
    <2>1. UNCHANGED <<state, handles, polls>> /\ mpolls \in Tasks
      BY <1>6 DEF MainPoll, MainPolls, taskVars
    <2>2. CASE state[mpolls] = "done"
      <3>1. Collect(mpolls) /\ mpolls' = None
        BY <1>6, <2>2 DEF MainPoll
      <3> QED BY <2>1, <2>2, <3>1, CollectKeepsHandles
    <2>3. CASE state[mpolls] # "done"
      BY <1>6, <2>1, <2>3, HandlesUntouched DEF MainPoll
    <2> QED BY <2>2, <2>3
  <1>7. ASSUME NEW t \in Tasks, CoPoll(t) PROVE HandlesInv'
    <2>1. UNCHANGED <<state, handles, mpolls>> /\ polls[t] \in Tasks
      BY <1>7 DEF CoPoll, taskVars, mainVars, CoInv, TypeOK
    <2>2. CASE state[polls[t]] = "done"
      <3>1. Collect(polls[t]) /\ polls' = [polls EXCEPT ![t] = None]
        BY <1>7, <2>2 DEF CoPoll
      <3> QED BY <2>1, <2>2, <3>1, CollectKeepsHandles
    <2>3. CASE state[polls[t]] # "done"
      BY <1>7, <2>1, <2>3, HandlesUntouched DEF CoPoll
    <2> QED BY <2>2, <2>3
  <1>8. ASSUME NEW t \in Tasks, CoYield(t) \/ CoSleep(t) \/ CoReturn(t) PROVE HandlesInv'
    <2>1. UNCHANGED <<handles, polls, mpolls, got, state>>
      BY <1>8 DEF CoYield, CoSleep, CoReturn, taskVars, mainVars
    <2> QED BY <2>1, HandlesUntouched
  <1>9. ASSUME NEW t \in Tasks, CoFinish(t) PROVE HandlesInv'
    <2>1. /\ state' = [state EXCEPT ![t] = "done"] /\ UNCHANGED <<handles, polls, mpolls, got>>
      BY <1>9 DEF CoFinish, mainVars
    <2>2. \A u \in Tasks : /\ state[u] # "none" => state'[u] # "none"
                           /\ state[u] = "done" => state'[u] = "done"
      BY <2>1 DEF CoInv, TypeOK
    <2> QED BY <2>1, <2>2, HandlesUntouched
  <1> QED BY <1>1, <1>2, <1>3, <1>4, <1>5, <1>6, <1>7, <1>8, <1>9
      DEF Next, MainStep, LoopStep, CoStep

\* Once an await has freed a coroutine's block, nothing reads, runs, unlinks or frees it
\* again: it is in no queue, no loop runs it, no other await polls it, and no handle is
\* left to await it by.
THEOREM FreedBlocksAreForgotten == SafeSpec => []FreedIsForgotten
  <1>1. Init => HandlesInv
    BY NamesAreDistinct DEF Init, HandlesInv, Freed, Alive
  <1>2. CoInv /\ MainPolls /\ HandlesInv /\ [Next]_vars => HandlesInv'
    BY HandlesInductive
  <1>3. ASSUME CoInv, HandlesInv PROVE FreedIsForgotten
    <2> SUFFICES ASSUME NEW t \in Tasks, Freed(t)
                 PROVE  /\ t \notin handles /\ t # mpolls /\ t # current
                        /\ \A u \in Tasks : polls[u] # t
                        /\ \A i \in 1..Len(ready) : ready[i] # t
      BY DEF FreedIsForgotten
    <2>1. state[t] = "done" /\ ~Alive(t)
      BY <1>3 DEF HandlesInv, Alive
    <2>2. t # current /\ \A i \in 1..Len(ready) : ready[i] # t
      BY <1>3, <2>1, NotQueued, NamesAreDistinct DEF CoInv, CurrentRuns, Unfinished
    <2>3. t \notin handles /\ t # mpolls /\ \A u \in Tasks : polls[u] # t
      BY <1>3, <2>1, NamesAreDistinct DEF HandlesInv
    <2> QED BY <2>2, <2>3
  <1> QED BY <1>1, <1>2, <1>3, CoInvAlways, PTL DEF SafeSpec
==============================================================================
