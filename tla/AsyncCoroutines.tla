--------------------------- MODULE AsyncCoroutines ---------------------------
(***************************************************************************)
(* The stackful coroutines behind async / spawn / await (rt/runtime.c,     *)
(* bux_async_spawn and its siblings): one OS thread, one first-in first-   *)
(* out ready queue, a scheduler loop that the main code enters from await. *)
(* Only one of main code, scheduler loop and current coroutine runs at a   *)
(* time, and a coroutine runs until it yields, sleeps, awaits or returns.  *)
(* The linked list of the ready queue is the sequence it spells.           *)
(*                                                                         *)
(* An operator marked (slip) is an action with a plausible programming     *)
(* mistake in it.  No specification here uses one: it is there to be put   *)
(* in the place of the action, and some property must then fail.           *)
(***************************************************************************)
EXTENDS Integers, Sequences, SequencesExt, FiniteSets

CONSTANTS
    Tasks,          \* blocks bux_async_spawn can allocate; none is used twice
    None,           \* NULL
    Junk,           \* what malloc leaves in a field nobody has set
    Awaits,         \* which coroutine's body may await which, as pairs
    CallsReturn,    \* do bodies call bux_async_return before they return?
    MaxYields,      \* bound: yields and sleeps of one coroutine
    Delay,          \* milliseconds of a bux_async_sleep
    MaxNow          \* bound: the clock

ASSUME NamesAreDistinct == None \notin Tasks /\ Junk \notin Tasks /\ None # Junk
ASSUME AwaitsArePairs == Awaits \subseteq Tasks \X Tasks
ASSUME CallsReturnIsBoolean == CallsReturn \in BOOLEAN
ASSUME BoundsAreNat == MaxYields \in Nat /\ MaxNow \in Nat /\ Delay \in Nat \ {0}

VARIABLES
    ready,        \* bux_ready_head .. bux_ready_tail
    current,      \* bux_current_task
    state,        \* task->state: "none", "ready" (0), "running" (1), "done" (2)
    sleep_until,  \* task->sleep_until_ms
    result,       \* task->result; a coroutine returns its own name
    polls,        \* the coroutine that a coroutine's await polls
    yields,       \* yields and sleeps of each coroutine so far
    handles,      \* handles nobody has awaited
    got,          \* what the await of each coroutine delivered
    mpc,          \* the main code: "code", "await", or "run" (in bux_async_run)
    mpolls,       \* the coroutine that the main code's await polls
    now           \* bux_now_ms()

taskVars == <<state, sleep_until, result>>
mainVars == <<mpc, mpolls>>
vars == <<ready, current, state, sleep_until, result, polls, yields, handles, got,
          mpc, mpolls, now>>

Init ==
    /\ ready = <<>> /\ current = None
    /\ state = [t \in Tasks |-> "none"]
    /\ sleep_until = [t \in Tasks |-> 0]
    /\ result = [t \in Tasks |-> Junk]
    /\ polls = [t \in Tasks |-> None]
    /\ yields = [t \in Tasks |-> 0]
    /\ handles = {}
    /\ got = [t \in Tasks |-> None]
    /\ mpc = "code" /\ mpolls = None
    /\ now = 0

\* (slip) Enqueues at the head, as the green-thread scheduler does.
EnqueuedAtHead(t) == <<t>> \o ready

\* bux_enqueue_ready
Enqueued(t) == Append(ready, t)

------------------------------------------------------------------------------
\* bux_async_spawn sets every field of the block but result.
Spawn(t) ==
    /\ state[t] = "none"
    /\ state' = [state EXCEPT ![t] = "ready"]
    /\ sleep_until' = [sleep_until EXCEPT ![t] = 0]
    /\ handles' = handles \cup {t}
    /\ ready' = Enqueued(t)
    /\ UNCHANGED <<current, result, polls, yields, got, now>>
    /\ UNCHANGED mainVars

\* The end of bux_async_await: read the result, unlink and free the block.
Collect(t) ==
    /\ got' = [got EXCEPT ![t] = result[t]]
    /\ ready' = RemoveFirst(ready, t)

(* The main code.                                                            *)

MainSpawn(t) == mpc = "code" /\ Spawn(t)

\* bux_async_run called from the main code.
MainRun ==
    /\ mpc = "code"
    /\ mpc' = "run"
    /\ UNCHANGED <<ready, current, polls, yields, handles, got, mpolls, now>>
    /\ UNCHANGED taskVars

MainAwait(t) ==
    /\ mpc = "code"
    /\ t \in handles
    /\ handles' = handles \ {t}
    /\ mpolls' = t
    /\ mpc' = "await"
    /\ UNCHANGED <<ready, current, polls, yields, got, now>>
    /\ UNCHANGED taskVars

\* (slip) The result is read whether or not the coroutine has finished.
MainPollOnce ==
    /\ mpc = "await"
    /\ Collect(mpolls)
    /\ mpolls' = None
    /\ mpc' = "code"
    /\ UNCHANGED <<current, polls, yields, handles, now>>
    /\ UNCHANGED taskVars

\* while (target->state != 2) bux_async_run()
MainPoll ==
    /\ mpc = "await"
    /\ IF state[mpolls] = "done"
       THEN /\ Collect(mpolls)
            /\ mpolls' = None
            /\ mpc' = "code"
       ELSE /\ mpc' = "run"
            /\ UNCHANGED <<ready, got, mpolls>>
    /\ UNCHANGED <<current, polls, yields, handles, now>>
    /\ UNCHANGED taskVars

------------------------------------------------------------------------------
(* One round of the loop in bux_async_run.                                   *)

InLoop == mpc = "run" /\ current = None

Asleep(t) == sleep_until[t] > 0 /\ now < sleep_until[t]

\* (slip) The loop ends when nothing but sleeping tasks is left.
EndRunWhenAsleep ==
    /\ InLoop
    /\ \A i \in 1..Len(ready) : Asleep(ready[i])
    /\ mpc' = IF mpolls = None THEN "code" ELSE "await"
    /\ UNCHANGED <<ready, current, polls, yields, handles, got, mpolls, now>>
    /\ UNCHANGED taskVars

EndRun ==
    /\ InLoop
    /\ ready = <<>>
    /\ mpc' = IF mpolls = None THEN "code" ELSE "await"
    /\ UNCHANGED <<ready, current, polls, yields, handles, got, mpolls, now>>
    /\ UNCHANGED taskVars

\* A completed task, or one that sleeps, goes to the end of the queue; a
\* sleeping task that is alone puts the thread to sleep.
Requeue ==
    /\ InLoop
    /\ ready # <<>>
    /\ state[Head(ready)] = "done" \/ Asleep(Head(ready))
    /\ ready' = Append(Tail(ready), Head(ready))
    /\ now' = IF state[Head(ready)] # "done" /\ Tail(ready) = <<>>
              THEN sleep_until[Head(ready)] ELSE now
    /\ UNCHANGED <<current, polls, yields, handles, got>>
    /\ UNCHANGED taskVars
    /\ UNCHANGED mainVars

Resume ==
    /\ InLoop
    /\ ready # <<>>
    /\ state[Head(ready)] # "done" /\ ~Asleep(Head(ready))
    /\ ready' = Tail(ready)
    /\ current' = Head(ready)
    /\ sleep_until' = [sleep_until EXCEPT ![Head(ready)] = 0]
    /\ state' = [state EXCEPT ![Head(ready)] = "running"]
    /\ UNCHANGED <<result, polls, yields, handles, got, now>>
    /\ UNCHANGED mainVars

------------------------------------------------------------------------------
(* The current coroutine.                                                    *)

InBody(t) == current = t /\ polls[t] = None

CoSpawn(t, u) == InBody(t) /\ Spawn(u)

\* bux_async_yield: into the queue, and back to the loop.
Yielded(t) == current' = None /\ ready' = Enqueued(t)

CoYield(t) ==
    /\ InBody(t)
    /\ yields[t] < MaxYields
    /\ yields' = [yields EXCEPT ![t] = @ + 1]
    /\ Yielded(t)
    /\ UNCHANGED <<polls, handles, got, now>>
    /\ UNCHANGED taskVars
    /\ UNCHANGED mainVars

CoSleep(t) ==
    /\ InBody(t)
    /\ yields[t] < MaxYields
    /\ now + Delay <= MaxNow
    /\ yields' = [yields EXCEPT ![t] = @ + 1]
    /\ sleep_until' = [sleep_until EXCEPT ![t] = now + Delay]
    /\ Yielded(t)
    /\ UNCHANGED <<state, result, polls, handles, got, now>>
    /\ UNCHANGED mainVars

\* bux_async_return
CoReturn(t) ==
    /\ InBody(t)
    /\ CallsReturn
    /\ result[t] = Junk
    /\ result' = [result EXCEPT ![t] = t]
    /\ UNCHANGED <<ready, current, state, sleep_until, polls, yields, handles, got, now>>
    /\ UNCHANGED mainVars

CoAwait(t, u) ==
    /\ InBody(t)
    /\ <<t, u>> \in Awaits
    /\ u \in handles
    /\ handles' = handles \ {u}
    /\ polls' = [polls EXCEPT ![t] = u]
    /\ UNCHANGED <<ready, current, yields, got, now>>
    /\ UNCHANGED taskVars
    /\ UNCHANGED mainVars

\* while (target->state != 2) bux_async_yield()
CoPoll(t) ==
    /\ current = t
    /\ polls[t] # None
    /\ IF state[polls[t]] = "done"
       THEN /\ Collect(polls[t])
            /\ polls' = [polls EXCEPT ![t] = None]
            /\ UNCHANGED current
       ELSE /\ Yielded(t)
            /\ UNCHANGED <<got, polls>>
    /\ UNCHANGED <<yields, handles, now>>
    /\ UNCHANGED taskVars
    /\ UNCHANGED mainVars

\* (slip) A finished coroutine is enqueued like one that yields.
CoFinishQueued(t) ==
    /\ InBody(t)
    /\ CallsReturn => result[t] # Junk
    /\ state' = [state EXCEPT ![t] = "done"]
    /\ Yielded(t)
    /\ UNCHANGED <<sleep_until, result, polls, yields, handles, got, now>>
    /\ UNCHANGED mainVars

\* (slip) The trampoline does not mark the coroutine done.
CoFinishUnmarked(t) ==
    /\ InBody(t)
    /\ CallsReturn => result[t] # Junk
    /\ current' = None
    /\ UNCHANGED <<ready, state, sleep_until, result, polls, yields, handles, got, now>>
    /\ UNCHANGED mainVars

\* The body returns to bux_coro_trampoline: done, and into no queue.
CoFinish(t) ==
    /\ InBody(t)
    /\ CallsReturn => result[t] # Junk
    /\ state' = [state EXCEPT ![t] = "done"]
    /\ current' = None
    /\ UNCHANGED <<ready, sleep_until, result, polls, yields, handles, got, now>>
    /\ UNCHANGED mainVars

Tick ==
    /\ now < MaxNow
    /\ now' = now + 1
    /\ UNCHANGED <<ready, current, polls, yields, handles, got>>
    /\ UNCHANGED taskVars
    /\ UNCHANGED mainVars

------------------------------------------------------------------------------
MainStep == MainRun \/ \E t \in Tasks : MainSpawn(t) \/ MainAwait(t)

LoopStep == MainPoll \/ EndRun \/ Requeue \/ Resume

CoStep(t) ==
    \/ CoYield(t) \/ CoSleep(t) \/ CoReturn(t) \/ CoPoll(t) \/ CoFinish(t)
    \/ \E u \in Tasks : CoSpawn(t, u) \/ CoAwait(t, u)

Next == MainStep \/ LoopStep \/ (\E t \in Tasks : CoStep(t)) \/ Tick

\* The thread runs, the clock goes on, and a body reaches its next call or its
\* end after finitely many steps.  The main code need not call anything.
Fairness ==
    /\ WF_vars(LoopStep) /\ WF_vars(Tick)
    /\ \A t \in Tasks : WF_vars(CoStep(t))

SafeSpec == Init /\ [][Next]_vars

Spec == SafeSpec /\ Fairness

------------------------------------------------------------------------------
TypeOK ==
    /\ ready \in Seq(Tasks) /\ current \in Tasks \cup {None}
    /\ state \in [Tasks -> {"none", "ready", "running", "done"}]
    /\ sleep_until \in [Tasks -> 0..MaxNow]
    /\ result \in [Tasks -> Tasks \cup {Junk}]
    /\ polls \in [Tasks -> Tasks \cup {None}]
    /\ yields \in [Tasks -> 0..MaxYields]
    /\ handles \in SUBSET Tasks
    /\ got \in [Tasks -> Tasks \cup {None, Junk}]
    /\ mpc \in {"code", "await", "run"} /\ mpolls \in Tasks \cup {None}
    /\ now \in 0..MaxNow

Places(t) == {i \in 1..Len(ready) : ready[i] = t}

\* The queue holds every unfinished coroutine but the current one, once, and no
\* finished one: the loop would requeue a finished one for ever, and one that
\* is queued twice would run again after its block is freed.
QueueHoldsUnfinished ==
    \A t \in Tasks :
        Cardinality(Places(t)) =
            IF state[t] \in {"ready", "running"} /\ current # t THEN 1 ELSE 0

\* bux_async_run comes back when every coroutine has finished, those included
\* that were spawned, or put to sleep, while it ran.
RunFinishesAll ==
    [][mpc = "run" /\ mpc' # "run" => \A t \in Tasks : state[t] \in {"none", "done"}]_vars

\* A coroutine that is spawned gets its turn, whatever the others poll for.
EveryoneRuns ==
    \A t \in Tasks : (mpc = "run" /\ state[t] = "ready") ~> (state[t] # "ready")

\* The main code's await returns, although the coroutine may sleep, and await
\* and spawn others (no two coroutines of the instance await each other).
AwaitReturns == (mpolls # None) ~> (mpolls = None)

\* await delivers what the awaited coroutine returned.
AwaitDelivers == \A t \in Tasks : got[t] \in {None, t}
==============================================================================
