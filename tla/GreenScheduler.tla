---------------------------- MODULE GreenScheduler ----------------------------
(***************************************************************************)
(* The M:N green-thread scheduler of the Bux C runtime (rt/runtime.c):     *)
(* worker threads with a run queue each, work stealing, cooperative        *)
(* switching with ucontext, and Task_Spawn / Task_Wait / Task_Yield /      *)
(* Task_Sleep / Task_Shutdown as a program calls them.                     *)
(*                                                                         *)
(* A task is the address of its BuxTask block.  A run queue is the         *)
(* sequence its linked list spells (module RunQueue shows that it does);   *)
(* every operation on it runs under the queue's lock and is one step.      *)
(* What a task's function does between two runtime calls is left open.     *)
(*                                                                         *)
(* An operator marked (slip) is an action with a plausible programming     *)
(* mistake in it.  No specification here uses one: it is there to be put   *)
(* in the place of the action, and some property must then fail.           *)
(***************************************************************************)
EXTENDS Integers, Sequences, SequencesExt, FiniteSets

CONSTANTS
    Workers,     \* worker threads of the pool (g_task_pool.schedulers)
    Tasks,       \* addresses at which a BuxTask can be allocated
    None,        \* NULL
    Waiters,     \* the tasks whose function may call Task_Wait
    MaxYields,   \* bound: Task_Yield / Task_Sleep calls in one task's function
    MaxSpawns,   \* bound: Task_Spawn calls in one run of the program
    Reuse,       \* may malloc hand out the block of a task freed before?
    MayShutdown  \* does the main thread call Task_Shutdown?

ASSUME PoolNonEmpty == Workers # {} /\ IsFiniteSet(Workers)
ASSUME NoneIsNoTask == None \notin Tasks
ASSUME WaitersAreTasks == Waiters \subseteq Tasks
ASSUME BoundsAreNat == MaxYields \in Nat /\ MaxSpawns \in Nat
ASSUME FlagsAreBoolean == Reuse \in BOOLEAN /\ MayShutdown \in BOOLEAN

VARIABLES
    queue,     \* run queue of each worker, head first
    found,     \* local "task" of bux_scheduler_run, before the switch
    current,   \* sched->current
    wpc,       \* where each worker thread is
    state,     \* task->state, as the bytes of the block read
    live,      \* is the block (and its stack) allocated?
    waiting,   \* the task a task's Task_Wait call polls
    yields,    \* Task_Yield calls of the task so far
    handles,   \* handles nobody has passed to Task_Wait
    spawned,   \* Task_Spawn calls so far
    mpc,       \* where the main thread is: "run", "stopping", "down"
    mwaiting,  \* the task the main thread's Task_Wait polls
    shutdown   \* g_task_pool.shutdown

poolVars == <<queue, found, current, wpc>>
taskVars == <<state, live, waiting, yields, handles, spawned>>
mainVars == <<mpc, mwaiting, shutdown>>
vars == <<queue, found, current, wpc, state, live, waiting, yields, handles,
          spawned, mpc, mwaiting, shutdown>>

\* The pool once bux_scheduler_init has made it: the first spawn, or Task_Init,
\* does so before any task exists.
Init ==
    /\ queue = [w \in Workers |-> <<>>]
    /\ found = [w \in Workers |-> None]
    /\ current = [w \in Workers |-> None]
    /\ wpc = [w \in Workers |-> "loop"]
    /\ state = [t \in Tasks |-> "none"]
    /\ live = [t \in Tasks |-> FALSE]
    /\ waiting = [t \in Tasks |-> None]
    /\ yields = [t \in Tasks |-> 0]
    /\ handles = {}
    /\ spawned = 0
    /\ mpc = "run"
    /\ mwaiting = None
    /\ shutdown = FALSE

------------------------------------------------------------------------------
\* bux_queue_push: at the head.
Pushed(t, w) == [queue EXCEPT ![w] = <<t>> \o @]

\* (slip) The head is read and not unlinked.
PopWithoutUnlink(w) ==
    /\ wpc[w] = "pop"
    /\ IF queue[w] # <<>>
       THEN /\ found' = [found EXCEPT ![w] = Head(queue[w])]
            /\ wpc' = [wpc EXCEPT ![w] = "switch"]
       ELSE /\ wpc' = [wpc EXCEPT ![w] = IF Workers = {w} THEN "loop" ELSE "steal"]
            /\ UNCHANGED found
    /\ UNCHANGED <<queue, current>>
    /\ UNCHANGED taskVars
    /\ UNCHANGED mainVars

\* while (!g_task_pool.shutdown)
TestShutdown(w) ==
    /\ wpc[w] = "loop"
    /\ wpc' = [wpc EXCEPT ![w] = IF shutdown THEN "exit" ELSE "pop"]
    /\ UNCHANGED <<queue, found, current>>
    /\ UNCHANGED taskVars
    /\ UNCHANGED mainVars

\* bux_queue_pop on the worker's own queue: from the head.
Pop(w) ==
    /\ wpc[w] = "pop"
    /\ IF queue[w] # <<>>
       THEN /\ found' = [found EXCEPT ![w] = Head(queue[w])]
            /\ queue' = [queue EXCEPT ![w] = Tail(@)]
            /\ wpc' = [wpc EXCEPT ![w] = "switch"]
       ELSE /\ wpc' = [wpc EXCEPT ![w] = IF Workers = {w} THEN "loop" ELSE "steal"]
            /\ UNCHANGED <<queue, found>>
    /\ UNCHANGED current
    /\ UNCHANGED taskVars
    /\ UNCHANGED mainVars

\* (slip) A thief leaves the last task of a queue to its owner.
StealFromTwo(w, v) ==
    /\ wpc[w] = "steal"
    /\ v # w
    /\ IF Len(queue[v]) > 1
       THEN /\ found' = [found EXCEPT ![w] = Last(queue[v])]
            /\ queue' = [queue EXCEPT ![v] = Front(@)]
            /\ wpc' = [wpc EXCEPT ![w] = "switch"]
       ELSE /\ wpc' = [wpc EXCEPT ![w] = "loop"]
            /\ UNCHANGED <<queue, found>>
    /\ UNCHANGED current
    /\ UNCHANGED taskVars
    /\ UNCHANGED mainVars

\* bux_queue_steal from the victim bux_pick_victim drew: from the tail.  A
\* worker that finds nothing sleeps for a millisecond and starts over.
Steal(w, v) ==
    /\ wpc[w] = "steal"
    /\ v # w
    /\ IF queue[v] # <<>>
       THEN /\ found' = [found EXCEPT ![w] = Last(queue[v])]
            /\ queue' = [queue EXCEPT ![v] = Front(@)]
            /\ wpc' = [wpc EXCEPT ![w] = "switch"]
       ELSE /\ wpc' = [wpc EXCEPT ![w] = "loop"]
            /\ UNCHANGED <<queue, found>>
    /\ UNCHANGED current
    /\ UNCHANGED taskVars
    /\ UNCHANGED mainVars

\* (slip) The state word is not set to RUNNING.
SwitchUnmarked(w) ==
    /\ wpc[w] = "switch"
    /\ current' = [current EXCEPT ![w] = found[w]]
    /\ found' = [found EXCEPT ![w] = None]
    /\ wpc' = [wpc EXCEPT ![w] = "run"]
    /\ UNCHANGED <<queue, state, live, waiting, yields, handles, spawned>>
    /\ UNCHANGED mainVars

\* bux_task_switch(NULL, task)
Switch(w) ==
    /\ wpc[w] = "switch"
    /\ state' = [state EXCEPT ![found[w]] = "RUNNING"]
    /\ current' = [current EXCEPT ![w] = found[w]]
    /\ found' = [found EXCEPT ![w] = None]
    /\ wpc' = [wpc EXCEPT ![w] = "run"]
    /\ UNCHANGED <<queue, live, waiting, yields, handles, spawned>>
    /\ UNCHANGED mainVars

\* (slip) A sleeping task is marked BLOCKED; nothing requeues it.
GiveUpBlocked(w) ==
    /\ state' = [state EXCEPT ![current[w]] = "BLOCKED"]
    /\ wpc' = [wpc EXCEPT ![w] = "back"]
    /\ UNCHANGED <<queue, found, current>>

\* Task_Yield, or Task_Sleep called in a task: the task gives up its worker.
GiveUp(w) ==
    /\ state' = [state EXCEPT ![current[w]] = "READY"]
    /\ wpc' = [wpc EXCEPT ![w] = "back"]
    /\ UNCHANGED <<queue, found, current>>

Yield(w) ==
    /\ wpc[w] = "run"
    /\ waiting[current[w]] = None
    /\ yields[current[w]] < MaxYields
    /\ yields' = [yields EXCEPT ![current[w]] = @ + 1]
    /\ GiveUp(w)
    /\ UNCHANGED <<live, waiting, handles, spawned>>
    /\ UNCHANGED mainVars

\* (slip) A finished task is freed at once, not by the one who waits for it.
FinishAndFree(w) ==
    /\ wpc[w] = "run"
    /\ waiting[current[w]] = None
    /\ state' = [state EXCEPT ![current[w]] = "FINISHED"]
    /\ live' = [live EXCEPT ![current[w]] = FALSE]
    /\ wpc' = [wpc EXCEPT ![w] = "leave"]
    /\ UNCHANGED <<queue, found, current, waiting, yields, handles, spawned>>
    /\ UNCHANGED mainVars

\* (slip) The state word is not set to FINISHED.
FinishUnmarked(w) ==
    /\ wpc[w] = "run"
    /\ waiting[current[w]] = None
    /\ wpc' = [wpc EXCEPT ![w] = "leave"]
    /\ UNCHANGED <<queue, found, current, state, live, waiting, yields, handles, spawned>>
    /\ UNCHANGED mainVars

\* bux_task_entry when the task's function returns: first the state ...
Finish(w) ==
    /\ wpc[w] = "run"
    /\ waiting[current[w]] = None
    /\ state' = [state EXCEPT ![current[w]] = "FINISHED"]
    /\ wpc' = [wpc EXCEPT ![w] = "leave"]
    /\ UNCHANGED <<queue, found, current, live, waiting, yields, handles, spawned>>
    /\ UNCHANGED mainVars

\* ... then, still on the task's stack, swapcontext saves into task->ctx.
Leave(w) ==
    /\ wpc[w] = "leave"
    /\ wpc' = [wpc EXCEPT ![w] = "back"]
    /\ UNCHANGED <<queue, found, current>>
    /\ UNCHANGED taskVars
    /\ UNCHANGED mainVars

\* (slip) A task that gave up its worker is not pushed back.
BackWithoutPush(w) ==
    /\ wpc[w] = "back"
    /\ wpc' = [wpc EXCEPT ![w] = "loop"]
    /\ current' = [current EXCEPT ![w] = None]
    /\ UNCHANGED <<queue, found>>
    /\ UNCHANGED taskVars
    /\ UNCHANGED mainVars

\* Back in bux_scheduler_run, which reads sched->current->state.  The block may
\* have been freed by then, and handed out again: the read sees what it holds.
\* sched->current is the worker's own, so clearing it goes with the push.
Back(w) ==
    /\ wpc[w] = "back"
    /\ wpc' = [wpc EXCEPT ![w] = "loop"]
    /\ \/ /\ state[current[w]] = "FINISHED"
          /\ current' = [current EXCEPT ![w] = None]
          /\ UNCHANGED queue
       \/ /\ state[current[w]] = "READY"
          /\ queue' = Pushed(current[w], w)
          /\ current' = [current EXCEPT ![w] = None]
       \/ /\ state[current[w]] \notin {"FINISHED", "READY"}
          /\ UNCHANGED <<queue, current>>
    /\ UNCHANGED found
    /\ UNCHANGED taskVars
    /\ UNCHANGED mainVars

------------------------------------------------------------------------------
\* bux_task_spawn: a block malloc may return, pushed to a random worker.
Spawn(t, v) ==
    /\ spawned < MaxSpawns
    /\ ~live[t]
    /\ state[t] = "none" \/ Reuse
    /\ spawned' = spawned + 1
    /\ state' = [state EXCEPT ![t] = "READY"]
    /\ live' = [live EXCEPT ![t] = TRUE]
    /\ yields' = [yields EXCEPT ![t] = 0]
    /\ waiting' = [waiting EXCEPT ![t] = None]
    /\ handles' = handles \cup {t}
    /\ queue' = Pushed(t, v)
    /\ UNCHANGED <<found, current, wpc>>
    /\ UNCHANGED mainVars

SpawnFromMain(t, v) == mpc \in {"run", "down"} /\ Spawn(t, v)

SpawnFromTask(w, t, v) ==
    /\ wpc[w] = "run"
    /\ waiting[current[w]] = None
    /\ Spawn(t, v)

\* Task_Wait takes a handle nobody else waits on: a program that waits twice
\* on one handle uses a block it has freed itself.
BeginWaitInTask(w, t) ==
    /\ wpc[w] = "run"
    /\ current[w] \in Waiters
    /\ waiting[current[w]] = None
    /\ t \in handles
    /\ t # current[w]
    /\ handles' = handles \ {t}
    /\ waiting' = [waiting EXCEPT ![current[w]] = t]
    /\ UNCHANGED <<state, live, yields, spawned>>
    /\ UNCHANGED poolVars
    /\ UNCHANGED mainVars

\* bux_task_join in a task: poll, and give up the worker while the other task
\* is not finished; then free its stack and its block.
PollInTask(w) ==
    /\ wpc[w] = "run"
    /\ waiting[current[w]] # None
    /\ IF state[waiting[current[w]]] # "FINISHED"
       THEN /\ GiveUp(w)
            /\ UNCHANGED <<live, waiting>>
       ELSE /\ live' = [live EXCEPT ![waiting[current[w]]] = FALSE]
            /\ waiting' = [waiting EXCEPT ![current[w]] = None]
            /\ UNCHANGED state
            /\ UNCHANGED poolVars
    /\ UNCHANGED <<yields, handles, spawned>>
    /\ UNCHANGED mainVars

BeginWaitInMain(t) ==
    /\ mpc \in {"run", "down"}
    /\ mwaiting = None
    /\ t \in handles
    /\ handles' = handles \ {t}
    /\ mwaiting' = t
    /\ UNCHANGED <<state, live, waiting, yields, spawned, mpc, shutdown>>
    /\ UNCHANGED poolVars

\* bux_task_join on the main thread, which sleeps between two polls.
EndWaitInMain ==
    /\ mwaiting # None
    /\ state[mwaiting] = "FINISHED"
    /\ live' = [live EXCEPT ![mwaiting] = FALSE]
    /\ mwaiting' = None
    /\ UNCHANGED <<state, waiting, yields, handles, spawned, mpc, shutdown>>
    /\ UNCHANGED poolVars

\* (slip) The workers are joined without the flag being raised.
BeginShutdownSilently ==
    /\ MayShutdown
    /\ mpc = "run"
    /\ mwaiting = None
    /\ mpc' = "stopping"
    /\ UNCHANGED <<mwaiting, shutdown>>
    /\ UNCHANGED poolVars
    /\ UNCHANGED taskVars

\* bux_scheduler_shutdown: raise the flag ...
BeginShutdown ==
    /\ MayShutdown
    /\ mpc = "run"
    /\ mwaiting = None
    /\ mpc' = "stopping"
    /\ shutdown' = TRUE
    /\ UNCHANGED mwaiting
    /\ UNCHANGED poolVars
    /\ UNCHANGED taskVars

\* ... and pthread_join the workers.
EndShutdown ==
    /\ mpc = "stopping"
    /\ \A w \in Workers : wpc[w] = "exit"
    /\ mpc' = "down"
    /\ UNCHANGED <<mwaiting, shutdown>>
    /\ UNCHANGED poolVars
    /\ UNCHANGED taskVars

------------------------------------------------------------------------------
WorkerStep(w) == TestShutdown(w) \/ Pop(w) \/ Switch(w) \/ Leave(w) \/ Back(w)

TaskStep(w) ==
    \/ Yield(w) \/ Finish(w) \/ PollInTask(w)
    \/ \E t \in Tasks : BeginWaitInTask(w, t)
    \/ \E t \in Tasks, v \in Workers : SpawnFromTask(w, t, v)

MainStep ==
    \/ \E t \in Tasks, v \in Workers : SpawnFromMain(t, v)
    \/ \E t \in Tasks : BeginWaitInMain(t)
    \/ EndWaitInMain
    \/ BeginShutdown \/ EndShutdown

Next ==
    \/ \E w \in Workers : WorkerStep(w) \/ TaskStep(w)
    \/ \E w, v \in Workers : Steal(w, v)
    \/ MainStep

\* The kernel runs every worker thread; the function of a running task makes
\* its next runtime call or returns after finitely many steps; rand() draws
\* every victim again and again; the main thread gets through a Task_Wait or
\* a shutdown that can end.  No call is ever obliged to be made.
Fairness ==
    /\ \A w \in Workers : WF_vars(WorkerStep(w))
    /\ \A w \in Workers : WF_vars(TaskStep(w))
    /\ \A w, v \in Workers : SF_vars(Steal(w, v))
    /\ WF_vars(EndWaitInMain) /\ WF_vars(EndShutdown)

SafeSpec == Init /\ [][Next]_vars

Spec == SafeSpec /\ Fairness

------------------------------------------------------------------------------
TypeOK ==
    /\ queue \in [Workers -> Seq(Tasks)]
    /\ found \in [Workers -> Tasks \cup {None}]
    /\ current \in [Workers -> Tasks \cup {None}]
    /\ wpc \in [Workers -> {"loop", "pop", "steal", "switch", "run", "leave", "back", "exit"}]
    /\ state \in [Tasks -> {"none", "READY", "RUNNING", "FINISHED"}]
    /\ live \in [Tasks -> BOOLEAN]
    /\ waiting \in [Tasks -> Tasks \cup {None}]
    /\ yields \in [Tasks -> 0..MaxYields]
    /\ handles \in SUBSET Tasks
    /\ spawned \in 0..MaxSpawns
    /\ mpc \in {"run", "stopping", "down"}
    /\ mwaiting \in Tasks \cup {None}
    /\ shutdown \in BOOLEAN

Queued(t) == \E w \in Workers : \E i \in 1..Len(queue[w]) : queue[w][i] = t

\* No two queue positions, on one queue or on two, hold the same task.
QueuesDisjoint ==
    \A v, w \in Workers : \A i \in 1..Len(queue[v]), j \in 1..Len(queue[w]) :
        queue[v][i] = queue[w][j] => v = w /\ i = j

\* What a worker holds is in no queue and in no other worker's hands.
HandsDisjoint ==
    /\ \A w \in Workers : ~Queued(found[w]) /\ ~Queued(current[w])
    /\ \A v, w \in Workers : v # w => /\ found[v] # None => found[v] # found[w]
                                      /\ current[v] # None => current[v] # current[w]
    /\ \A v, w \in Workers : found[v] # None => found[v] # current[w]

\* Spawning, yielding, popping and stealing race on the queues of all workers,
\* and still a task is in one place at most: one position of one run queue, or
\* in the hands of one worker.  Two workers never run one stack.
OnePlace == QueuesDisjoint /\ HandsDisjoint

\* The place of a task agrees with its state word, which the worker that comes
\* back from it and the threads that wait for it read without any lock; and no
\* worker holds or finds a block that Task_Wait has freed, except one that is
\* leaving it (StackLeftBeforeFree).
PlaceMatchesState ==
    /\ \A t \in Tasks : Queued(t) => live[t] /\ state[t] = "READY"
    /\ \A w \in Workers :
          /\ wpc[w] = "switch" <=> found[w] # None
          /\ found[w] # None => live[found[w]] /\ state[found[w]] = "READY"
          /\ wpc[w] \in {"run", "leave", "back"} <=> current[w] # None
          /\ wpc[w] = "run" => live[current[w]] /\ state[current[w]] = "RUNNING"
          /\ wpc[w] = "leave" => state[current[w]] = "FINISHED"
          /\ wpc[w] = "back" => \/ state[current[w]] = "FINISHED"
                                \/ live[current[w]] /\ state[current[w]] = "READY"

\* No task is dropped between a queue, a thief and a worker: whoever is spawned
\* and not finished can still be found somewhere.
NoTaskLost ==
    \A t \in Tasks : state[t] \in {"READY", "RUNNING"} =>
        \/ Queued(t)
        \/ \E w \in Workers : found[w] = t \/ current[w] = t

\* Task_Wait polls a block that is still allocated: only the one waiter frees
\* it, and it frees it last.
WaitsOnLiveTask ==
    /\ \A t \in Tasks : live[t] /\ waiting[t] # None => live[waiting[t]]
    /\ mwaiting # None => live[mwaiting]
    /\ \A t \in handles : live[t]

\* A task that waits its turn gets it, and ends, unless the pool is shut down:
\* there are fewer waiting tasks than workers, so some worker is left to steal.
TasksFinish ==
    \A t \in Tasks : (state[t] = "READY") ~> (state[t] = "FINISHED" \/ shutdown)

\* The main thread's Task_Wait returns.
MainWaitReturns == (mwaiting # None) ~> (mwaiting = None \/ shutdown)

\* A shutdown that starts comes to an end: every worker leaves its loop.
ShutdownEnds == (mpc = "stopping") ~> (mpc = "down")

------------------------------------------------------------------------------
(* What the documents say of the scheduler and the code does not do.         *)

\* "Task_Wait() frees the stack and Task struct when the task completes": no
\* worker is still on the stack, or about to read the block, when it is freed.
StackLeftBeforeFree ==
    \A w \in Workers : wpc[w] \in {"leave", "back"} => live[current[w]]

\* "yield lets other tasks run": a task that is ready runs sooner or later.
YieldLetsOthersRun ==
    \A t \in Tasks : (state[t] = "READY") ~> (state[t] # "READY")

\* "Wait for all tasks to finish, then join workers".
ShutdownWaitsForTasks ==
    [][mpc = "stopping" /\ mpc' = "down" =>
          \A t \in Tasks : state[t] \notin {"READY", "RUNNING"}]_vars
==============================================================================
