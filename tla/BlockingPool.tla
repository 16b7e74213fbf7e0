------------------------------ MODULE BlockingPool ------------------------------
(***************************************************************************)
(* What happens to the worker pool when tasks call something that blocks an *)
(* operating-system thread: bux_mutex_lock, bux_rwlock_rdlock and wrlock    *)
(* (rt/runtime.c 1207-1271) and bux_channel_recv on an empty channel (1167).*)
(* The worker waits with its task.  The tasks go through the linked run     *)
(* queues of RunQueue: spawn pushes to any worker, an idle worker pops its  *)
(* own queue or steals from another, a yield pushes back.                   *)
(*                                                                         *)
(* The code keeps no record of who has a lock, and hinders nobody who has   *)
(* one from yielding, receiving or returning.  Neither does this module;    *)
(* the properties say which of them rest on callers that do not (Orderly).  *)
(*                                                                         *)
(* An operator marked (slip) is a definition with a plausible programming   *)
(* mistake in it, used by nothing here.                                    *)
(***************************************************************************)
EXTENDS RunQueue

CONSTANTS
    Mutexes, Rwlocks,   \* the locks, numbers
    Receivers,          \* the tasks that receive from the channel
    MaxOps              \* bound: locks, receives, sends and yields of each task

ASSUME PoolAssumption ==
    /\ Mutexes \subseteq Nat /\ Rwlocks \subseteq Nat /\ Mutexes \cap Rwlocks = {}
    /\ Receivers \subseteq Tasks
    /\ MaxOps \in [Tasks -> Nat]

VARIABLES
    running,   \* the task a worker is in
    thieves,   \* the workers whose own queue was empty: about to steal
    doing,     \* "new", "queued", "run", "lock", "recv", "done"
    want,      \* the lock and the mode a task in "lock" waits for
    locks,     \* who has what: [lock, mode, task, thread, nth]
    ops,       \* blocking calls and yields a task has made
    inbox      \* values in the channel

pool_vars == <<running, thieves, doing, want, locks, ops, inbox>>

Modes(l) == IF l \in Mutexes THEN {"write"} ELSE {"read", "write"}
NoLock == [lock |-> 0, mode |-> "none"]

PoolInit ==
    /\ Init
    /\ running = [w \in Workers |-> None]
    /\ thieves = {}
    /\ doing = [t \in Tasks |-> "new"]
    /\ want = [t \in Tasks |-> NoLock]
    /\ locks = {}
    /\ ops = [t \in Tasks |-> 0]
    /\ inbox = 0

\* What a task has to unlock: the locks it got, and in mode "none" those whose lock
\* call failed, which the task is not told.
Has(t) == {h \in locks : h.task = t}

------------------------------------------------------------------------------
\* bux_task_spawn
SpawnTask(w, t) ==
    /\ doing[t] = "new"
    /\ Push(w, t)
    /\ doing' = [doing EXCEPT ![t] = "queued"]
    /\ UNCHANGED <<running, thieves, want, locks, ops, inbox>>

\* The task that the queue operation of this step returned starts to run.
Start(w) ==
    /\ running[w] = None
    /\ running' = [running EXCEPT ![w] = took']
    /\ doing' = [doing EXCEPT ![took'] = "run"]
    /\ UNCHANGED <<want, locks, ops, inbox>>

\* bux_find_task, in two critical sections: the worker's own queue first.
TakeOwn(w) ==
    /\ w \notin thieves
    /\ Pop(w)
    /\ Start(w)
    /\ UNCHANGED thieves

OwnEmpty(w) ==
    /\ w \notin thieves /\ running[w] = None
    /\ queue_head[w] = None
    /\ FindNothing(w)
    /\ thieves' = thieves \cup {w}
    /\ UNCHANGED <<running, doing, want, locks, ops, inbox>>

\* bux_pick_victim: with one worker there is none.
Victims(w) == IF Workers = {w} THEN {w} ELSE Workers \ {w}

\* (slip) The thief leaves the last task of a queue to its owner.
TakeNotTheLast(w, v) ==
    /\ w \in thieves /\ w # v
    /\ StealTail(v)
    /\ Start(w)
    /\ thieves' = thieves \ {w}

\* Another worker's queue then, whatever its own queue has got meanwhile.
TakeOther(w, v) ==
    /\ w \in thieves /\ w # v
    /\ StealTail(v) \/ StealOnly(v)
    /\ Start(w)
    /\ thieves' = thieves \ {w}

StealNothing(w) ==
    /\ w \in thieves
    /\ \E v \in Victims(w) :
          /\ v # w => queue_tail[v] = None
          /\ took' = IF v = w THEN took ELSE None
    /\ UNCHANGED <<queue_head, queue_tail, queue_count, next>>
    /\ thieves' = thieves \ {w}
    /\ UNCHANGED <<running, doing, want, locks, ops, inbox>>

------------------------------------------------------------------------------
\* What the task of worker w does next.
InTask(w, what) == running[w] # None /\ doing[running[w]] = what

OneOp(t) == ops[t] < MaxOps[t] /\ ops' = [ops EXCEPT ![t] = @ + 1]

WantLock(w, l, m) ==
    LET t == running[w]
    IN  /\ InTask(w, "run")
        /\ OneOp(t)
        /\ doing' = [doing EXCEPT ![t] = "lock"]
        /\ want' = [want EXCEPT ![t] = [lock |-> l, mode |-> m]]
        /\ UNCHANGED <<running, thieves, locks, inbox>>
        /\ UNCHANGED vars

\* (slip) One pthread object for all locks.
AvailableAmongAll(l, m) ==
    \A h \in locks : h.mode # "none" => m = "read" /\ h.mode = "read"

\* A writer is alone; readers share.
Available(l, m) ==
    \A h \in locks : h.lock = l /\ h.mode # "none" => m = "read" /\ h.mode = "read"

\* The lock call that the task of w is in, remembered with what became of it.
Hold(w, mode) ==
    LET t == running[w]
    IN  [lock |-> want[t].lock, mode |-> mode, task |-> t, thread |-> w, nth |-> ops[t]]

LockReturns(w, mode) ==
    /\ locks' = locks \cup {Hold(w, mode)}
    /\ doing' = [doing EXCEPT ![running[w]] = "run"]
    /\ want' = [want EXCEPT ![running[w]] = NoLock]
    /\ UNCHANGED <<running, thieves, ops, inbox>>
    /\ UNCHANGED vars

\* pthread_mutex_lock, pthread_rwlock_rdlock and _wrlock return.
GetLock(w) ==
    /\ InTask(w, "lock")
    /\ Available(want[running[w]].lock, want[running[w]].mode)
    /\ LockReturns(w, want[running[w]].mode)

\* The rwlock calls give EDEADLK to the thread that has written the lock; nobody
\* looks at what they return.
RelockFails(w) ==
    /\ InTask(w, "lock")
    /\ want[running[w]].lock \in Rwlocks
    /\ \E h \in locks :
          h.lock = want[running[w]].lock /\ h.mode = "write" /\ h.thread = w
    /\ LockReturns(w, "none")

\* The pthread call lets g go, though some task may go on believing that it has it.
LetGo(g) ==
    (locks \ {g}) \cup IF g.task = None THEN {} ELSE {[g EXCEPT !.mode = "none"]}

\* bux_mutex_unlock and bux_rwlock_unlock do what the thread may ask for: a mutex is
\* unlocked for anybody, a reader less is counted, a writer unlocks on its thread.
UnlockOwn(w, h) ==
    /\ h.mode # "none"
    /\ h.mode = "write" /\ h.lock \in Rwlocks => h.thread = w
    /\ locks' = locks \ {h}

\* Undefined in POSIX: a writer's unlock on another thread, which may leave the lock
\* for ever, and the unlock of a lock the task never got, which may take another's.
UnlockAlien(w, h) ==
    \/ /\ h.mode = "write" /\ h.lock \in Rwlocks /\ h.thread # w
       /\ locks' \in {locks \ {h}, (locks \ {h}) \cup {[h EXCEPT !.task = None]}}
    \/ /\ h.mode = "none"
       /\ \/ locks' = locks \ {h}
          \/ \E g \in locks : /\ g.lock = h.lock /\ g.mode # "none"
                              /\ locks' = LetGo(g) \ {h}

Unlock(w) ==
    /\ InTask(w, "run")
    /\ \E h \in Has(running[w]) : UnlockOwn(w, h) \/ UnlockAlien(w, h)
    /\ UNCHANGED <<running, thieves, doing, want, ops, inbox>>
    /\ UNCHANGED vars

\* bux_channel_send: there is room (a full channel blocks a sender like an empty one
\* a receiver).
SendOne(w) ==
    /\ InTask(w, "run")
    /\ OneOp(running[w])
    /\ inbox' = inbox + 1
    /\ UNCHANGED <<running, thieves, doing, want, locks>>
    /\ UNCHANGED vars

\* bux_channel_recv
Receive(w) ==
    LET t == running[w]
    IN  /\ InTask(w, "run")
        /\ t \in Receivers
        /\ OneOp(t)
        /\ doing' = [doing EXCEPT ![t] = "recv"]
        /\ UNCHANGED <<running, thieves, want, locks, inbox>>
        /\ UNCHANGED vars

Received(w) ==
    /\ InTask(w, "recv")
    /\ inbox > 0
    /\ inbox' = inbox - 1
    /\ doing' = [doing EXCEPT ![running[w]] = "run"]
    /\ UNCHANGED <<running, thieves, want, locks, ops>>
    /\ UNCHANGED vars

\* bux_task_yield, and the push of bux_scheduler_run.
YieldTask(w) ==
    LET t == running[w]
    IN  /\ InTask(w, "run")
        /\ OneOp(t)
        /\ doing' = [doing EXCEPT ![t] = "queued"]
        /\ running' = [running EXCEPT ![w] = None]
        /\ Push(w, t)
        /\ UNCHANGED <<thieves, want, locks, inbox>>

\* A task's function returns, with what it has locked.
FinishTask(w) ==
    /\ InTask(w, "run")
    /\ doing' = [doing EXCEPT ![running[w]] = "done"]
    /\ running' = [running EXCEPT ![w] = None]
    /\ UNCHANGED <<thieves, want, locks, ops, inbox>>
    /\ UNCHANGED vars

TaskCall(w) ==
    \/ \E l \in Mutexes \cup Rwlocks : \E m \in Modes(l) : WantLock(w, l, m)
    \/ GetLock(w) \/ RelockFails(w) \/ Unlock(w)
    \/ SendOne(w) \/ Receive(w) \/ Received(w)
    \/ YieldTask(w) \/ FinishTask(w)

\* One round of bux_scheduler_run finds a task or none.
FindTask(w) == TakeOwn(w) \/ OwnEmpty(w) \/ (\E v \in Workers : TakeOther(w, v)) \/ StealNothing(w)

PoolNext ==
    \E w \in Workers : (\E t \in Tasks : SpawnTask(w, t)) \/ FindTask(w) \/ TaskCall(w)

all_vars == <<vars, pool_vars>>

PoolSafeSpec == PoolInit /\ [][PoolNext]_all_vars

\* A worker thread runs, in its loop or in its task, which reaches its next call or its
\* end; a lock that is free, a receive that finds a value are calls that return.
\* The victim is drawn anew in every round, so a thief does not always miss.
PoolFairness ==
    \A w \in Workers :
        /\ WF_all_vars(FindTask(w) \/ TaskCall(w))
        /\ SF_all_vars(\E v \in Workers : TakeOther(w, v))

PoolSpec == PoolSafeSpec /\ PoolFairness

------------------------------------------------------------------------------
\* What the callers of locks owe: who has one is in its critical section on the thread
\* that took it (it did not yield, return, or go to receive), and takes another only
\* of a greater number.
Orderly ==
    \A h \in locks :
        /\ h.task \in Tasks /\ running[h.thread] = h.task
        /\ doing[h.task] \in {"run", "lock"}
        /\ doing[h.task] = "lock" => h.lock < want[h.task].lock

\* The worker's task runs, or the lock it waits for is to be had.
GoesOn(w) ==
    \/ InTask(w, "run")
    \/ InTask(w, "lock") /\ Available(want[running[w]].lock, want[running[w]].mode)

\* While a task waits for a lock, some task that has a lock or gets one goes on: the
\* waits never close to a circle.
NoCircularWait == (\E t \in Tasks : doing[t] = "lock") => \E w \in Workers : GoesOn(w)

\* With more workers than receivers some worker is free for the tasks in the queues,
\* or its task goes on.
PoolMoves ==
    Cardinality(Receivers) < Cardinality(Workers)
       => \E w \in Workers : running[w] = None \/ GoesOn(w)

\* Whatever callers have done before, and whatever the queues, the thieves and the
\* receivers do: whenever the locks held are held in order, the pool does not stand.
OrderlyPoolMoves == Orderly => NoCircularWait /\ PoolMoves

\* While there are fewer receiving tasks than workers, a task that does not receive
\* gets its turn and ends, however many workers stand in a receive that nobody
\* answers or wait for a lock: thieves reach every queue.  (Or some lock is held out
\* of order at some time from then on; so below.)
OthersFinish ==
    \A t \in Tasks \ Receivers : (doing[t] = "queued") ~> (doing[t] = "done" \/ ~Orderly)

\* Every lock that is waited for is given in the end.
LocksAreGiven ==
    \A t \in Tasks : (doing[t] = "lock") ~> (doing[t] = "run" \/ ~Orderly)
==============================================================================
