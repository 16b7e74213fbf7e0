# TLA+ specifications of the Bux runtime and of what runs on it

Bux is a systems language: a self-hosting compiler that emits C (`src/src/*.bux`,
bootstrapped from `src/bootstrap/*.nim`), a C runtime (`src/rt/runtime.c`), a standard
library (`src/lib/*.bux`) and applications (`src/apps/`). The concurrency of a Bux program
is all in the C runtime: green threads, channels, coroutines and locks. That is where tests say
least, and where these specifications begin. The second half is the sequential runtime: what
programs call for arithmetic, text, memory, files, processes and crypto, in the full runtime and
in its three small relatives (`runtime_minimal.c`, `runtime_win.c`, `runtime_freestanding.c`).

## 1. The system

| Part | State it keeps | Operations | Interacts with | What is hard | What makes it correct |
|---|---|---|---|---|---|
| Channel, `rt/runtime.c` 862-1201, `lib/Channel.bux` | ring buffer, `head`, `tail`, `count`, `closed`, a mutex, two condition variables | new, send, recv, close, free | any thread; tasks block the OS thread they run on | lost wakeups, close against sleepers, spurious wakeups, ring wrap | bounded FIFO; no wakeup lost; close frees everybody and is final |
| Green threads, 842-1115, `lib/Task.bux` | per worker a run queue and `current`; per task a state word, stack, block; the shutdown flag | spawn, join, yield, sleep, shutdown, the worker loop with stealing | malloc (blocks are reused), the main thread | unlocked state word, join frees a stack, LIFO order, shutdown | one task in one place, none lost, nobody reads a freed block, waits end |
| Run queue, 904-947 | linked list with head, tail, count | push, pop, steal | the green threads | one or two elements: both ends meet | it is a sequence |
| Coroutines, 1277-1467 | FIFO ready queue, the current coroutine, per coroutine state, deadline, result | spawn, yield, sleep, return, await, run | main code enters the loop from await | polling awaits, sleeping tasks, uninitialised result, freeing | every coroutine gets its turn, await returns and delivers |
| Nexus server, `apps/nexus/src/Server.bux` | listening socket, channel of connections, workers, stop flag, pills | listen, accept, handshake, queue, serve, stop | channel, green threads, signal handler | signal at any moment, more workers than threads, stop order | one owner per connection; pills last and enough; stop ends |
| Nexus requests, `apps/nexus/src/{Parser,Http,Router,Handlers}.bux` | one request | parse, dispatch, format | sockets | partial reads, keep-alive | framing |
| Mutex, rwlock, 1203-1271, `lib/Sync.bux` | a pthread object | new, lock, read lock, write lock, unlock, free | pthread, the worker pool | the waiting task keeps its worker; a lock held across a yield, a receive or the end of a task | while locks are held in order: every lock is given, the pool does not stand |
| Hash containers, `lib/Map.bux`, `lib/Set.bux` | open-addressed table | new, set, get, has, remove, clear, free | - | full table, removal, growth | a finite function |
| Arithmetic, 130-250 | - | add, subtract, multiply, negate, divide, remainder with a panic | the compiler's builtins where it has them | the portable tests at the ends of the range | panic exactly when the result does not fit |
| Text and paths, 287-735; `lib/String.bux`, `lib/Path.bux` | - | slice, trim, split, join, format, escape, number conversion, path functions | - | two scans that must agree, empty delimiters, unsigned sums | inverses, windows, sizes |
| Builder, 380-445 | buffer, length, capacity | new, append, append a char, build, free | its caller, who keeps the built text | growth by one doubling, the terminator, who frees | nothing is written behind the buffer |
| Files, processes, directories, 569-802 | descriptors and buffers | read, write, exists, output of a process, list a tree | the file system, other processes | a step that fails half way; a tree that changes | everything acquired is given back or away |
| Sockets, TLS, crypto, 1607-2224 | descriptors, contexts, keys, buffers | create, accept, send, receive, close; digest, encrypt, sign, base64, hexadecimal | OpenSSL | as above; sizes of buffers | as above; decoding inverts encoding |
| Small runtimes | the bump heap of the freestanding one | the same calls, some as stubs | - | the same program on another runtime | they answer as the full one |
| JSON, Fmt, time, environment | - | conversions | C library | - | - |
| Lexer, parser, macros | position, tokens, tree | lex, parse, recover, expand | each other | recovery makes progress, nesting | - |
| Semantic analysis, `src/sema.bux`, `src/scope.bux` | scopes, moved variables (at most 8), checked flag | check | parser, lowering | capacities, order of use and re-initialisation | a use after a move is an error |
| Lowering and C back end | drop and defer tables (at most 8) | lower, emit | sema | every exit drops what is live, once | no leak, no double drop |
| CLI, manifest, registry | files in the cache | build, install, publish | curl, git, the C compiler | partial downloads, stale cache | the cache belongs to its URL |
| SimpleDB | a text buffer and a file | get, set, delete, save | file system | prefixes, crash in save | a finite function |
| Boko, jwt-pitbul, language server, playground, editor extension, bootstrap compiler | - | - | - | - | - |

`PROJECT.json` lists the same parts with their files and, under `hazards`, the places where
each can go wrong, with the properties that watch them.

## 2. The modules

| Module | Models | Uses |
|---|---|---|
| `ChannelSpec` | what a channel promises: a bounded FIFO with calls that are in progress | - |
| `BuxChannel` | `bux_channel_*`: ring buffer, mutex, condition variables | refines `ChannelSpec` |
| `BuxChannelProofs` | theorems about `BuxChannel` | |
| `GreenScheduler` | `bux_task_*` and the worker loop | queues are sequences |
| `GreenSchedulerProofs` | theorems about `GreenScheduler`: places, state words, what `Task_Wait` polls and frees | |
| `RunQueueSpec`, `RunQueue` | the queue as a sequence; the linked list in `BuxScheduler` and `BuxTask.next` | `RunQueue` refines `RunQueueSpec` |
| `BlockingPool` | workers, mutexes, rwlocks and receives that block a worker's thread | extends `RunQueue`: its actions move the same queues |
| `BlockingPoolProofs` | the refinement of the run queue; where each task is; who can go on | `DataLemmas` |
| `AsyncCoroutines` | `bux_async_*` | |
| `AsyncCoroutinesProofs` | theorems about the ready queue, what await delivers, and the blocks it frees | `DataLemmas` |
| `NexusServer` | `RunServer`, `Acceptor`, `Worker`, the stop handler | instantiates `ChannelSpec` |
| `NexusServerProofs` | theorems about owners, order and pills; the use of the channel; the stop | `DataLemmas` |
| `DataLemmas` | lemmas: induction, functions defined by recursion, how often a value is in a sequence, sequences cut, joined and flattened | |
| `CheckedMath` | the checked arithmetic of all four runtimes, integers of any width | |
| `Text` | slices, trimming, splitting, joining, formats, escapes, numbers and paths of the full runtime | |
| `ThinText` | the same functions in the three small runtimes | `Text`, `CheckedMath` |
| `Codecs` | base64, base64url, hexadecimal; sizes of AES buffers and places of terminators | |
| `TextBuilder` | `bux_sb_*` in three runtimes | |
| `BumpHeap` | allocation in `runtime_freestanding.c` | |
| `RuntimeCalls` | what every call of files, processes, sockets, TLS, crypto and locks acquires and releases | |
| `DirListing` | `bux_list_dir` on a tree that other processes change | |
| `MapSpec`, `HashMap` | a finite function; the table of `lib/Map.bux` | `HashMap` refines `MapSpec` |
| `RuntimeLibrary` | the sequential runtime: the modules from `CheckedMath` to `HashMap` put together, and the reference definitions they are compared with | extends them |
| `LibraryProofs` | theorems about `CheckedMath`, `TextBuilder`, `BumpHeap`, `Codecs`, `DirListing`, `RuntimeCalls` and `RuntimeLibrary`; the refinement of `MapSpec` by `HashMap` | `DataLemmas` |
| `TextProofs` | theorems about `Text` and `ThinText`: their references, and that the runtimes agree | `DataLemmas` |
| `MC...` | instances for TLC | |

In most modules some operators are marked **(slip)**: an action of the same module with one
plausible programming mistake (a missing signal, a missing unlink, an off-by-one). No
specification uses them. Each is there to be put in the place of the action, and the
property it is paired with under `mutants` in `PROJECT.json` must then fail: that a property
can fail is part of what it says.

### 2.1 BuxChannel

A critical section runs under `ch->mutex` from lock to unlock, or to the
`pthread_cond_wait` that gives the mutex up, so it is one action. `bux_channel_send` is
`BeginSend`, then one of `SendBlock` (falls asleep), `SendClosed` (returns without sending),
`SendPut`; `bux_channel_recv` likewise. `pc[t]` says whether a thread is outside
(`idle`), about to take the mutex and evaluate the loop condition (`send`, `recv`: on entry and
after a wakeup the code does the same), or asleep (`sendWait`, `recvWait`).
`pthread_cond_signal` wakes any one sleeper, `pthread_cond_broadcast` all of them, and a
sleeper may wake with no reason. A value is an element of `Elem`; `out` is what the last
receive stored; `BeginRecv` resets it to `NoElem`, which stands for "not stored by this call" (the code
leaves the caller's memory alone), and a receive that finds the channel closed and empty leaves it so.
`Capacity` is what `bux_channel_new` makes of the request. Left out: NULL handles and
out-of-memory aborts.

### 2.2 GreenScheduler

A task is the address of its `BuxTask`. `queue`, `found`, `current` and `wpc` are the
worker's queue, the local variable `task` of `bux_scheduler_run`, `sched->current` and the
place in the loop: `loop` (test of the flag), `pop`, `steal`, `switch`, `run` (in the task's function),
`leave` (FINISHED is stored, the stack is still in use), `back` (about to read the state word),
`exit`. `state` is the state word **as the bytes of the block read**, so it survives `free`; `live` says
whether block and stack are allocated. With `Reuse` malloc may hand out a freed block
again, which overwrites the word. What a task's function does between runtime calls is left
open: it may spawn, wait (tasks in `Waiters`), yield or sleep (inside a task `Task_Sleep` is a
yield), or return. `PollInTask` is one round of the loop in `bux_task_join`. The main thread spawns,
waits and shuts down. Left out: task ids, the idle worker's nanosleep, the start of the pool, and `Task_Shutdown`
called twice or from a task (both would join a thread in a way POSIX does not define).

Not every step of the queue code is separate: push, pop and steal run under the queue's lock. The
push of `Back` and the clearing of `sched->current` after it are one step, because no other
thread reads that variable.

### 2.3 RunQueue

Head, tail, count and next as the C code assigns them; `ListOf` follows `next` from the
head. `ImplementsRunQueue` says that push and pop work at the head, steal at the tail, and that
the list is what `GreenScheduler` takes it for. The guard of `Push` (the task is on no list) is
`GreenScheduler!OnePlace`. Its `Next` allows its operations in any order; the run and the theorems look at the lists
under `BlockingPool`, that is under the pool's real order of pushes, pops and steals.

### 2.4 BlockingPool

`bux_mutex_lock`, `bux_rwlock_rdlock`, `bux_rwlock_wrlock` and `bux_channel_recv` know nothing of
green threads: the OS thread waits, and with it the worker. A task in `lock` or `recv` keeps
`running[w]`, and only the return of the call lets worker `w` go on. The queue operations are `RunQueue`'s:
`SpawnTask` and `YieldTask` push, `TakeOwn` pops, `TakeOther` steals. `bux_find_task` is two critical sections:
a worker whose own queue is empty (`OwnEmpty`) is among the `thieves` until it has taken a task from one
victim or found its queue empty (`StealNothing`), whatever its own queue gets meanwhile.

`locks` records for each lock that was taken the mode, the task *and the thread*, since POSIX ties a lock to
the thread. The code has no such record and hinders nobody, so neither does the model: a task may yield, receive
or return with a lock held, nest locks in any order, and lock one twice. `RelockFails` is the second lock of a rwlock by
the thread that has written it: pthread returns EDEADLK, `bux_rwlock_wrlock` drops it, and the task goes on to unlock
what it never got (mode `none`). `UnlockOwn` is an unlock that lets its own lock go: a reader's, a
writer's on its thread, and a mutex's on any thread, since glibc's default mutex does not look at its owner. `UnlockAlien` has the outcomes of
those that POSIX leaves undefined and glibc does not catch: a writer's unlock on another thread, and the unlock of a lock that was never got. A task unlocks only
what it has asked for. `Orderly` says what callers owe: who has a lock is in its critical section, on the
thread that took it (it has not yielded or returned and is not in a receive), and waits only for locks of a greater number. It is part of the properties
of the locks, not of the actions.

`Receivers` are the tasks that may receive, `MaxOps` bounds the calls of each task. Blocking in a full channel is
symmetrical to blocking in an empty one and is left out, as is shutdown, which `GreenScheduler` has.

### 2.5 AsyncCoroutines

One OS thread: only the main code, the loop of `bux_async_run` or one coroutine runs at a
time. `mpc` is `code`, `await` (in the loop of `bux_async_await`) or `run`. `Requeue` and `Resume` are
the branches of one round of the loop; the clock moves with `Tick`, and when the thread sleeps
for the only task in the queue it moves to that task's deadline. `result` starts as
`Junk`: the field is not initialised by `bux_async_spawn`. `CallsReturn` says whether bodies call
`bux_async_return`; the code the compiler emits for `return` does not. `Awaits` says which
body may await which.

### 2.6 NexusServer

The main thread is `RunServer` from the installation of the stop handlers to the end of the
process. It uses the channel through the actions of `ChannelSpec`, which `BuxChannel`
implements. `Signal` runs on the main thread, which is where Linux delivers a process signal
as long as that thread does not block it; it interrupts an `accept` that waits (no `SA_RESTART`),
and it closes the registered socket so that an `accept` about to start fails. A worker task in
`Channel_Recv` keeps its pool thread, so at most `PoolSize` tasks have started and not returned.
`DropQueue` is the drop the compiler emits for the local `taskQueue`. A worker that would use
the freed channel has no defined behaviour: it takes no step until the process ends. One whole
`HandleConnection` is the step `Served`.

### 2.7 The sequential runtime

`RuntimeLibrary` chooses at the start which part moves (`part`). The parts share no variable in the
C code either, so nothing is lost by moving one at a time. For functions without a state, `CallFunction`
puts any combination of arguments into `args`, and the invariants compare what the translated function
returns for them with a definition that does not look at how it computes it.

- *CheckedMath*: `AddChecked` and its sisters are the `#else` branches of the `__builtin_*_overflow`
  tests, over `MinInt..MaxInt`. A result is `<<n>>`, a panic `<<>>`. `MinimalArithmetic`, `WinArithmetic` and
  `FsArithmetic` wrap instead, as those runtimes do.
- *Text*, *ThinText*: a text is a sequence of characters from the alphabets of the instance, a C string
  `NULL` is the value `Null`. Each function keeps the scans and early returns of its source; buffers, copying and
  terminators are left out except where a property speaks of sizes (`FormatSize`, the length of an escape).
  Unsigned sums wrap at `UIntMod`. `Overrun` is what a slice of a small runtime reads behind the text when its sum has wrapped.
- *Codecs*: a byte is its value, a letter of base64 its index, with values of their own for the padding and for an invalid letter. Every
  coder returns the text, its length and the capacity it had allocated for it. Of AES there are the sizes; a
  plain text of AES-GCM ends where its terminator is written, at its end or, when the tag is wrong, at its start.
- *TextBuilder*: a text is its length; `sb_end` is the highest byte written. `sb_rt` is the runtime the program is
  linked with. The library builds and then frees; `sb_result` says what became of the text.
- *BumpHeap*: the array, the offset, and for every block that callers hold where it is and what they wrote there.
- *RuntimeCalls*: a call is the sequence of what it acquires (`Get`, `Try`), releases (`Put`), hands to
  the caller (`Give`), uses or takes back (`Use`, `Take`), and tests (`Test`). With each step that can fail stands what the
  code releases on that way out. `Begin` lets callers make the calls in every order for which they have the
  handles, one handle of each kind.
- *DirListing*: two walks, one entry a step; `FileCreated` and `FileRemoved` are other processes. `CountMisses` and
  `CollectMisses` are the ways a walk leaves something out: no memory for a path, an `lstat` that fails (one entry), an
  `opendir` that fails (one of `Subtrees`). `CountEnd` may find no memory for the array. `fresh` has the matching files that the first walk could not
  count: created since the call began, or missed.
- *HashMap*: one hash function for a whole behaviour, any of `Hashes`; `Map_Set` grows first and inserts then,
  `Map_Remove` rebuilds the table. `StringMap` and `Set` are the same code with another comparison.

## 3. The runs

| Run | Question | Bounds |
|---|---|---|
| `channel` | Does the ring buffer implement a bounded queue, and does every call that can return do so? | 3 threads, 2 values, 2 slots |
| `sched_safe` | Is a task in one place, never lost, never waited on after its end? | 2 workers, 3 tasks, one may wait, one yield each, 3 spawns, shutdown |
| `sched_live` | Do tasks, waits and shutdowns end? | 2 workers, 2 tasks |
| `pool` | Is the linked list a sequence? When tasks block their workers, do those that wait for a lock and the others go on? | 2 workers, 3 tasks, one mutex, one rwlock, one receiver, at most 1, 2 and 0 calls each |
| `nexus` | Who owns a connection; do the pills fit; does a stop end the process? | 3 workers on 2 threads, 3 connections, 2 slots, TLS on |
| `async` | Does each coroutine get its turn, and does await return and deliver? | 3 coroutines awaiting in a chain, one yield or sleep each, clock to 3 |
| `library` | Does the sequential runtime compute what it promises, inside its buffers, on every runtime, and does it give back what it takes? | integers -8..7 (all pairs); texts up to 4 characters over 2 to 5 letters, patterns up to 6; bytes 0, 1, 62, 191, 255, up to 4; builders up to 70 characters in 3 runtimes; 32 bytes of heap; 3 files with the extension and one without; 4 keys, 2 values, hashes 0, 7 and 15 |

*Why the bounds are enough.* Channel: two sleepers on one condition variable and a third
thread that overtakes the woken one are the smallest situation in which one signal per value
could be too few; two slots let the ring wrap while not empty. Scheduler: a thief needs a victim
with two tasks (one stays, one goes) while a third runs and waits, hence two workers
and three tasks; each task may yield once, so it passes through every place twice. Pool: every
branch of the queue code looks at zero, one, two or more elements, and one worker can come to hold all
three tasks; one task can take both locks, one inside the other, or yield with one and come back on the other
worker, or lock one twice, while another waits for one of them or receives, and the third waits for its turn; one receiver on two workers is the most that leaves a worker. (With two receivers
`OthersFinish` fails, rightly: both workers wait for a value that nobody is left to send.) Nexus: one worker more than threads, one connection more than slots,
so that the acceptor blocks on a full channel, and pills outnumber the free threads.
Coroutines: a chain of three gives an awaiting coroutine that is itself awaited; the clock
admits two sleepers with different deadlines. Library: -8..7 is two's complement with all its
edges (`MinInt / -1`, products in four quadrants), and `ArithmeticIsExact` is proved for every width;
delimiters of up to two letters overlap themselves (`aa` in `aaa`) and the text's end; six
characters hold two adjacent holes or a hole inside braces; four bytes cross one group of base64, and
191 and 255 set the bits that move between letters. A builder to 70 passes the first capacity of each runtime
(64, or 16) by single characters and by texts. Hashes 7 and 15 put three keys on the last
slot of a table of 8, so that a search wraps, and two of them apart again in a table of 16;
four keys make a table of 8 grow. The instance has about 138 000 states.

Deadlock is checked where nothing ends (`channel`). The other systems may stop: a
pool with no tasks left to spawn, a process that has exited, a main program that
calls nothing more, a library call at a bound.

Five further runs look at sentences of the repository's documents that the code does not
keep; each fails as intended and is recorded under `findings`:

| Run | Sentence | What the run shows |
|---|---|---|
| `sched_free` | "`Task_Wait()` frees the stack and Task struct when the task completes" | FINISHED is stored before the worker leaves the stack; the waiter frees it under the worker |
| `sched_yield` | "yield lets other tasks run" | on one worker a yielding task is the next to run, for ever if it polls |
| `sched_stop` | "Wait for all tasks to finish, then join workers" | the shutdown ends with tasks that never ran |
| `nexus_drain` | "workers drained via poison pills" | the queue is dropped and the process ends with connections unserved |
| `async_return` | "Block until coroutine completes, return result" | with a plain `return` the result is uninitialised memory |

## 4. Fairness

- *BuxChannel*: a thread about to take the mutex gets it (weak fairness of its step). Critical
  sections are finite. No fairness for spurious wakeups, for starting calls, or for close.
  `ClosedCallsReturn` is about closed channels: on an open one a call may wait for ever, rightly.
- *GreenScheduler*: every worker thread runs, and a task's function reaches its next runtime call
  or its end (weak fairness). A victim is drawn with `rand()` in every idle round, so each pair of
  workers steals again and again: strong fairness of `Steal`, because the victim's queue is
  not always filled when it is drawn. `TasksFinish` and `MainWaitReturns` hold with fewer waiting tasks than
  workers, which is what `Waiters` of the instance says; with as many waiting tasks as workers
  they fail, as `sched_yield` shows for one. Both excuse a shutdown.
- *BlockingPool*: a worker thread runs, in its loop or in its task, which reaches its next call or its end (weak fairness of
  the disjunction, `FindTask(w) \/ TaskCall(w)`); a lock that is free and a receive that finds a value are calls that return. A
  thief's victim is drawn with `rand()` in every round, so it does not always miss a queue that has a task: strong
  fairness of `\E v : TakeOther(w, v)`. `LocksAreGiven` and `OthersFinish` end in `\/ ~Orderly`: they promise nothing once a lock is held
  out of order. `LocksAreGiven` does not rest on the order in which POSIX serves waiters, because the calls of a task
  are finite (`MaxOps`). `OthersFinish` holds with fewer receivers than workers.
- *RuntimeLibrary* has no liveness property.
- *NexusServer*: the main thread and the pool run; some worker in `Channel_Recv` takes a
  value when there is one (fairness of the disjunction, since the woken receiver is not
  determined). Clients hang up sooner or later: `HandleConnection` has no timeout, so without
  that a silent client keeps its worker. No connection and no signal has to come.
- *AsyncCoroutines*: the thread and the clock go on, a body reaches its next call.

## 5. The proofs

TLAPS checks the following for every value of the constants that satisfies the `ASSUME`s.

**BuxChannelProofs** (any finite set of threads, any requested capacity). The counting in
`NoLostRecvWakeup` and `NoLostSendWakeup` needs that a signal moves exactly one sleeper and that a
close leaves none; the invariants are proved together with `TypeOK` and `ClosedWakesAll`, then with
`RingConsistent` for the refinement. `TypeCorrect`, `RingCorrect`, `CloseCorrect`, `CloseIsFinal`,
`RecvWakeupCorrect`, `SendWakeupCorrect` and `RefinesChannelSafety` (the safety part of
`ImplementsChannel`: every step is a step of `ChannelSpec` under the mapping `QueueOf`, `CallOf`, or a
stutter; putting a value appends it to the mapped sequence, taking one removes its head).

**GreenSchedulerProofs** (any number of workers, tasks, yields, spawns). The inductive
invariant is `InPlace == TypeOK /\ OnePlace /\ PlaceMatchesState`. `OnePlace` alone is not
inductive: that a task pushed by `Back` is in no queue follows only from the state word
(`PlaceMatchesState`), and the state word stays right only while no two workers hold the task. The
invariant is kept by every step under `NoBlockRecycledEarly`: either malloc never hands a
freed block out again, or no stack is freed before its worker has left it. Hence

- `TypeCorrectWithoutReuse`, `OnePlaceWithoutReuse`, `StateWordWithoutReuse`,
  `NoTaskLostWithoutReuse`, under `Reuse = FALSE`, a real restriction: with `Reuse = TRUE` the run
  `sched_free` shows how the premise of the other case fails;
- `JoinRaceIsTheOnlyCause`: with reuse, a behaviour in which `StackLeftBeforeFree` holds
  throughout keeps every task in one place. So the race in `Task_Wait` is the only way for
  a task to be run by two workers, and repairing it (storing FINISHED after the switch away)
  is enough.

`WaitsOnLiveTask` has an inductive invariant of its own, relative to `InPlace`:
`WaiterOwnsHandle`: a task that waits is not finished, and the block it waits for is allocated,
is nobody else's to wait for, and its handle is spent. The step that needs it is the one that frees a
block: the block is finished, so no waiting task is in it, and no one else polls it.
`WaitsOnLiveTaskWithoutReuse` and `WaitsOnLiveTaskUnlessRaced` state the result under the two premises.

**NexusServerProofs** (any finite set of workers, any pool size, connections and backlog). `ServerInv` adds to the
three properties what the places of the threads say: which call of the channel the main thread and
each worker are in, what the main thread holds in its hand, and how many pills it has sent by then
(`MainHolds`, `WorkerHolds`). Without these `OneOwner` is not inductive, since a connection that is about to be
sent could be in a worker's hands too. Counting pills and connections in the channel uses `DataLemmas`:
how often a value is in a sequence after an append, or after its head is taken. Results: `ServerTypeCorrect`,
`ConnectionHasOneOwner`, `ConnectionsComeFirst`, `EveryWorkerGetsAPill`. The only assumptions are those of
the module: distinct names, positive sizes, finitely many workers. The stop signal may come at every step, and
handshakes may fail.

`ServerUsesTheChannel` is a refinement: each step of the server is one step of `ChannelSpec` or leaves it alone. The main thread sends
a connection only while it has one in its hand, which is why it needs `ServerInv`. `TheStopIsHeard`, the part of `StopExits` that needs no
fairness, has a second invariant (`StopInv`: until the stop comes the listening socket is registered; once the accept
loop has begun every worker has been spawned) and the premise that there is a worker: with none, a main thread that
waits on a full channel would wait for ever. Were nobody able to drain a full channel, all workers would have ended, hence taken one pill each,
and `PillPerWorker` leaves no pill to be sent. A pool with fewer threads than workers is covered: a worker that has no thread yet waits only
for workers that can go on.

**AsyncCoroutinesProofs** (any finite set of coroutines, any bounds). `CoInv == TypeOK /\ CurrentRuns /\
QueueHoldsUnfinished`: that the loop re-queues the coroutine it has just left keeps the count at one only because
the current coroutine is in no queue. From it: `QueueIsExact`; the unlinking in `bux_async_await` never finds
anything to unlink (`CollectLeavesQueue`); and an empty queue means that all have finished
(`RunReturnsWhenAllDone`, an action property). `AwaitIsDelivered` adds `Delivered` and has the premise `CallsReturn = TRUE`,
which is what the run `async_return` shows to be needed.

`FreedBlocksAreForgotten` needs that each handle is open or in one await, of a coroutine or of the main code, and its
block is allocated meanwhile (`HandlesInv`); with `CoInv` the block is in no queue when it is freed. That a program awaits a handle once
is assumed by the model (`handles`), not shown. The theorem has no bound on who awaits whom: coroutines that await each other never
end, but none of their blocks is freed.

**Induction.** The provers take no predicate as a parameter, so `DataLemmas` states induction over the natural
numbers with a set in its place (`SetInduction`: a set with 0 and with the successor of each of its elements
has all of `Nat`; a proof that needs `P(n)` takes `{n \in Nat : P(n)}`). It follows from the least element of a set of numbers.
From it `RecursionExists` gives the equation of a function that is defined by recursion, which TLA+ has only if some function satisfies it.
The next three modules rest on these lemmas; `CourseOfValues` does the same where a value comes from any of the ones before it.

**BlockingPoolProofs** (any workers, tasks, locks, bounds). `RunQueuesStayWellFormed`: each run queue of the C code is a list: some
sequence without repetitions begins at the head, is linked by `next`, ends at the tail, and is as long as the count
says; lists of two workers share no task, and a task on no list points nowhere. Pushing prepends to that sequence, popping takes its
head, stealing its last element, for which the predecessor is found by walking the links; the walk is a
recursive function and gives the sequence back by induction (`ListFrom`). `LinkedListsAreQueues` is the refinement: every step
is a step of `RunQueueSpec` or a stutter. `QueueAssumption` (finitely many tasks, and the null pointer is none of them) is what is needed of the constants.

`EachTaskInOnePlace` has no premise. Its invariant speaks of the sequences the links spell (`PlaceInv`): pushing adds a task to the
set of those queued, popping and stealing take one out of it, and the C fields say whether a task is linked only because the lists
are well formed. `SomeWorkerGoesOn` is about every state, whatever callers did before it,
in which the locks are held in order. Of the tasks that wait for a lock take one that waits for the greatest. If it is not to be had, whoever
holds it waits for no lock, which would have to be greater, and is in no receive; so it runs, on the worker that is its thread. Without waiters, fewer
receivers than workers leave a worker that is free or whose task runs. The invariant besides `PlaceInv` is only what waits and holds look like (`WaitInv`).

**LibraryProofs**. `ArithmeticIsExact` states of every width what `ArithmeticSound` states of the instance
(`ArithmeticExact(a, b)` for all operands), `ArithmeticStaysSound` the invariant itself; its parts are `SumTestsExact`,
`ProductTestExact`, `DivisionExact` and `ThinArithmeticAgrees`. The products need facts about truncating division in
four quadrants, which are lemmas there. `BuilderIsSound` shows that one doubling is enough for one character because a
capacity is positive and the text with its terminator fits before; `HeapIsSound` shows that blocks stay aligned, apart and
intact for arrays and requests of any size. `ListingIsExact`: apart from the files in `fresh`, what the first walk of a
directory has counted bounds what the second has found and what it may still find (`ListingInv`).
`LibraryParts` carries the results about the parts over to the library.

`CallsSettle`: a sequence of steps *settles* if there is a table of what is held before each step that begins and ends empty and agrees with each step
(`Disciplined`: a step releases only what is held, acquires nothing held, a handle only if the call hands it over; what a failure leaves behind
is a known loss). That a call in progress holds what its table says is then inductive for all settling calls together (`ResourceInv`), for any number of
calls, with callers keeping what they are handed in between; that the calls of the code settle is one table each.

`CodecsAreSound` has two premises: bytes are in 0..255, and what a decoder is handed are numbers, letters or not. A text of
base64 is described letter by letter: letter `n` is one of four shifts of the three bytes from `3 * (n \div 4) + 1` on
(`LetterAt`). What a decoder knows after `n` letters is the invariant of its loop (`Decoded`): the bytes so far,
how many bits it keeps, and that these are the low bits of the byte begun. For characters that are no letters it is
enough that the bits put out and kept are at most six for each character, which bounds what is written.

`TableIsAMap` (any keys, values, hash functions and requested capacities but one): the table of the hash map implements `MapSpec`.
The invariant says that a table has a free slot, that no key is in it twice, and that between the slot a key hashes to and the slot it is in
none is free. Then a probe sequence, which reaches every slot, ends at the key or at a free slot that shows
its absence; inserting at that slot keeps the invariant; and a rebuild, which copies slot by slot, keeps the
map by induction over the slots. `MapAssumption` excludes the capacity 1, for which there may be no free slot.

**TextProofs**. `TextsMeetTheirReferences` is about texts of any length over any characters; its premises are that the null
pointer is no text, and that the patterns have no holes but `{0}` and `{1}`, since the reference replaces these two. The functions and
their references are recursive in different ways, so neither follows the other's steps:

- *Slices and trimming*: what is kept is a cut of the text, and the scans stop at the first character that is not blank.
- *Splits* (`SplitsInvert`): part `k` is the cut between where it begins (`PartRun`) and the next delimiter. Cuts that meet make one,
  so joining gives the text back by induction over the parts.
- *Escapes* (`EscapesRead`): what is read behind a place depends only on what is written there (`BackwardsAgree`: two functions
  defined from the end of a text agree).
- *Formats* (`FormatsExpand`): the code scans from hole to hole, the reference splits at `{0}` and then each piece at `{1}`. Both
  obey the same recursion at the first character: the parts of a text are known from the parts of the text without
  its first character (`PartsAtOther`) or its first delimiter (`PartsAtDelimiter`).
- *Paths* (`PathsAreComposed`): the names of `x / y` are the names of `x` and then those of `y`, wherever the slash stands. A
  parent is what is before the last slash that a name follows; an extension is behind the last dot after the last slash.

`RuntimesAnswerAlike`: the three small runtimes answer as the full one wherever `RuntimesAgree` says so, for texts over any
characters. Its premises are that the null pointer is no text (`NullIsNoText`), that a path has no backslash, which is a
separator in two of the runtimes and a character in the other, and that the length of a word to trim is an unsigned int: the freestanding
runtime trims with slices, and a slice counts in unsigned ints. Numbers are the long part: the digits `DigitsOf` makes are read back by the
loop of `atoll` and by the wrapping loop of `runtime_freestanding.c` (`DigitsRead`), by induction over what the number is divided
into. `Keeps` says when reading may wrap on the way: all prefixes of the digits of a magnitude up to `MaxInt + 1` fit, so that
only the last sum can wrap, which is how the smallest integer is read. A search character by character finds what `strstr` finds because
the longest match at a place is the delimiter just when the delimiter is there (`FindsAgree`).

**Only model-checked**: liveness (`ClosedCallsReturn`, the progress in `ImplementsChannel`, `TasksFinish`, `MainWaitReturns`,
`ShutdownEnds`, `OthersFinish`, `LocksAreGiven`, `QueuedGetsServed`, `StopExits`, `EveryoneRuns`, `AwaitReturns`), which
is out of the prover's reach. Of `LocksAreGiven`, `OthersFinish` and `StopExits` the part that says that somebody can take a step is proved
(`SomeWorkerGoesOn`, `TheStopIsHeard`); that the steps are taken, and that enough of them end the wait, is left to the runs. Every
safety invariant and action property that a run checks and expects to hold has a theorem.

## 6. What is not modelled

- The compiler: lexing, parsing, macro expansion, checking, lowering and emission are
  sequential functions of the text. Its tables of eight entries (moved variables at `sema.bux:376`,
  deferred statements at `c_backend.bux:780`) and of scopes (`scope.bux:56`) are filled in
  one pass over one tree; a model that says something true of them needs the whole walk of the tree.
- The registry cache (two files written one after the other, no lock and no recovery), SimpleDB, Boko,
  jwt-pitbul, the tools and the editor extension: sequential programs over files and texts.
- JSON, `Fmt`, time, floating point, environment variables, the current directory; arrays, slices, iterators, options
  and results, which keep no state of their own but the array's, which grows like the builder.
- `StringMap` and `Set`: line for line the code of `Map` with another comparison.
- The requests of Nexus: one step of `NexusServer`. Descriptor numbers that the kernel reuses, broken pipes and idle timeouts
  are not told apart there.
- What OpenSSL and the C library compute. Of a digest, a cipher or a signature the models have what is acquired,
  released and allocated.
- Thread-local variables across `swapcontext`: it depends on the generated machine code.
- NULL handles and out-of-memory aborts; the start of the pool; `Task_Shutdown` called twice or from a task;
  `bux_channel_free` outside of `NexusServer`; a lock destroyed while it is held; a second await of one handle.
- `runtime_win.c`: its stubs for tasks and channels, which do nothing.

Some behaviour is in the models and is excluded by name in a property, because the code does behave so:

- a directory listing writes behind its array when a matching file is created while it walks, or when its first walk
  cannot read one that the second can (`fresh` in `ListingFits`, `runtime.c:779`);
- the two receives lose their buffer when nothing comes (`KnownLosses`, `runtime.c:1670`, 1785);
- the terminator of an AES-GCM plain text goes one byte behind its buffer (`OneByteBehind` in `CodecsSound`, `runtime.c:2051`);
- a lookup in a map created with one slot never ends when another key is in it (`MapAssumption`, `lib/Map.bux:103`);
- the builder of the minimal and the Windows runtime frees the text it has handed out (`BuiltTextLives`, `runtime_minimal.c:313`);
- the checked arithmetic of the small runtimes wraps, although a comment calls it the "same semantics as full runtime"
  (`runtime_minimal.c:86`), and their slices read behind the text when `start + len` wraps (`RuntimesAgree` states where they agree);
- coroutines that await each other poll for ever (`Awaits` of the instance is acyclic);
- a task that yields, receives or returns with a lock held may stop every worker, and may unlock it on a thread
  that has not locked it (`Orderly` in `OrderlyPoolMoves`, `LocksAreGiven` and `OthersFinish`).

## 7. Plan

Done, in this order: channel with its abstract specification and proofs; scheduler with
proofs; run queue; Nexus over the channel; coroutines; the pool whose workers are blocked, over the run queue;
the sequential runtime with the hash map's refinement; proofs for Nexus, coroutines, locks, arithmetic, builder and heap;
proofs by induction for the run queue's lists, the hash map, the codecs, the texts and their references, and the small runtimes' texts;
proofs that no wait is closed to a circle, that the stop is heard, and that calls and awaits account for what they acquire.

What would come next:

1. `RequestFraming`: the Nexus connection loop over partial reads, keep-alive, timeouts and stop.
2. The tree walk of the checker over small structured programs (sequence, branch, loop, early return), with
   its moved variables and the drops and defers the back end emits: each live value is dropped once on each exit.
3. `SimpleDB` and the registry cache with a crash between two writes.
