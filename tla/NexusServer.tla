----------------------------- MODULE NexusServer -----------------------------
(***************************************************************************)
(* The Nexus HTTP server (apps/nexus/src/Server.bux), from listen to exit: *)
(* the main thread accepts connections and sends them through a channel to *)
(* worker tasks; a stop signal ends the accept loop, which then sends one  *)
(* poison pill per worker.  The channel is the one ChannelSpec promises    *)
(* (BuxChannel implements it); a worker task in Channel_Recv blocks the    *)
(* pool thread it runs on, so PoolSize tasks at most have been started and *)
(* not returned.                                                           *)
(*                                                                         *)
(* An operator marked (slip) is an action with a plausible programming     *)
(* mistake in it.  No specification here uses one: it is there to be put   *)
(* in the place of the action, and some property must then fail.           *)
(***************************************************************************)
EXTENDS Integers, Sequences, FiniteSets

CONSTANTS
    Main,      \* the main thread
    Workers,   \* the worker tasks: config.workerCount of them
    PoolSize,  \* threads of the green-thread pool (4, whatever workerCount is)
    Conns,     \* client connections that may arrive
    Pill,      \* ConnectionTask { fd: -1 }
    None,      \* no connection
    Backlog,   \* config.backlog: slots of the channel
    Tls        \* is TLS enabled?

ASSUME SizesArePositive == PoolSize \in Nat \ {0} /\ Backlog \in Nat \ {0}
ASSUME WorkersAreFinite == IsFiniteSet(Workers)
ASSUME NamesAreDistinct ==
    Main \notin Workers /\ Pill \notin Conns /\ None \notin Conns \cup {Pill}

VARIABLES
    stop,        \* g_bux_should_stop
    registered,  \* is the listening socket in g_bux_stop_listen_fd?
    listening,   \* is the listening socket open?
    conn,        \* how far each connection has come
    mpc,         \* where the main thread is in RunServer / Acceptor
    hand,        \* the connection the main thread has accepted and not sent
    pills,       \* poison pills sent (i)
    wpc,         \* where each worker task is
    serving,     \* the connection each worker task serves
    queue, closed, call, arg, out  \* the channel taskQueue

serverVars == <<stop, registered, listening>>
channelVars == <<queue, closed, call, arg, out>>
vars == <<stop, registered, listening, conn, mpc, hand, pills, wpc, serving,
          queue, closed, call, arg, out>>

Channel == INSTANCE ChannelSpec
    WITH Threads <- Workers \cup {Main}, Elem <- Conns \cup {Pill},
         NoElem <- None, Capacity <- Backlog

\* The socket listens, and the channel has been made.  A start that fails ends the process.
Init ==
    /\ stop = FALSE /\ registered = FALSE /\ listening = TRUE
    /\ conn = [c \in Conns |-> "away"]
    /\ mpc = "listening" /\ hand = None /\ pills = 0
    /\ wpc = [w \in Workers |-> "unborn"]
    /\ serving = [w \in Workers |-> None]
    /\ Channel!Init

------------------------------------------------------------------------------
(* The main thread.                                                          *)

\* Os_SetStopListenFd(serverFd)
Register ==
    /\ mpc = "listening"
    /\ registered' = TRUE
    /\ mpc' = "spawn"
    /\ UNCHANGED <<stop, listening, conn, hand, pills, wpc, serving>>
    /\ UNCHANGED channelVars

\* (slip) The workers are to be spawned once the acceptor has returned.
SpawnWorkerLater ==
    /\ mpc = "spawn"
    /\ mpc' = "loop"
    /\ UNCHANGED serverVars
    /\ UNCHANGED <<conn, hand, pills, wpc, serving>>
    /\ UNCHANGED channelVars

\* spawn Worker(&workerCtx), workerCount times.
SpawnWorker ==
    /\ mpc = "spawn"
    /\ \E w \in Workers :
          /\ wpc[w] = "unborn"
          /\ wpc' = [wpc EXCEPT ![w] = "ready"]
    /\ mpc' = IF \E w \in Workers : wpc'[w] = "unborn" THEN "spawn" ELSE "loop"
    /\ UNCHANGED serverVars
    /\ UNCHANGED <<conn, hand, pills, serving>>
    /\ UNCHANGED channelVars

\* while !Os_ShouldStop()
TestStop ==
    /\ mpc = "loop"
    /\ mpc' = IF stop THEN "poison" ELSE "accept"
    /\ UNCHANGED serverVars
    /\ UNCHANGED <<conn, hand, pills, wpc, serving>>
    /\ UNCHANGED channelVars

\* accept() on a closed socket fails at once; otherwise the thread waits in it.
EnterAccept ==
    /\ mpc = "accept"
    /\ mpc' = IF listening THEN "accepting" ELSE "failed"
    /\ UNCHANGED serverVars
    /\ UNCHANGED <<conn, hand, pills, wpc, serving>>
    /\ UNCHANGED channelVars

Accept(c) ==
    /\ mpc = "accepting"
    /\ conn[c] = "arrived"
    /\ conn' = [conn EXCEPT ![c] = "accepted"]
    /\ hand' = c
    /\ mpc' = IF Tls THEN "handshake" ELSE "send"
    /\ UNCHANGED serverVars
    /\ UNCHANGED <<pills, wpc, serving>>
    /\ UNCHANGED channelVars

\* accept() fails for a reason of the network's.
AcceptError ==
    /\ mpc = "accepting"
    /\ mpc' = "failed"
    /\ UNCHANGED serverVars
    /\ UNCHANGED <<conn, hand, pills, wpc, serving>>
    /\ UNCHANGED channelVars

\* fd < 0: if Os_ShouldStop() { break; }
AfterError ==
    /\ mpc = "failed"
    /\ mpc' = IF stop THEN "poison" ELSE "loop"
    /\ UNCHANGED serverVars
    /\ UNCHANGED <<conn, hand, pills, wpc, serving>>
    /\ UNCHANGED channelVars

\* (slip) A failed handshake closes the connection and goes on with it.
HandshakeWithoutContinue ==
    /\ mpc = "handshake"
    /\ \/ UNCHANGED conn
       \/ conn' = [conn EXCEPT ![hand] = "closed"]
    /\ mpc' = "send"
    /\ UNCHANGED serverVars
    /\ UNCHANGED <<hand, pills, wpc, serving>>
    /\ UNCHANGED channelVars

Handshake ==
    /\ mpc = "handshake"
    /\ \/ /\ mpc' = "send"
          /\ UNCHANGED <<conn, hand>>
       \/ /\ conn' = [conn EXCEPT ![hand] = "closed"]
          /\ hand' = None
          /\ mpc' = "loop"
    /\ UNCHANGED serverVars
    /\ UNCHANGED <<pills, wpc, serving>>
    /\ UNCHANGED channelVars

\* Channel_Send(ctx.taskQueue, task)
Send ==
    /\ mpc = "send"
    /\ Channel!BeginSend(Main, hand)
    /\ mpc' = "sending"
    /\ UNCHANGED serverVars
    /\ UNCHANGED <<conn, hand, pills, wpc, serving>>

Sent ==
    /\ mpc = "sending"
    /\ Channel!Enqueue(Main)
    /\ conn' = [conn EXCEPT ![hand] = "queued"]
    /\ hand' = None
    /\ mpc' = "loop"
    /\ UNCHANGED serverVars
    /\ UNCHANGED <<pills, wpc, serving>>

\* (slip) while i < ctx.workerCount - 1
PoisonOneTooFew ==
    /\ mpc = "poison"
    /\ IF pills < Cardinality(Workers) - 1
       THEN Channel!BeginSend(Main, Pill) /\ mpc' = "poisoning"
       ELSE UNCHANGED channelVars /\ mpc' = "unregister"
    /\ UNCHANGED serverVars
    /\ UNCHANGED <<conn, hand, pills, wpc, serving>>

\* while i < ctx.workerCount { Channel_Send(ctx.taskQueue, poison); i = i + 1 }
Poison ==
    /\ mpc = "poison"
    /\ IF pills < Cardinality(Workers)
       THEN Channel!BeginSend(Main, Pill) /\ mpc' = "poisoning"
       ELSE UNCHANGED channelVars /\ mpc' = "unregister"
    /\ UNCHANGED serverVars
    /\ UNCHANGED <<conn, hand, pills, wpc, serving>>

\* (slip) The pill goes out inside the accept loop, which goes on.
PoisonedInLoop ==
    /\ mpc = "poisoning"
    /\ Channel!Enqueue(Main)
    /\ pills' = pills + 1
    /\ mpc' = "accept"
    /\ UNCHANGED serverVars
    /\ UNCHANGED <<conn, hand, wpc, serving>>

Poisoned ==
    /\ mpc = "poisoning"
    /\ Channel!Enqueue(Main)
    /\ pills' = pills + 1
    /\ mpc' = "poison"
    /\ UNCHANGED serverVars
    /\ UNCHANGED <<conn, hand, wpc, serving>>

\* Os_SetStopListenFd(-1)
Unregister ==
    /\ mpc = "unregister"
    /\ registered' = FALSE
    /\ mpc' = "close"
    /\ UNCHANGED <<stop, listening, conn, hand, pills, wpc, serving>>
    /\ UNCHANGED channelVars

\* Net_Close(serverFd), also when the signal handler has closed it before.
CloseListener ==
    /\ mpc = "close"
    /\ listening' = FALSE
    /\ mpc' = "return"
    /\ UNCHANGED <<stop, registered, conn, hand, pills, wpc, serving>>
    /\ UNCHANGED channelVars

\* The compiler's drop of the local taskQueue: Channel_Drop frees the channel.
DropQueue ==
    /\ mpc = "return"
    /\ mpc' = "dropped"
    /\ UNCHANGED serverVars
    /\ UNCHANGED <<conn, hand, pills, wpc, serving>>
    /\ UNCHANGED channelVars

\* Main returns and the process ends, its worker threads with it.
Exit ==
    /\ mpc = "dropped"
    /\ mpc' = "exited"
    /\ UNCHANGED serverVars
    /\ UNCHANGED <<conn, hand, pills, wpc, serving>>
    /\ UNCHANGED channelVars

MainStep ==
    \/ Register \/ SpawnWorker \/ TestStop \/ EnterAccept \/ AfterError \/ Handshake
    \/ (\E c \in Conns : Accept(c))
    \/ Send \/ Sent \/ Poison \/ Poisoned
    \/ Unregister \/ CloseListener \/ DropQueue \/ Exit

------------------------------------------------------------------------------
(* The world: clients, and whoever sends SIGINT or SIGTERM.                  *)

Alive == mpc # "exited"

Arrive(c) ==
    /\ Alive /\ listening
    /\ conn[c] = "away"
    /\ conn' = [conn EXCEPT ![c] = "arrived"]
    /\ UNCHANGED serverVars
    /\ UNCHANGED <<mpc, hand, pills, wpc, serving>>
    /\ UNCHANGED channelVars

\* (slip) The handler leaves the listening socket open.
SignalWithoutClose ==
    /\ Alive
    /\ stop' = TRUE
    /\ registered' = FALSE
    /\ mpc' = IF mpc = "accepting" THEN "failed" ELSE mpc
    /\ UNCHANGED <<listening, conn, hand, pills, wpc, serving>>
    /\ UNCHANGED channelVars

\* bux_stop_signal_handler, on the main thread.  It interrupts an accept() that
\* waits (sa_flags has no SA_RESTART); for one about to start it closes the
\* registered socket.  A second signal finds g_bux_stop_listen_fd = -1.
Signal ==
    /\ Alive
    /\ stop' = TRUE
    /\ listening' = (listening /\ ~registered)
    /\ registered' = FALSE
    /\ mpc' = IF mpc = "accepting" THEN "failed" ELSE mpc
    /\ UNCHANGED <<conn, hand, pills, wpc, serving>>
    /\ UNCHANGED channelVars

------------------------------------------------------------------------------
(* The worker tasks.  One that would use the channel after its drop has no   *)
(* defined behaviour; it takes no step here until the process ends.          *)

Started == {w \in Workers : wpc[w] \in {"loop", "recv", "serve"}}

\* A pool thread that is free takes the task from a run queue.
Start(w) ==
    /\ Alive
    /\ wpc[w] = "ready"
    /\ Cardinality(Started) < PoolSize
    /\ wpc' = [wpc EXCEPT ![w] = "loop"]
    /\ UNCHANGED serverVars
    /\ UNCHANGED <<conn, mpc, hand, pills, serving>>
    /\ UNCHANGED channelVars

Receive(w) ==
    /\ mpc \notin {"dropped", "exited"}
    /\ wpc[w] = "loop"
    /\ Channel!BeginRecv(w)
    /\ wpc' = [wpc EXCEPT ![w] = "recv"]
    /\ UNCHANGED serverVars
    /\ UNCHANGED <<conn, mpc, hand, pills, serving>>

\* Channel_Recv returns; if task.fd < 0 { return; }
Received(w) ==
    /\ mpc \notin {"dropped", "exited"}
    /\ wpc[w] = "recv"
    /\ Channel!Dequeue(w)
    /\ IF out'[w] = Pill
       THEN /\ wpc' = [wpc EXCEPT ![w] = "done"]
            /\ UNCHANGED <<conn, serving>>
       ELSE /\ wpc' = [wpc EXCEPT ![w] = "serve"]
            /\ serving' = [serving EXCEPT ![w] = out'[w]]
            /\ conn' = [conn EXCEPT ![out'[w]] = "serving"]
    /\ UNCHANGED serverVars
    /\ UNCHANGED <<mpc, hand, pills>>

\* HandleConnection returns (the client is done, or Os_ShouldStop); Net_Close.
Served(w) ==
    /\ Alive
    /\ wpc[w] = "serve"
    /\ conn' = [conn EXCEPT ![serving[w]] = "closed"]
    /\ serving' = [serving EXCEPT ![w] = None]
    /\ wpc' = [wpc EXCEPT ![w] = "loop"]
    /\ UNCHANGED serverVars
    /\ UNCHANGED <<mpc, hand, pills>>
    /\ UNCHANGED channelVars

Next ==
    \/ MainStep \/ AcceptError \/ Signal
    \/ \E c \in Conns : Arrive(c)
    \/ \E w \in Workers : Start(w) \/ Receive(w) \/ Received(w) \/ Served(w)

\* The kernel runs the main thread and the pool; the channel lets some receiver
\* go on while it holds a value; a client hangs up sooner or later, for
\* Net_Recv has no timeout of its own.  No client has to come, no signal either.
Fairness ==
    /\ WF_vars(MainStep)
    /\ WF_vars(\E w \in Workers : Start(w))
    /\ WF_vars(\E w \in Workers : Received(w))
    /\ \A w \in Workers : WF_vars(Receive(w)) /\ WF_vars(Served(w))

SafeSpec == Init /\ [][Next]_vars

Spec == SafeSpec /\ Fairness

------------------------------------------------------------------------------
TypeOK ==
    /\ stop \in BOOLEAN /\ registered \in BOOLEAN /\ listening \in BOOLEAN
    /\ conn \in [Conns -> {"away", "arrived", "accepted", "queued", "serving", "closed"}]
    /\ mpc \in {"listening", "spawn", "loop", "accept", "accepting", "failed", "handshake",
                "send", "sending", "poison", "poisoning", "unregister", "close", "return",
                "dropped", "exited"}
    /\ hand \in Conns \cup {None}
    /\ pills \in 0..Cardinality(Workers)
    /\ wpc \in [Workers -> {"unborn", "ready", "loop", "recv", "serve", "done"}]
    /\ serving \in [Workers -> Conns \cup {None}]
    /\ queue \in Seq(Conns \cup {Pill}) /\ Len(queue) <= Backlog

Waiting(c) == {i \in 1..Len(queue) : queue[i] = c}
Servers(c) == {w \in Workers : serving[w] = c}

\* An accepted connection is in one place: the acceptor's hand, one slot of the
\* channel or one worker.  Its descriptor is closed once, by whoever holds it,
\* and nobody reads or writes it afterwards.
OneOwner ==
    \A c \in Conns :
        /\ (hand = c) <=> (conn[c] = "accepted")
        /\ Cardinality(Waiting(c)) = IF conn[c] = "queued" THEN 1 ELSE 0
        /\ Cardinality(Servers(c)) = IF conn[c] = "serving" THEN 1 ELSE 0

\* Pills come after every connection: no accepted client is left in the channel
\* behind the pill that sends the last worker home.
ConnectionsBeforePills ==
    \A i, j \in 1..Len(queue) : queue[i] = Pill /\ queue[j] \in Conns => j < i

\* Every worker that is spawned gets a pill of its own, those included that
\* find no free thread of the pool before others have returned.
PillPerWorker ==
    /\ pills = Cardinality(Waiting(Pill)) + Cardinality({w \in Workers : wpc[w] = "done"})
    /\ mpc \in {"unregister", "close", "return", "dropped", "exited"} =>
          pills = Cardinality(Workers)

\* A connection the acceptor has queued is taken by a worker, although there
\* may be more workers than threads and they may all be busy; until the stop.
QueuedGetsServed ==
    \A c \in Conns : (conn[c] = "queued") ~> (conn[c] \in {"serving", "closed"} \/ stop)

\* SIGTERM ends the process, wherever the main thread is when it comes: before
\* it registers the socket, about to call accept, in accept, or blocked on a
\* full channel.
StopExits == stop ~> (mpc = "exited")

------------------------------------------------------------------------------
(* What the documents say of the server and the code does not do.            *)

\* "Stop with Ctrl+C or kill -TERM (graceful: workers drained via poison
\* pills)": when RunServer drops the queue, every worker has taken its pill
\* and every accepted connection is closed.
WorkersDrained ==
    mpc \in {"dropped", "exited"} =>
        /\ \A w \in Workers : wpc[w] = "done"
        /\ \A c \in Conns : conn[c] \notin {"accepted", "queued", "serving"}
==============================================================================
