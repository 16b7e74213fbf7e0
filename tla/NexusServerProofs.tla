--------------------------- MODULE NexusServerProofs ---------------------------
(***************************************************************************)
(* Proofs about NexusServer for any number of workers and connections, any  *)
(* pool and any backlog.  The invariant ties the places of the main thread  *)
(* and of the workers to the calls they are in and to what they hold, and   *)
(* counts: every connection once, every pill in the channel or taken.  From *)
(* it follow the use of the channel, a refinement, and that nothing the     *)
(* server waits for holds up its stop.                                       *)
(***************************************************************************)
EXTENDS NexusServer, DataLemmas

------------------------------------------------------------------------------
(* The inductive invariant.                                                  *)

Holding  == {"handshake", "send", "sending"}
Stopping == {"poison", "poisoning", "unregister", "close", "return", "dropped", "exited"}
AllSent  == {"unregister", "close", "return", "dropped", "exited"}

ChannelTypes ==
    /\ closed = FALSE
    /\ call \in [Workers \cup {Main} -> {"idle", "send", "recv"}]
    /\ arg \in [Workers \cup {Main} -> Conns \cup {Pill, None}]
    /\ out \in [Workers \cup {Main} -> Conns \cup {Pill, None}]

\* What the main thread holds and how many pills it has sent, by where it is.
MainHolds ==
    /\ hand \in Conns <=> mpc \in Holding
    /\ call[Main] = IF mpc \in {"sending", "poisoning"} THEN "send" ELSE "idle"
    /\ mpc = "sending" => arg[Main] = hand
    /\ mpc = "poisoning" => arg[Main] = Pill /\ pills < Cardinality(Workers)
    /\ mpc \notin Stopping => pills = 0
    /\ mpc \in AllSent => pills = Cardinality(Workers)

WorkerHolds ==
    \A w \in Workers :
        /\ call[w] = IF wpc[w] = "recv" THEN "recv" ELSE "idle"
        /\ serving[w] \in Conns <=> wpc[w] = "serve"

ServerInv ==
    /\ TypeOK /\ ChannelTypes /\ MainHolds /\ WorkerHolds
    /\ OneOwner /\ ConnectionsBeforePills /\ PillPerWorker

LEMMA InvInit == Init => ServerInv
<1> SUFFICES ASSUME Init PROVE ServerInv
  OBVIOUS
<1> USE SizesArePositive, NamesAreDistinct, WorkersAreFinite
<1>1. /\ queue = <<>> /\ hand = None /\ pills = 0 /\ mpc = "listening" /\ closed = FALSE
      /\ conn = [c \in Conns |-> "away"] /\ wpc = [w \in Workers |-> "unborn"]
      /\ serving = [w \in Workers |-> None]
      /\ call = [t \in Workers \cup {Main} |-> "idle"]
      /\ arg = [t \in Workers \cup {Main} |-> None]
      /\ out = [t \in Workers \cup {Main} |-> None]
  BY DEF Init, Channel!Init
<1>2. stop \in BOOLEAN /\ registered \in BOOLEAN /\ listening \in BOOLEAN
  BY Zenon DEF Init
<1>3. 0 \in 0..Cardinality(Workers)
  BY FS_CardinalityType
<1>4. TypeOK
  BY <1>1, <1>2, <1>3 DEF TypeOK
<1>5. ChannelTypes /\ MainHolds /\ WorkerHolds
  BY <1>1 DEF ChannelTypes, MainHolds, WorkerHolds, Holding, Stopping, AllSent
<1>6. \A c : Waiting(c) = {}
  BY <1>1 DEF Waiting
<1>7. \A c \in Conns : Servers(c) = {}
  BY <1>1 DEF Servers
<1>8. OneOwner
  BY <1>1, <1>6, <1>7, FS_EmptySet DEF OneOwner
<1>9. {w \in Workers : wpc[w] = "done"} = {}
  BY <1>1
<1>10. PillPerWorker
  <2>1. Waiting(Pill) = {} /\ Cardinality({}) = 0
    BY <1>6, FS_EmptySet
  <2>2. Cardinality({w \in Workers : wpc[w] = "done"}) = 0
    BY <1>9, <2>1
  <2>3. mpc \notin {"unregister", "close", "return", "dropped", "exited"} /\ pills = 0
    BY <1>1
  <2>. QED  BY <2>1, <2>2, <2>3 DEF PillPerWorker
<1>11. ConnectionsBeforePills
  BY <1>1 DEF ConnectionsBeforePills
<1>. QED  BY <1>4, <1>5, <1>8, <1>10, <1>11 DEF ServerInv

\* Waiting is At of the channel's queue.
LEMMA WaitingIsAt == \A e : Waiting(e) = At(queue, e)
  BY DEF Waiting, At

------------------------------------------------------------------------------
(* Steps that move the main thread or a flag and nothing else.               *)

LEMMA MainMoves ==
    ASSUME ServerInv, UNCHANGED <<conn, hand, pills, wpc, serving>>, UNCHANGED channelVars,
           stop' \in BOOLEAN, registered' \in BOOLEAN, listening' \in BOOLEAN,
           mpc' \in {"spawn", "loop", "accept", "accepting", "failed"} \cup Stopping,
           MainHolds'
    PROVE  ServerInv'
<1>1. TypeOK'
  BY DEF ServerInv, TypeOK, channelVars, Stopping
<1>2. ChannelTypes' /\ WorkerHolds'
  BY DEF ServerInv, ChannelTypes, WorkerHolds, channelVars
<1>3. OneOwner' /\ ConnectionsBeforePills'
  BY DEF ServerInv, OneOwner, ConnectionsBeforePills, Waiting, Servers, channelVars
<1>4. PillPerWorker'
  BY DEF ServerInv, PillPerWorker, MainHolds, AllSent, Waiting, channelVars
<1>. QED  BY <1>1, <1>2, <1>3, <1>4 DEF ServerInv

LEMMA MainMovesInv ==
    ASSUME ServerInv,
           \/ Register \/ TestStop \/ EnterAccept \/ AfterError \/ AcceptError
           \/ Unregister \/ CloseListener \/ DropQueue \/ Exit \/ Signal
    PROVE  ServerInv'
<1>0. stop \in BOOLEAN /\ registered \in BOOLEAN /\ listening \in BOOLEAN
  BY Zenon DEF ServerInv, TypeOK
<1>1. UNCHANGED <<conn, hand, pills, wpc, serving>> /\ UNCHANGED channelVars
  BY DEF Register, TestStop, EnterAccept, AfterError, AcceptError, Unregister,
         CloseListener, DropQueue, Exit, Signal
<1>2. stop' \in BOOLEAN
  BY <1>0, Zenon DEF Register, TestStop, EnterAccept, AfterError, AcceptError, Unregister,
         CloseListener, DropQueue, Exit, Signal, serverVars
<1>3. registered' \in BOOLEAN
  BY <1>0, Zenon DEF Register, TestStop, EnterAccept, AfterError, AcceptError, Unregister,
         CloseListener, DropQueue, Exit, Signal, serverVars
<1>4. listening' \in BOOLEAN
  BY <1>0, Zenon DEF Register, TestStop, EnterAccept, AfterError, AcceptError, Unregister,
         CloseListener, DropQueue, Exit, Signal, serverVars
<1>5. /\ \/ mpc \notin Holding \cup Stopping \cup {"accepting"}
            /\ mpc' \in {"spawn", "loop", "accept", "accepting", "failed", "poison"}
         \/ mpc = "accepting" /\ mpc' = "failed"
         \/ mpc \in AllSent /\ mpc' \in AllSent
         \/ mpc' = mpc
  BY DEF Register, TestStop, EnterAccept, AfterError, AcceptError, Unregister,
         CloseListener, DropQueue, Exit, Signal, Holding, Stopping, AllSent
<1>6. MainHolds'
  BY <1>1, <1>5 DEF ServerInv, MainHolds, Holding, Stopping, AllSent, channelVars
<1>7. ServerInv'
  <2>1. CASE mpc' = mpc
    <3>1. TypeOK'
      BY <1>1, <1>2, <1>3, <1>4, <2>1 DEF ServerInv, TypeOK, channelVars
    <3>2. ChannelTypes' /\ WorkerHolds'
      BY <1>1 DEF ServerInv, ChannelTypes, WorkerHolds, channelVars
    <3>3. OneOwner' /\ ConnectionsBeforePills'
      BY <1>1 DEF ServerInv, OneOwner, ConnectionsBeforePills, Waiting, Servers, channelVars
    <3>4. PillPerWorker'
      BY <1>1, <2>1 DEF ServerInv, PillPerWorker, Waiting, channelVars
    <3>. QED  BY <1>6, <3>1, <3>2, <3>3, <3>4 DEF ServerInv
  <2>2. CASE mpc' # mpc
    <3>1. mpc' \in {"spawn", "loop", "accept", "accepting", "failed"} \cup Stopping
      BY <1>5, <2>2 DEF Stopping, AllSent
    <3>. QED  BY <1>1, <1>2, <1>3, <1>4, <1>6, <3>1, MainMoves
  <2>. QED  BY <2>1, <2>2
<1>. QED  BY <1>7

------------------------------------------------------------------------------
(* Worker tasks before they have a value.                                    *)

LEMMA WorkerMoves ==
    ASSUME ServerInv, UNCHANGED <<stop, registered, listening, conn, hand, pills, serving, queue>>,
           NEW w \in Workers, wpc[w] \notin {"serve", "done"},
           NEW p \in {"ready", "loop", "recv"}, wpc' = [wpc EXCEPT ![w] = p],
           mpc' \in {"spawn", "loop"} \cup {mpc}, mpc' # mpc => mpc = "spawn",
           ChannelTypes', call'[Main] = call[Main], arg' = arg,
           \A v \in Workers : call'[v] = IF wpc'[v] = "recv" THEN "recv" ELSE "idle"
    PROVE  ServerInv'
<1>1. TypeOK'
  BY DEF ServerInv, TypeOK
<1>2. MainHolds'
  BY DEF ServerInv, MainHolds, Holding, Stopping, AllSent
<1>3. WorkerHolds'
  BY DEF ServerInv, WorkerHolds, TypeOK
<1>4. OneOwner'
  <2>1. \A d : Waiting(d)' = Waiting(d) /\ Servers(d)' = Servers(d)
    BY DEF Waiting, Servers
  <2>. QED  BY <2>1 DEF ServerInv, OneOwner
<1>7. ConnectionsBeforePills'
  BY DEF ServerInv, ConnectionsBeforePills
<1>5. {v \in Workers : wpc'[v] = "done"} = {v \in Workers : wpc[v] = "done"}
  BY DEF ServerInv, TypeOK
<1>6. PillPerWorker'
  BY <1>5 DEF ServerInv, PillPerWorker, Waiting
<1>. QED  BY <1>1, <1>2, <1>3, <1>4, <1>6, <1>7 DEF ServerInv

LEMMA WorkerMovesInv ==
    ASSUME ServerInv, SpawnWorker \/ \E w \in Workers : Start(w) \/ Receive(w)
    PROVE  ServerInv'
<1> USE NamesAreDistinct
<1>1. CASE SpawnWorker
  <2>1. PICK w \in Workers : wpc[w] = "unborn" /\ wpc' = [wpc EXCEPT ![w] = "ready"]
    BY <1>1 DEF SpawnWorker
  <2>2. /\ UNCHANGED <<stop, registered, listening, conn, hand, pills, serving>>
        /\ UNCHANGED channelVars
        /\ mpc = "spawn" /\ mpc' \in {"spawn", "loop"}
    BY <1>1 DEF SpawnWorker, serverVars
  <2>3. ChannelTypes'
    BY <2>2 DEF ServerInv, ChannelTypes, channelVars
  <2>4. \A v \in Workers : call'[v] = IF wpc'[v] = "recv" THEN "recv" ELSE "idle"
    BY <2>1, <2>2 DEF ServerInv, WorkerHolds, TypeOK, channelVars
  <2>. QED  BY <2>1, <2>2, <2>3, <2>4, WorkerMoves DEF channelVars
<1>2. ASSUME NEW w \in Workers, Start(w) PROVE ServerInv'
  <2>1. /\ wpc[w] = "ready" /\ wpc' = [wpc EXCEPT ![w] = "loop"] /\ mpc' = mpc
        /\ UNCHANGED <<stop, registered, listening, conn, hand, pills, serving>>
        /\ UNCHANGED channelVars
    BY <1>2 DEF Start, serverVars
  <2>2. ChannelTypes'
    BY <2>1 DEF ServerInv, ChannelTypes, channelVars
  <2>3. \A v \in Workers : call'[v] = IF wpc'[v] = "recv" THEN "recv" ELSE "idle"
    BY <2>1 DEF ServerInv, WorkerHolds, TypeOK, channelVars
  <2>. QED  BY <2>1, <2>2, <2>3, WorkerMoves DEF channelVars
<1>3. ASSUME NEW w \in Workers, Receive(w) PROVE ServerInv'
  <2>1. /\ wpc[w] = "loop" /\ wpc' = [wpc EXCEPT ![w] = "recv"] /\ mpc' = mpc
        /\ UNCHANGED <<stop, registered, listening, conn, hand, pills, serving>>
        /\ call' = [call EXCEPT ![w] = "recv"] /\ out' = [out EXCEPT ![w] = None]
        /\ UNCHANGED <<queue, closed, arg>>
    BY <1>3 DEF Receive, serverVars, Channel!BeginRecv
  <2>2. ChannelTypes'
    BY <2>1 DEF ServerInv, ChannelTypes
  <2>3. /\ call'[Main] = call[Main]
        /\ \A v \in Workers : call'[v] = IF wpc'[v] = "recv" THEN "recv" ELSE "idle"
    BY <2>1 DEF ServerInv, WorkerHolds, TypeOK, ChannelTypes
  <2>. QED  BY <2>1, <2>2, <2>3, WorkerMoves
<1>. QED  BY <1>1, <1>2, <1>3

------------------------------------------------------------------------------
(* Connections before they are queued.                                       *)

LEMMA ConnMoves ==
    ASSUME ServerInv, UNCHANGED <<stop, registered, listening, pills, wpc, serving>>,
           UNCHANGED channelVars, MainHolds',
           mpc' \in {mpc, "loop"} \cup Holding, mpc' # mpc => mpc \notin Stopping,
           NEW c \in Conns, NEW p \in {"arrived", "accepted", "closed"},
           conn' = [conn EXCEPT ![c] = p], conn[c] \notin {"queued", "serving"},
           hand' \in Conns \cup {None},
           (hand' = c) <=> (p = "accepted"), \A d \in Conns \ {c} : (hand' = d) <=> (hand = d)
    PROVE  ServerInv'
<1>1. TypeOK'
  BY DEF ServerInv, TypeOK, channelVars, Holding
<1>2. ChannelTypes' /\ WorkerHolds'
  BY DEF ServerInv, ChannelTypes, WorkerHolds, channelVars
<1>3. OneOwner'
  <2> SUFFICES ASSUME NEW d \in Conns
               PROVE  /\ (hand' = d) <=> (conn'[d] = "accepted")
                      /\ Cardinality(Waiting(d)') = IF conn'[d] = "queued" THEN 1 ELSE 0
                      /\ Cardinality(Servers(d)') = IF conn'[d] = "serving" THEN 1 ELSE 0
    BY DEF OneOwner
  <2>1. Waiting(d)' = Waiting(d) /\ Servers(d)' = Servers(d)
    BY DEF Waiting, Servers, channelVars
  <2>2. /\ (hand = d) <=> (conn[d] = "accepted")
        /\ Cardinality(Waiting(d)) = IF conn[d] = "queued" THEN 1 ELSE 0
        /\ Cardinality(Servers(d)) = IF conn[d] = "serving" THEN 1 ELSE 0
    BY DEF ServerInv, OneOwner
  <2>. QED  BY <2>1, <2>2 DEF ServerInv, TypeOK
<1>4. ConnectionsBeforePills'
  BY DEF ServerInv, ConnectionsBeforePills, channelVars
<1>5. PillPerWorker'
  BY DEF ServerInv, PillPerWorker, MainHolds, AllSent, Waiting, channelVars
<1>. QED  BY <1>1, <1>2, <1>3, <1>4, <1>5 DEF ServerInv

LEMMA ConnMovesInv ==
    ASSUME ServerInv, Handshake \/ \E c \in Conns : Accept(c) \/ Arrive(c)
    PROVE  ServerInv'
<1> USE NamesAreDistinct
<1>1. ASSUME NEW c \in Conns, Accept(c) PROVE ServerInv'
  <2>1. /\ mpc = "accepting" /\ conn[c] = "arrived" /\ hand' = c
        /\ conn' = [conn EXCEPT ![c] = "accepted"] /\ mpc' \in {"handshake", "send"}
        /\ UNCHANGED <<stop, registered, listening, pills, wpc, serving>>
        /\ UNCHANGED channelVars
    BY <1>1 DEF Accept, serverVars
  <2>2. hand \notin Conns
    BY <2>1 DEF ServerInv, MainHolds, Holding
  <2>3. MainHolds'
    BY <2>1 DEF ServerInv, MainHolds, Holding, Stopping, AllSent, channelVars
  <2>. QED  BY <2>1, <2>2, <2>3, ConnMoves DEF Holding, Stopping
<1>2. ASSUME NEW c \in Conns, Arrive(c) PROVE ServerInv'
  <2>1. /\ conn[c] = "away" /\ conn' = [conn EXCEPT ![c] = "arrived"]
        /\ UNCHANGED <<stop, registered, listening, mpc, hand, pills, wpc, serving>>
        /\ UNCHANGED channelVars
    BY <1>2 DEF Arrive, serverVars
  <2>2. hand # c /\ hand \in Conns \cup {None}
    BY <2>1 DEF ServerInv, OneOwner, TypeOK
  <2>3. MainHolds'
    BY <2>1 DEF ServerInv, MainHolds, channelVars
  <2>. QED  BY <2>1, <2>2, <2>3, ConnMoves
<1>3. CASE Handshake
  <2>1. /\ mpc = "handshake" /\ hand \in Conns
        /\ UNCHANGED <<stop, registered, listening, pills, wpc, serving>>
        /\ UNCHANGED channelVars
    BY <1>3 DEF Handshake, serverVars, ServerInv, MainHolds, Holding
  <2>2. conn[hand] = "accepted" /\ conn \in [Conns -> {"away", "arrived", "accepted", "queued", "serving", "closed"}]
    BY <2>1 DEF ServerInv, OneOwner, TypeOK
  <2>3. CASE mpc' = "send" /\ UNCHANGED <<conn, hand>>
    <3>1. MainHolds'
      BY <2>1, <2>3 DEF ServerInv, MainHolds, Holding, Stopping, AllSent, channelVars
    <3>2. conn' = [conn EXCEPT ![hand] = "accepted"]
      BY <2>2, <2>3
    <3>3. hand' = hand
      BY <2>3
    <3>. QED  BY <2>1, <2>2, <2>3, <3>1, <3>2, <3>3, ConnMoves DEF Holding, Stopping
  <2>4. CASE mpc' = "loop" /\ hand' = None /\ conn' = [conn EXCEPT ![hand] = "closed"]
    <3>1. MainHolds'
      BY <2>1, <2>4 DEF ServerInv, MainHolds, Holding, Stopping, AllSent, channelVars
    <3>. QED  BY <2>1, <2>2, <2>4, <3>1, ConnMoves DEF Stopping
  <2>. QED  BY <1>3, <2>3, <2>4 DEF Handshake
<1>. QED  BY <1>1, <1>2, <1>3

------------------------------------------------------------------------------
(* The main thread sends: connections first, then the pills.                 *)

LEMMA SendBegins ==
    ASSUME ServerInv, Send \/ Poison
    PROVE  ServerInv'
<1> USE NamesAreDistinct
<1>1. Cardinality(Workers) \in Nat
  BY WorkersAreFinite, FS_CardinalityType
<1>2. CASE ~(Poison /\ pills >= Cardinality(Workers))
  <2>1. PICK e \in Conns \cup {Pill} :
           /\ call[Main] = "idle" /\ call' = [call EXCEPT ![Main] = "send"]
           /\ arg' = [arg EXCEPT ![Main] = e]
           /\ UNCHANGED <<queue, closed, out>>
           /\ UNCHANGED <<stop, registered, listening, conn, hand, pills, wpc, serving>>
           /\ \/ mpc = "send" /\ mpc' = "sending" /\ e = hand
              \/ mpc = "poison" /\ mpc' = "poisoning" /\ e = Pill
                 /\ pills < Cardinality(Workers)
    <3>1. CASE Send
      <4>1. hand \in Conns
        BY <3>1 DEF Send, ServerInv, MainHolds, Holding
      <4>. QED  BY <3>1, <4>1 DEF Send, serverVars, Channel!BeginSend
    <3>2. CASE Poison
      <4>1. pills \in Nat
        BY <1>1 DEF ServerInv, TypeOK
      <4>2. pills < Cardinality(Workers)
        BY <1>1, <1>2, <3>2, <4>1
      <4>. QED  BY <3>2, <4>2 DEF Poison, serverVars, Channel!BeginSend
    <3>. QED  BY <3>1, <3>2
  <2>2. TypeOK'
    BY <2>1 DEF ServerInv, TypeOK
  <2>3. ChannelTypes'
    BY <2>1 DEF ServerInv, ChannelTypes
  <2>4. MainHolds'
    BY <2>1 DEF ServerInv, MainHolds, Holding, Stopping, AllSent, ChannelTypes
  <2>5. WorkerHolds'
    BY <2>1 DEF ServerInv, WorkerHolds, ChannelTypes
  <2>6. OneOwner'
    BY <2>1 DEF ServerInv, OneOwner, Waiting, Servers
  <2>7. ConnectionsBeforePills'
    BY <2>1 DEF ServerInv, ConnectionsBeforePills
  <2>8. PillPerWorker'
    BY <2>1 DEF ServerInv, PillPerWorker, Waiting
  <2>. QED  BY <2>2, <2>3, <2>4, <2>5, <2>6, <2>7, <2>8 DEF ServerInv
<1>3. CASE Poison /\ pills >= Cardinality(Workers)
  <2>1. pills \in Nat /\ pills = Cardinality(Workers)
    BY <1>1, <1>3 DEF ServerInv, TypeOK
  <2>2. /\ mpc = "poison" /\ mpc' = "unregister" /\ UNCHANGED channelVars
        /\ UNCHANGED <<stop, registered, listening, conn, hand, pills, wpc, serving>>
    BY <1>3, <2>1 DEF Poison, serverVars
  <2>3. stop' \in BOOLEAN /\ registered' \in BOOLEAN /\ listening' \in BOOLEAN
    BY <2>2 DEF ServerInv, TypeOK
  <2>4. MainHolds'
    BY <2>1, <2>2 DEF ServerInv, MainHolds, Holding, Stopping, AllSent, channelVars
  <2>. QED  BY <2>2, <2>3, <2>4, MainMoves DEF Stopping
<1>. QED  BY <1>2, <1>3

\* While a connection is sent there is no pill in the channel.
LEMMA SentInv ==
    ASSUME ServerInv, Sent
    PROVE  ServerInv'
<1> USE NamesAreDistinct
<1> DEFINE c == hand
<1>1. /\ mpc = "sending" /\ mpc' = "loop" /\ c \in Conns /\ arg[Main] = c /\ pills = 0
      /\ hand' = None /\ conn' = [conn EXCEPT ![c] = "queued"]
      /\ UNCHANGED <<stop, registered, listening, pills, wpc, serving>>
      /\ Len(queue) < Backlog /\ queue' = Append(queue, c)
      /\ call' = [call EXCEPT ![Main] = "idle"] /\ arg' = [arg EXCEPT ![Main] = None]
      /\ UNCHANGED <<closed, out>>
  BY DEF Sent, serverVars, Channel!Enqueue, ServerInv, MainHolds, Holding, Stopping, ChannelTypes
<1>2. /\ queue \in Seq(Conns \cup {Pill}) /\ Backlog \in Nat /\ conn[c] = "accepted"
      /\ conn \in [Conns -> {"away", "arrived", "accepted", "queued", "serving", "closed"}]
  BY <1>1, SizesArePositive DEF ServerInv, TypeOK, OneOwner
<1>3. \A e : Waiting(e) = At(queue, e) /\ Waiting(e)' = At(queue', e)
  BY DEF Waiting, At
<1>4. \A e : Cardinality(Waiting(e)') =
                IF c = e THEN Cardinality(Waiting(e)) + 1 ELSE Cardinality(Waiting(e))
  BY <1>1, <1>2, <1>3, AtAppend
<1>5. TypeOK'
  <2>1. queue' \in Seq(Conns \cup {Pill}) /\ Len(queue') <= Backlog
    BY <1>1, <1>2
  <2>. QED  BY <1>1, <1>2, <2>1 DEF ServerInv, TypeOK
<1>6. ChannelTypes'
  BY <1>1 DEF ServerInv, ChannelTypes
<1>7. MainHolds' /\ WorkerHolds'
  BY <1>1 DEF ServerInv, MainHolds, WorkerHolds, Holding, Stopping, AllSent, ChannelTypes
<1>8. OneOwner'
  <2> SUFFICES ASSUME NEW d \in Conns
               PROVE  /\ (hand' = d) <=> (conn'[d] = "accepted")
                      /\ Cardinality(Waiting(d)') = IF conn'[d] = "queued" THEN 1 ELSE 0
                      /\ Cardinality(Servers(d)') = IF conn'[d] = "serving" THEN 1 ELSE 0
    BY DEF OneOwner
  <2>1. Servers(d)' = Servers(d)
    BY <1>1 DEF Servers
  <2>2. /\ (hand = d) <=> (conn[d] = "accepted")
        /\ Cardinality(Waiting(d)) = IF conn[d] = "queued" THEN 1 ELSE 0
        /\ Cardinality(Servers(d)) = IF conn[d] = "serving" THEN 1 ELSE 0
    BY DEF ServerInv, OneOwner
  <2>3. Cardinality(Waiting(d)') =
           IF c = d THEN Cardinality(Waiting(d)) + 1 ELSE Cardinality(Waiting(d))
    BY <1>4
  <2>4. hand' # d /\ conn'[d] = IF d = c THEN "queued" ELSE conn[d]
    BY <1>1, <1>2
  <2>. QED  BY <1>2, <2>1, <2>2, <2>3, <2>4
<1>9. ConnectionsBeforePills'
  <2>1. Cardinality(Waiting(Pill)) = 0
    <3>1. /\ pills = Cardinality(Waiting(Pill)) + Cardinality({w \in Workers : wpc[w] = "done"})
          /\ pills = 0
      BY <1>1 DEF ServerInv, PillPerWorker
    <3>2. Cardinality(Waiting(Pill)) \in Nat
      BY <1>2, <1>3, AtIsFinite
    <3>3. Cardinality({w \in Workers : wpc[w] = "done"}) \in Nat
      <4>1. {w \in Workers : wpc[w] = "done"} \in SUBSET Workers
        OBVIOUS
      <4>. QED  BY <4>1, WorkersAreFinite, FS_Subset, FS_CardinalityType
    <3>. QED  BY <3>1, <3>2, <3>3
  <2>2. At(queue, Pill) = {}
    BY <1>2, <1>3, <2>1, AtIsFinite
  <2>3. \A i \in 1..Len(queue) : queue[i] # Pill
    BY <2>2 DEF At
  <2>4. \A i \in 1..Len(queue') : queue'[i] # Pill
    BY <1>1, <1>2, <2>3
  <2>. QED  BY <2>4 DEF ConnectionsBeforePills
<1>10. PillPerWorker'
  <2>1. Cardinality(Waiting(Pill)') = Cardinality(Waiting(Pill))
    BY <1>1, <1>4
  <2>. QED  BY <1>1, <2>1 DEF ServerInv, PillPerWorker
<1>. QED  BY <1>5, <1>6, <1>7, <1>8, <1>9, <1>10 DEF ServerInv

LEMMA PoisonedInv ==
    ASSUME ServerInv, Poisoned
    PROVE  ServerInv'
<1> USE NamesAreDistinct
<1>1. /\ mpc = "poisoning" /\ mpc' = "poison" /\ arg[Main] = Pill
      /\ pills' = pills + 1 /\ pills < Cardinality(Workers)
      /\ UNCHANGED <<stop, registered, listening, hand, conn, wpc, serving>>
      /\ Len(queue) < Backlog /\ queue' = Append(queue, Pill)
      /\ call' = [call EXCEPT ![Main] = "idle"] /\ arg' = [arg EXCEPT ![Main] = None]
      /\ UNCHANGED <<closed, out>>
  BY DEF Poisoned, serverVars, Channel!Enqueue, ServerInv, MainHolds, ChannelTypes
<1>2. queue \in Seq(Conns \cup {Pill}) /\ Backlog \in Nat
  BY SizesArePositive DEF ServerInv, TypeOK
<1>3. \A e : Waiting(e) = At(queue, e) /\ Waiting(e)' = At(queue', e)
  BY DEF Waiting, At
<1>4. \A e : Cardinality(Waiting(e)') =
                IF Pill = e THEN Cardinality(Waiting(e)) + 1 ELSE Cardinality(Waiting(e))
  BY <1>1, <1>2, <1>3, AtAppend
<1>0. Cardinality(Workers) \in Nat
  BY WorkersAreFinite, FS_CardinalityType
<1>5. TypeOK'
  <2>1. queue' \in Seq(Conns \cup {Pill}) /\ Len(queue') <= Backlog
    BY <1>1, <1>2
  <2>2. pills' \in 0..Cardinality(Workers)
    BY <1>0, <1>1 DEF ServerInv, TypeOK
  <2>. QED  BY <1>1, <1>2, <2>1, <2>2 DEF ServerInv, TypeOK
<1>6. ChannelTypes'
  BY <1>1 DEF ServerInv, ChannelTypes
<1>7. MainHolds' /\ WorkerHolds'
  BY <1>1 DEF ServerInv, MainHolds, WorkerHolds, Holding, Stopping, AllSent, ChannelTypes
<1>8. OneOwner'
  <2> SUFFICES ASSUME NEW d \in Conns
               PROVE  /\ (hand' = d) <=> (conn'[d] = "accepted")
                      /\ Cardinality(Waiting(d)') = IF conn'[d] = "queued" THEN 1 ELSE 0
                      /\ Cardinality(Servers(d)') = IF conn'[d] = "serving" THEN 1 ELSE 0
    BY DEF OneOwner
  <2>1. Servers(d)' = Servers(d)
    BY <1>1 DEF Servers
  <2>2. Cardinality(Waiting(d)') = Cardinality(Waiting(d))
    BY <1>4
  <2>. QED  BY <1>1, <2>1, <2>2 DEF ServerInv, OneOwner
<1>9. ConnectionsBeforePills'
  <2> SUFFICES ASSUME NEW i \in 1..Len(queue'), NEW j \in 1..Len(queue'),
                      queue'[i] = Pill, queue'[j] \in Conns
               PROVE  j < i
    BY DEF ConnectionsBeforePills
  <2>1. /\ Len(queue) \in Nat /\ Len(queue') = Len(queue) + 1
        /\ queue'[Len(queue) + 1] = Pill
        /\ \A k \in 1..Len(queue) : queue'[k] = queue[k]
    BY <1>1, <1>2
  <2>2. j \in 1..Len(queue) /\ queue[j] \in Conns
    BY <2>1
  <2>3. CASE i = Len(queue) + 1
    BY <2>1, <2>2, <2>3
  <2>4. CASE i \in 1..Len(queue)
    BY <2>1, <2>2, <2>4 DEF ServerInv, ConnectionsBeforePills
  <2>. QED  BY <2>1, <2>3, <2>4
<1>10. PillPerWorker'
  <2>1. Cardinality(Waiting(Pill)') = Cardinality(Waiting(Pill)) + 1
    BY <1>4
  <2>2. Cardinality(Waiting(Pill)) \in Nat
    BY <1>2, <1>3, AtIsFinite
  <2>3. Cardinality({w \in Workers : wpc[w] = "done"}) \in Nat
    <3>1. {w \in Workers : wpc[w] = "done"} \in SUBSET Workers
      OBVIOUS
    <3>. QED  BY <3>1, WorkersAreFinite, FS_Subset, FS_CardinalityType
  <2>. QED  BY <1>1, <2>1, <2>2, <2>3 DEF ServerInv, PillPerWorker
<1>. QED  BY <1>5, <1>6, <1>7, <1>8, <1>9, <1>10 DEF ServerInv

------------------------------------------------------------------------------
(* A worker takes a value, and is done with a connection.                    *)

LEMMA ReceivedInv ==
    ASSUME ServerInv, NEW w \in Workers, Received(w)
    PROVE  ServerInv'
<1> USE NamesAreDistinct
<1> DEFINE x == Head(queue)
           Done == {v \in Workers : wpc[v] = "done"}
<1>1. /\ wpc[w] = "recv" /\ queue # <<>> /\ queue' = Tail(queue)
      /\ out' = [out EXCEPT ![w] = x] /\ call' = [call EXCEPT ![w] = "idle"]
      /\ UNCHANGED <<closed, arg>>
      /\ UNCHANGED <<stop, registered, listening, mpc, hand, pills>>
      /\ \/ x = Pill /\ wpc' = [wpc EXCEPT ![w] = "done"] /\ UNCHANGED <<conn, serving>>
         \/ /\ x # Pill /\ wpc' = [wpc EXCEPT ![w] = "serve"]
            /\ serving' = [serving EXCEPT ![w] = x] /\ conn' = [conn EXCEPT ![x] = "serving"]
  <2>1. closed = FALSE /\ out \in [Workers \cup {Main} -> Conns \cup {Pill, None}]
    BY DEF ServerInv, ChannelTypes
  <2>2. /\ wpc[w] = "recv" /\ queue # <<>> /\ queue' = Tail(queue)
        /\ out' = [out EXCEPT ![w] = x] /\ call' = [call EXCEPT ![w] = "idle"]
        /\ UNCHANGED <<closed, arg>>
    BY <2>1 DEF Received, Channel!Dequeue
  <2>3. out'[w] = x
    BY <2>1, <2>2
  <2>. QED  BY <2>2, <2>3 DEF Received, serverVars
<1>2. /\ queue \in Seq(Conns \cup {Pill}) /\ x \in Conns \cup {Pill}
      /\ Tail(queue) \in Seq(Conns \cup {Pill}) /\ Len(Tail(queue)) = Len(queue) - 1
      /\ Len(queue) \in Nat \ {0} /\ Backlog \in Nat /\ Len(queue) <= Backlog
      /\ queue[1] = x /\ \A i \in 1..(Len(queue) - 1) : queue'[i] = queue[i + 1]
  BY <1>1, SizesArePositive DEF ServerInv, TypeOK
<1>3. \A e : Waiting(e) = At(queue, e) /\ Waiting(e)' = At(queue', e)
  BY DEF Waiting, At
<1>4. \A e : /\ Cardinality(Waiting(e)) \in Nat /\ Cardinality(Waiting(e)') \in Nat
             /\ Cardinality(Waiting(e)') =
                   IF x = e THEN Cardinality(Waiting(e)) - 1 ELSE Cardinality(Waiting(e))
  BY <1>1, <1>2, <1>3, AtIsFinite, AtTail
<1> HIDE DEF x
<1>5. TypeOK'
  BY <1>1, <1>2 DEF ServerInv, TypeOK
<1>6. ChannelTypes'
  BY <1>1, <1>2 DEF ServerInv, ChannelTypes
<1>7. MainHolds'
  BY <1>1 DEF ServerInv, MainHolds, ChannelTypes
<1>8. WorkerHolds'
  BY <1>1, <1>2 DEF ServerInv, WorkerHolds, ChannelTypes, TypeOK
<1>9. ConnectionsBeforePills'
  <2> SUFFICES ASSUME NEW i \in 1..Len(queue'), NEW j \in 1..Len(queue'),
                      queue'[i] = Pill, queue'[j] \in Conns
               PROVE  j < i
    BY DEF ConnectionsBeforePills
  <2>1. /\ i + 1 \in 1..Len(queue) /\ j + 1 \in 1..Len(queue)
        /\ queue[i + 1] = Pill /\ queue[j + 1] \in Conns
    BY <1>1, <1>2
  <2>. QED  BY <2>1 DEF ServerInv, ConnectionsBeforePills
<1>10. IsFiniteSet(Done) /\ w \notin Done
  <2>1. Done \in SUBSET Workers
    OBVIOUS
  <2>. QED  BY <1>1, <2>1, WorkersAreFinite, FS_Subset
<1>11. PillPerWorker'
  <2>1. /\ pills = Cardinality(Waiting(Pill)) + Cardinality(Done)
        /\ Cardinality(Done) \in Nat
        /\ mpc \in AllSent => pills = Cardinality(Workers)
    BY <1>10, FS_CardinalityType DEF ServerInv, PillPerWorker, MainHolds
  <2>2. CASE x = Pill
    <3>1. {v \in Workers : wpc'[v] = "done"} = Done \cup {w}
      BY <1>1, <2>2 DEF ServerInv, TypeOK
    <3>2. Cardinality(Done \cup {w}) = Cardinality(Done) + 1
      BY <1>10, FS_AddElement
    <3>3. Cardinality({v \in Workers : wpc'[v] = "done"}) = Cardinality(Done) + 1
      BY <3>1, <3>2
    <3>4. Cardinality(Waiting(Pill)') = Cardinality(Waiting(Pill)) - 1 /\ Cardinality(Waiting(Pill)) \in Nat
      BY <1>4, <2>2
    <3> HIDE DEF Done
    <3>. QED  BY <1>1, <2>1, <3>3, <3>4 DEF PillPerWorker, AllSent
  <2>3. CASE x # Pill
    <3>1. {v \in Workers : wpc'[v] = "done"} = Done
      BY <1>1, <2>3 DEF ServerInv, TypeOK
    <3>2. Cardinality(Waiting(Pill)') = Cardinality(Waiting(Pill))
      BY <1>4, <2>3
    <3>3. Cardinality({v \in Workers : wpc'[v] = "done"}) = Cardinality(Done)
      BY <3>1
    <3> HIDE DEF Done
    <3>. QED  BY <1>1, <2>1, <3>2, <3>3 DEF PillPerWorker, AllSent
  <2>. QED  BY <2>2, <2>3
<1>12. OneOwner'
  <2> SUFFICES ASSUME NEW d \in Conns
               PROVE  /\ (hand' = d) <=> (conn'[d] = "accepted")
                      /\ Cardinality(Waiting(d)') = IF conn'[d] = "queued" THEN 1 ELSE 0
                      /\ Cardinality(Servers(d)') = IF conn'[d] = "serving" THEN 1 ELSE 0
    BY DEF OneOwner
  <2>1. /\ (hand = d) <=> (conn[d] = "accepted")
        /\ Cardinality(Waiting(d)) = IF conn[d] = "queued" THEN 1 ELSE 0
        /\ Cardinality(Servers(d)) = IF conn[d] = "serving" THEN 1 ELSE 0
    BY DEF ServerInv, OneOwner
  <2>2. Cardinality(Waiting(d)') =
           IF x = d THEN Cardinality(Waiting(d)) - 1 ELSE Cardinality(Waiting(d))
    BY <1>4
  <2>3. CASE x = Pill
    <3>1. x # d /\ Servers(d)' = Servers(d) /\ conn' = conn
      BY <1>1, <2>3 DEF Servers
    <3>. QED  BY <1>1, <2>1, <2>2, <3>1
  <2>4. CASE x # Pill /\ x # d
    <3>1. serving[w] \notin Conns
      BY <1>1 DEF ServerInv, WorkerHolds
    <3>2. Servers(d)' = Servers(d)
      BY <1>1, <2>4, <3>1 DEF Servers, ServerInv, TypeOK
    <3>3. conn'[d] = conn[d]
      BY <1>1, <2>4 DEF ServerInv, TypeOK
    <3>. QED  BY <1>1, <2>1, <2>2, <2>4, <3>2, <3>3
  <2>5. CASE x # Pill /\ x = d
    <3>1. Cardinality(Waiting(d)) # 0
      <4>1. 1 \in Waiting(d)
        BY <1>2, <2>5 DEF Waiting
      <4>. QED  BY <1>2, <1>3, <4>1, AtIsFinite
    <3>2. conn[d] = "queued"
      BY <2>1, <3>1
    <3>3. IsFiniteSet(Servers(d))
      <4>1. Servers(d) \in SUBSET Workers
        BY DEF Servers
      <4>. QED  BY <4>1, WorkersAreFinite, FS_Subset
    <3>4. Servers(d) = {}
      BY <2>1, <3>2, <3>3, FS_EmptySet
    <3>5. Servers(d)' = {w}
      BY <1>1, <2>5, <3>4 DEF Servers, ServerInv, TypeOK
    <3>6. conn'[d] = "serving" /\ hand' # d
      BY <1>1, <2>1, <2>5, <3>2 DEF ServerInv, TypeOK
    <3>7. Cardinality(Servers(d)') = 1
      BY <3>5, FS_Singleton
    <3>. QED  BY <2>1, <2>2, <2>5, <3>2, <3>6, <3>7
  <2>. QED  BY <2>3, <2>4, <2>5
<1>. QED  BY <1>5, <1>6, <1>7, <1>8, <1>9, <1>11, <1>12 DEF ServerInv

LEMMA ServedInv ==
    ASSUME ServerInv, NEW w \in Workers, Served(w)
    PROVE  ServerInv'
<1> USE NamesAreDistinct
<1> DEFINE c == serving[w]
<1>1. /\ wpc[w] = "serve" /\ c \in Conns /\ conn' = [conn EXCEPT ![c] = "closed"]
      /\ serving' = [serving EXCEPT ![w] = None] /\ wpc' = [wpc EXCEPT ![w] = "loop"]
      /\ UNCHANGED <<stop, registered, listening, mpc, hand, pills>>
      /\ UNCHANGED channelVars
  BY DEF Served, serverVars, ServerInv, WorkerHolds
<1>2. /\ serving \in [Workers -> Conns \cup {None}]
      /\ wpc \in [Workers -> {"unborn", "ready", "loop", "recv", "serve", "done"}]
      /\ conn \in [Conns -> {"away", "arrived", "accepted", "queued", "serving", "closed"}]
  BY DEF ServerInv, TypeOK
<1>3. TypeOK'
  BY <1>1, <1>2 DEF ServerInv, TypeOK, channelVars
<1>4. ChannelTypes' /\ MainHolds'
  BY <1>1 DEF ServerInv, ChannelTypes, MainHolds, channelVars
<1>5. WorkerHolds'
  BY <1>1, <1>2 DEF ServerInv, WorkerHolds, channelVars
<1>6. ConnectionsBeforePills'
  BY <1>1 DEF ServerInv, ConnectionsBeforePills, channelVars
<1>7. PillPerWorker'
  <2>1. {v \in Workers : wpc'[v] = "done"} = {v \in Workers : wpc[v] = "done"}
    BY <1>1, <1>2
  <2>2. Waiting(Pill)' = Waiting(Pill)
    BY <1>1 DEF Waiting, channelVars
  <2>. QED  BY <1>1, <2>1, <2>2 DEF ServerInv, PillPerWorker
<1>8. OneOwner'
  <2> SUFFICES ASSUME NEW d \in Conns
               PROVE  /\ (hand' = d) <=> (conn'[d] = "accepted")
                      /\ Cardinality(Waiting(d)') = IF conn'[d] = "queued" THEN 1 ELSE 0
                      /\ Cardinality(Servers(d)') = IF conn'[d] = "serving" THEN 1 ELSE 0
    BY DEF OneOwner
  <2>1. /\ (hand = d) <=> (conn[d] = "accepted")
        /\ Cardinality(Waiting(d)) = IF conn[d] = "queued" THEN 1 ELSE 0
        /\ Cardinality(Servers(d)) = IF conn[d] = "serving" THEN 1 ELSE 0
        /\ Waiting(d)' = Waiting(d) /\ hand' = hand
    BY <1>1 DEF ServerInv, OneOwner, Waiting, channelVars
  <2>2. IsFiniteSet(Servers(d))
    <3>1. Servers(d) \in SUBSET Workers
      BY DEF Servers
    <3>. QED  BY <3>1, WorkersAreFinite, FS_Subset
  <2>3. CASE d # c
    <3>1. Servers(d)' = Servers(d) /\ conn'[d] = conn[d]
      BY <1>1, <1>2, <2>3 DEF Servers
    <3>. QED  BY <2>1, <3>1
  <2>4. CASE d = c
    <3>1. w \in Servers(d)
      BY <2>4 DEF Servers
    <3>2. Cardinality(Servers(d)) # 0
      BY <2>2, <3>1, FS_EmptySet
    <3>3. conn[d] = "serving" /\ Cardinality(Servers(d)) = 1
      BY <2>1, <3>2
    <3>4. Servers(d)' = Servers(d) \ {w}
      BY <1>1, <1>2, <2>4 DEF Servers
    <3>5. Cardinality(Servers(d) \ {w}) = 0
      <4>1. Cardinality(Servers(d) \ {w}) = Cardinality(Servers(d)) - 1
        BY <2>2, <3>1, FS_RemoveElement
      <4>. QED  BY <3>3, <4>1
    <3>6. Cardinality(Servers(d)') = 0
      BY <3>4, <3>5
    <3>7. conn'[d] = "closed"
      BY <1>1, <1>2, <2>4
    <3>. QED  BY <2>1, <3>3, <3>6, <3>7
  <2>. QED  BY <2>3, <2>4
<1>. QED  BY <1>3, <1>4, <1>5, <1>6, <1>7, <1>8 DEF ServerInv

------------------------------------------------------------------------------
LEMMA InvInductive == ServerInv /\ [Next]_vars => ServerInv'
<1> SUFFICES ASSUME ServerInv, [Next]_vars PROVE ServerInv'
  OBVIOUS
<1>1. CASE MainStep
  BY <1>1, MainMovesInv, WorkerMovesInv, ConnMovesInv, SendBegins, SentInv, PoisonedInv
     DEF MainStep
<1>2. CASE AcceptError \/ Signal
  BY <1>2, MainMovesInv
<1>3. ASSUME NEW c \in Conns, Arrive(c) PROVE ServerInv'
  BY <1>3, ConnMovesInv
<1>4. ASSUME NEW w \in Workers, Start(w) \/ Receive(w) PROVE ServerInv'
  BY <1>4, WorkerMovesInv
<1>5. ASSUME NEW w \in Workers, Received(w) PROVE ServerInv'
  BY <1>5, ReceivedInv
<1>6. ASSUME NEW w \in Workers, Served(w) PROVE ServerInv'
  BY <1>6, ServedInv
<1>7. CASE UNCHANGED vars
  <2>1. TypeOK' /\ ChannelTypes' /\ MainHolds' /\ WorkerHolds'
    BY <1>7 DEF ServerInv, TypeOK, ChannelTypes, MainHolds, WorkerHolds, vars
  <2>2. OneOwner' /\ ConnectionsBeforePills' /\ PillPerWorker'
    BY <1>7 DEF ServerInv, OneOwner, ConnectionsBeforePills, PillPerWorker, Waiting, Servers, vars
  <2>. QED  BY <2>1, <2>2 DEF ServerInv
<1>. QED  BY <1>1, <1>2, <1>3, <1>4, <1>5, <1>6, <1>7 DEF Next

LEMMA InvAlways == SafeSpec => []ServerInv
  BY InvInit, InvInductive, PTL DEF SafeSpec

\* The variables keep their types, for any workers, connections and backlog.
THEOREM ServerTypeCorrect == SafeSpec => []TypeOK
<1>1. ServerInv => TypeOK
  BY DEF ServerInv
<1>. QED  BY <1>1, InvAlways, PTL

\* An accepted connection is in one place, and its descriptor is closed once, whoever
\* is interrupted by whom.
THEOREM ConnectionHasOneOwner == SafeSpec => []OneOwner
<1>1. ServerInv => OneOwner
  BY DEF ServerInv
<1>. QED  BY <1>1, InvAlways, PTL

\* No accepted client is left in the channel behind a pill.
THEOREM ConnectionsComeFirst == SafeSpec => []ConnectionsBeforePills
<1>1. ServerInv => ConnectionsBeforePills
  BY DEF ServerInv
<1>. QED  BY <1>1, InvAlways, PTL

\* As many pills as workers are sent, each taken by a worker of its own, whether or not
\* the worker had been started.
THEOREM EveryWorkerGetsAPill == SafeSpec => []PillPerWorker
<1>1. ServerInv => PillPerWorker
  BY DEF ServerInv
<1>. QED  BY <1>1, InvAlways, PTL

------------------------------------------------------------------------------
(* The channel. *)

\* A step of the server is a step of the channel's specification or leaves it alone.
LEMMA ChannelStep ==
    ASSUME ServerInv, [Next]_vars
    PROVE  [Channel!Next]_channelVars
<1> SUFFICES Channel!Next \/ UNCHANGED channelVars
  OBVIOUS
<1>1. CASE Send \/ Sent \/ Poison \/ Poisoned
  <2>1. CASE Send
    <3>1. hand \in Conns
      BY <2>1 DEF Send, ServerInv, MainHolds, Holding
    <3>. QED  BY <2>1, <3>1 DEF Send, Channel!Next
  <2>2. CASE Sent \/ Poisoned
    BY <2>2 DEF Sent, Poisoned, Channel!Next
  <2>3. CASE Poison
    BY <2>3 DEF Poison, Channel!Next
  <2>. QED  BY <1>1, <2>1, <2>2, <2>3
<1>2. ASSUME NEW w \in Workers, Receive(w) \/ Received(w)
      PROVE  Channel!Next
  BY <1>2 DEF Receive, Received, Channel!Next
<1>3. ASSUME NEW w \in Workers, Start(w) \/ Served(w)
      PROVE  UNCHANGED channelVars
  BY <1>3 DEF Start, Served
<1>4. ASSUME NEW c \in Conns, Accept(c) \/ Arrive(c)
      PROVE  UNCHANGED channelVars
  BY <1>4 DEF Accept, Arrive
<1>5. CASE \/ Register \/ SpawnWorker \/ TestStop \/ EnterAccept \/ AfterError \/ Handshake
           \/ Unregister \/ CloseListener \/ DropQueue \/ Exit \/ AcceptError \/ Signal
  BY <1>5 DEF Register, SpawnWorker, TestStop, EnterAccept, AfterError, Handshake,
         Unregister, CloseListener, DropQueue, Exit, AcceptError, Signal
<1>6. CASE UNCHANGED vars
  BY <1>6 DEF vars, channelVars
<1>. QED  BY <1>1, <1>2, <1>3, <1>4, <1>5, <1>6 DEF Next, MainStep

\* The main thread and the workers use the channel as ChannelSpec lets threads use one:
\* one call at a time, values of its element type only.
THEOREM ServerUsesTheChannel == SafeSpec => Channel!SafeSpec
<1>1. Init => Channel!Init
  BY DEF Init
<1>2. ServerInv /\ [Next]_vars => [Channel!Next]_channelVars
  BY ChannelStep
<1>3. [Channel!Next]_channelVars <=> [Channel!Next]_Channel!vars
  BY DEF channelVars, Channel!vars
<1>. QED  BY <1>1, <1>2, <1>3, InvAlways, PTL DEF SafeSpec, Channel!SafeSpec

------------------------------------------------------------------------------
(* The stop signal. *)

\* Until the signal comes the socket it will close is registered, and no worker is left
\* to be spawned once the accept loop begins.
StopInv ==
    /\ mpc \notin {"listening"} \cup AllSent /\ ~stop => registered
    /\ mpc = "accept" /\ stop => ~listening
    /\ stop => mpc # "accepting"
    /\ mpc = "listening" => \A w \in Workers : wpc[w] = "unborn"
    /\ mpc = "spawn" => \E w \in Workers : wpc[w] = "unborn"
    /\ mpc \notin {"listening", "spawn"} => \A w \in Workers : wpc[w] # "unborn"

\* Before the start no worker is born and no stop has come.
LEMMA StopInvInit == Workers # {} /\ Init => StopInv
  BY DEF Init, StopInv

\* Only Register and Unregister change what is registered, only a spawn and a step of a
\* worker change where the workers are.
LEMMA StopInvInductive ==
    ASSUME ServerInv, StopInv, Workers # {}, [Next]_vars
    PROVE  StopInv'
<1>0. wpc \in [Workers -> {"unborn", "ready", "loop", "recv", "serve", "done"}]
      /\ stop \in BOOLEAN
  BY Zenon DEF ServerInv, TypeOK
<1>1. CASE \/ Register \/ TestStop \/ EnterAccept \/ AfterError \/ AcceptError \/ Handshake
           \/ Send \/ Sent \/ Poison \/ Poisoned \/ Unregister \/ CloseListener
           \/ DropQueue \/ Exit
  <2>1. wpc' = wpc /\ stop' = stop
    BY <1>1 DEF Register, TestStop, EnterAccept, AfterError, AcceptError, Handshake, Send, Sent,
           Poison, Poisoned, Unregister, CloseListener, DropQueue, Exit, serverVars
  <2>2. CASE Register \/ Unregister \/ CloseListener \/ DropQueue \/ Exit
    BY <1>0, <2>1, <2>2 DEF Register, Unregister, CloseListener, DropQueue, Exit, StopInv,
           AllSent, serverVars
  <2>3. CASE TestStop \/ EnterAccept
    BY <1>0, <2>1, <2>3 DEF TestStop, EnterAccept, StopInv, AllSent, serverVars
  <2>4. CASE \/ AfterError \/ AcceptError \/ Handshake \/ Send \/ Sent \/ Poison \/ Poisoned
    <3>1. /\ registered' = registered /\ listening' = listening
          /\ mpc \notin {"listening", "spawn"} \cup AllSent
          /\ mpc' \notin {"listening", "spawn", "accept", "accepting"}
      BY <2>4 DEF AfterError, AcceptError, Handshake, Send, Sent, Poison, Poisoned, serverVars,
             AllSent
    <3>. QED  BY <2>1, <3>1 DEF StopInv
  <2>. QED  BY <1>1, <2>2, <2>3, <2>4
<1>2. CASE SpawnWorker
  <2>1. PICK w \in Workers : /\ wpc[w] = "unborn" /\ wpc' = [wpc EXCEPT ![w] = "ready"]
    BY <1>2 DEF SpawnWorker
  <2>2. /\ mpc = "spawn" /\ UNCHANGED <<stop, registered, listening>>
        /\ mpc' = IF \E v \in Workers : wpc'[v] = "unborn" THEN "spawn" ELSE "loop"
    BY <1>2 DEF SpawnWorker, serverVars
  <2>. QED  BY <2>2 DEF StopInv, AllSent
<1>3. ASSUME NEW c \in Conns, Accept(c) \/ Arrive(c) PROVE StopInv'
  <2>1. /\ UNCHANGED <<stop, registered, listening, wpc>>
        /\ \/ mpc' = mpc
           \/ mpc = "accepting" /\ mpc' \in {"handshake", "send"}
    BY <1>3 DEF Accept, Arrive, serverVars
  <2>. QED  BY <2>1 DEF StopInv, AllSent
<1>4. CASE Signal
  <2>1. /\ wpc' = wpc /\ stop' = TRUE /\ listening' = (listening /\ ~registered)
        /\ mpc' = IF mpc = "accepting" THEN "failed" ELSE mpc
    BY <1>4 DEF Signal
  <2>2. mpc = "accept" => ~listening'
    BY <2>1 DEF StopInv, AllSent
  <2>. QED  BY <2>1, <2>2 DEF StopInv, AllSent
<1>5. ASSUME NEW w \in Workers, Start(w) \/ Receive(w) \/ Received(w) \/ Served(w) PROVE StopInv'
  <2>1. PICK p \in {"loop", "recv", "serve", "done"} : wpc' = [wpc EXCEPT ![w] = p]
    BY <1>5 DEF Start, Receive, Received, Served
  <2>2. wpc[w] # "unborn" /\ UNCHANGED <<stop, registered, listening, mpc>>
    BY <1>5 DEF Start, Receive, Received, Served, serverVars
  <2>3. \A v \in Workers : wpc'[v] = "unborn" <=> wpc[v] = "unborn"
    BY <1>0, <2>1, <2>2
  <2>. QED  BY <2>2, <2>3 DEF StopInv
<1>6. CASE UNCHANGED vars
  BY <1>6 DEF vars, StopInv
<1>. QED  BY <1>1, <1>2, <1>3, <1>4, <1>5, <1>6 DEF Next, MainStep

\* Worker w can take a step.
WorkerGoesOn(w) ==
    \/ wpc[w] \in {"loop", "serve"}
    \/ wpc[w] = "recv" /\ queue # <<>>
    \/ wpc[w] = "ready" /\ Cardinality(Started) < PoolSize

\* A thread that waits in accept is told of the stop, and one that waits for room in the
\* channel, for a connection or for a pill, waits for a worker that can go on.
NothingHoldsTheStop ==
    /\ stop => mpc # "accepting" /\ (mpc = "accept" => ~listening)
    /\ mpc \in {"sending", "poisoning"} =>
          Len(queue) < Backlog \/ \E w \in Workers : WorkerGoesOn(w)

\* Were every worker done, or none ever given a thread, the pills in the channel and the
\* pills taken would be more than were sent.
LEMMA FullChannelDrains ==
    ASSUME ServerInv, StopInv, Workers # {}
    PROVE  NothingHoldsTheStop
<1>1. stop => mpc # "accepting" /\ (mpc = "accept" => ~listening)
  BY DEF StopInv
<1>2. ASSUME mpc \in {"sending", "poisoning"}, ~(Len(queue) < Backlog),
             \A w \in Workers : ~WorkerGoesOn(w)
      PROVE  FALSE
  <2>1. queue # <<>>
    BY <1>2, SizesArePositive DEF ServerInv, TypeOK
  <2>2. \A w \in Workers : wpc[w] \in {"ready", "done"}
    BY <1>2, <2>1 DEF WorkerGoesOn, StopInv, ServerInv, TypeOK
  <2>3. Started = {}
    BY <2>2 DEF Started
  <2>4. Cardinality(Started) < PoolSize
    BY <2>3, FS_EmptySet, SizesArePositive
  <2>5. \A w \in Workers : wpc[w] = "done"
    BY <1>2, <2>2, <2>4 DEF WorkerGoesOn
  <2>6. {w \in Workers : wpc[w] = "done"} = Workers
    BY <2>5
  <2>7. pills = Cardinality(Waiting(Pill)) + Cardinality(Workers)
    BY <2>6 DEF ServerInv, PillPerWorker
  <2>8. Cardinality(Waiting(Pill)) \in Nat
    BY WaitingIsAt, AtIsFinite DEF ServerInv, TypeOK
  <2>9. Cardinality(Workers) \in Nat /\ Cardinality(Workers) # 0
    BY WorkersAreFinite, FS_CardinalityType, FS_EmptySet
  <2>10. pills = 0 \/ pills < Cardinality(Workers)
    BY <1>2 DEF ServerInv, MainHolds, Stopping
  <2>. QED  BY <2>7, <2>8, <2>9, <2>10
<1>. QED  BY <1>1, <1>2 DEF NothingHoldsTheStop

\* Nothing the server waits for keeps it from its stop, if it has a worker: a signal closes
\* the socket main is to accept on, and a full channel always has a worker to drain it,
\* even when the pool has fewer threads than there are workers.
THEOREM TheStopIsHeard ==
    ASSUME Workers # {}
    PROVE  SafeSpec => []NothingHoldsTheStop
<1>1. Init => StopInv
  BY StopInvInit
<1>2. ServerInv /\ StopInv /\ [Next]_vars => StopInv'
  BY StopInvInductive
<1>3. ServerInv /\ StopInv => NothingHoldsTheStop
  BY FullChannelDrains
<1>. QED  BY <1>1, <1>2, <1>3, InvAlways, PTL DEF SafeSpec
==============================================================================
