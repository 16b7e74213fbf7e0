------------------------------ MODULE BuxChannel ------------------------------
(***************************************************************************)
(* The bounded channel of the Bux C runtime (rt/runtime.c, bux_channel_new *)
(* and its siblings): a ring buffer under one mutex, with the condition    *)
(* variables not_empty and not_full.  Each critical section is one action: *)
(* it runs under ch->mutex from lock to unlock, or to the                  *)
(* pthread_cond_wait that releases the mutex.                              *)
(*                                                                         *)
(* A thread in "send" or "recv" is about to take the mutex and evaluate    *)
(* the call's loop condition, on entry or after a wakeup: the code does    *)
(* the same thing in both cases.  One in "sendWait" / "recvWait" sleeps on *)
(* not_full / not_empty.                                                   *)
(*                                                                         *)
(* An operator marked (slip) is an action with a plausible programming     *)
(* mistake in it.  No specification here uses one: it is there to be put   *)
(* in the place of the action, and some property must then fail.           *)
(***************************************************************************)
EXTENDS Integers, Sequences, FiniteSets

CONSTANTS
    Threads,           \* OS threads that hold the channel handle
    Elem,              \* the values of the channel's element type
    NoElem,            \* no value; also an unwritten byte of the buffer
    RequestedCapacity  \* the argument of Channel_New

ASSUME ThreadsFinite == IsFiniteSet(Threads)
ASSUME NoElemIsNoValue == NoElem \notin Elem
ASSUME RequestIsInt == RequestedCapacity \in Int

VARIABLES
    buffer,   \* ch->buffer, one value per slot
    head,     \* ch->head: the slot to receive from
    tail,     \* ch->tail: the slot to send to
    count,    \* ch->count
    closed,   \* ch->closed
    pc,       \* where each thread is in its call
    arg,      \* the value a sending thread passes (elem)
    out       \* what the thread's last receive stored (*out)

vars == <<buffer, head, tail, count, closed, pc, arg, out>>

\* bux_channel_new: a request for no slots, or fewer, gets one.
Capacity == IF RequestedCapacity <= 0 THEN 1 ELSE RequestedCapacity

Slots == 0..(Capacity - 1)

\* Where a thread can be: between calls, about to take the mutex in a call, or
\* asleep on the call's condition variable.
Places == {"idle", "send", "sendWait", "recv", "recvWait"}

Init ==
    /\ buffer = [i \in Slots |-> NoElem]
    /\ head = 0
    /\ tail = 0
    /\ count = 0
    /\ closed = FALSE
    /\ pc  = [t \in Threads |-> "idle"]
    /\ arg = [t \in Threads |-> NoElem]
    /\ out = [t \in Threads |-> NoElem]

------------------------------------------------------------------------------
\* pthread_cond_signal: if a thread sleeps at "from", one of them, whichever
\* the system picks, goes back to evaluate its loop condition.
Signal(p, from, to) ==
    IF \E w \in Threads : p[w] = from
    THEN {[p EXCEPT ![w] = to] : w \in {x \in Threads : p[x] = from}}
    ELSE {p}

\* (slip) Only not_empty is broadcast: senders sleep on.
WakeReceivers(p) == [t \in Threads |-> IF p[t] = "recvWait" THEN "recv" ELSE p[t]]

\* pthread_cond_broadcast on both condition variables.
WakeAll(p) ==
    [t \in Threads |-> CASE p[t] = "sendWait" -> "send"
                         [] p[t] = "recvWait" -> "recv"
                         [] OTHER             -> p[t]]

BeginSend(t, e) ==
    /\ pc[t] = "idle"
    /\ pc' = [pc EXCEPT ![t] = "send"]
    /\ arg' = [arg EXCEPT ![t] = e]
    /\ UNCHANGED <<buffer, head, tail, count, closed, out>>

\* (slip) The loop condition without the test of closed.
SendBlockWhenClosed(t) ==
    /\ pc[t] = "send"
    /\ count >= Capacity
    /\ pc' = [pc EXCEPT ![t] = "sendWait"]
    /\ UNCHANGED <<buffer, head, tail, count, closed, arg, out>>

\* while (count >= capacity && !closed) pthread_cond_wait(&not_full, &mutex)
SendBlock(t) ==
    /\ pc[t] = "send"
    /\ count >= Capacity
    /\ ~closed
    /\ pc' = [pc EXCEPT ![t] = "sendWait"]
    /\ UNCHANGED <<buffer, head, tail, count, closed, arg, out>>

\* A closed channel takes nothing more: the value is silently dropped.
SendClosed(t) ==
    /\ pc[t] = "send"
    /\ closed
    /\ pc' = [pc EXCEPT ![t] = "idle"]
    /\ arg' = [arg EXCEPT ![t] = NoElem]
    /\ UNCHANGED <<buffer, head, tail, count, closed, out>>

\* (slip) No wrap-around of the tail.
SendPutNoWrap(t) ==
    /\ pc[t] = "send"
    /\ count < Capacity
    /\ ~closed
    /\ buffer' = [buffer EXCEPT ![tail] = arg[t]]
    /\ tail' = tail + 1
    /\ count' = count + 1
    /\ pc' \in Signal([pc EXCEPT ![t] = "idle"], "recvWait", "recv")
    /\ arg' = [arg EXCEPT ![t] = NoElem]
    /\ UNCHANGED <<head, closed, out>>

\* (slip) No pthread_cond_signal(&not_empty).
SendPutNoSignal(t) ==
    /\ pc[t] = "send"
    /\ count < Capacity
    /\ ~closed
    /\ buffer' = [buffer EXCEPT ![tail] = arg[t]]
    /\ tail' = (tail + 1) % Capacity
    /\ count' = count + 1
    /\ pc' = [pc EXCEPT ![t] = "idle"]
    /\ arg' = [arg EXCEPT ![t] = NoElem]
    /\ UNCHANGED <<head, closed, out>>

\* (slip) After the wait, closed is not looked at again.
SendPutWhenClosed(t) ==
    /\ pc[t] = "send"
    /\ count < Capacity
    /\ buffer' = [buffer EXCEPT ![tail] = arg[t]]
    /\ tail' = (tail + 1) % Capacity
    /\ count' = count + 1
    /\ pc' \in Signal([pc EXCEPT ![t] = "idle"], "recvWait", "recv")
    /\ arg' = [arg EXCEPT ![t] = NoElem]
    /\ UNCHANGED <<head, closed, out>>

SendPut(t) ==
    /\ pc[t] = "send"
    /\ count < Capacity
    /\ ~closed
    /\ buffer' = [buffer EXCEPT ![tail] = arg[t]]
    /\ tail' = (tail + 1) % Capacity
    /\ count' = count + 1
    /\ pc' \in Signal([pc EXCEPT ![t] = "idle"], "recvWait", "recv")
    /\ arg' = [arg EXCEPT ![t] = NoElem]
    /\ UNCHANGED <<head, closed, out>>

\* Channel_Recv_Ok clears nothing in *out; NoElem stands for "not stored yet".
BeginRecv(t) ==
    /\ pc[t] = "idle"
    /\ pc' = [pc EXCEPT ![t] = "recv"]
    /\ out' = [out EXCEPT ![t] = NoElem]
    /\ UNCHANGED <<buffer, head, tail, count, closed, arg>>

RecvBlock(t) ==
    /\ pc[t] = "recv"
    /\ count = 0
    /\ ~closed
    /\ pc' = [pc EXCEPT ![t] = "recvWait"]
    /\ UNCHANGED <<buffer, head, tail, count, closed, arg, out>>

\* return 0: the channel is empty and closed.
RecvClosed(t) ==
    /\ pc[t] = "recv"
    /\ count = 0
    /\ closed
    /\ pc' = [pc EXCEPT ![t] = "idle"]
    /\ UNCHANGED <<buffer, head, tail, count, closed, arg, out>>

\* (slip) No pthread_cond_signal(&not_full).
RecvTakeNoSignal(t) ==
    /\ pc[t] = "recv"
    /\ count # 0
    /\ out' = [out EXCEPT ![t] = buffer[head]]
    /\ head' = (head + 1) % Capacity
    /\ count' = count - 1
    /\ pc' = [pc EXCEPT ![t] = "idle"]
    /\ UNCHANGED <<buffer, tail, closed, arg>>

\* (slip) The head stays where it is.
RecvTakeNoAdvance(t) ==
    /\ pc[t] = "recv"
    /\ count # 0
    /\ out' = [out EXCEPT ![t] = buffer[head]]
    /\ count' = count - 1
    /\ pc' \in Signal([pc EXCEPT ![t] = "idle"], "sendWait", "send")
    /\ UNCHANGED <<buffer, head, tail, closed, arg>>

\* (slip) Reads the slot the next send will use.
RecvTakeAtTail(t) ==
    /\ pc[t] = "recv"
    /\ count # 0
    /\ out' = [out EXCEPT ![t] = buffer[tail]]
    /\ head' = (head + 1) % Capacity
    /\ count' = count - 1
    /\ pc' \in Signal([pc EXCEPT ![t] = "idle"], "sendWait", "send")
    /\ UNCHANGED <<buffer, tail, closed, arg>>

RecvTake(t) ==
    /\ pc[t] = "recv"
    /\ count # 0
    /\ out' = [out EXCEPT ![t] = buffer[head]]
    /\ head' = (head + 1) % Capacity
    /\ count' = count - 1
    /\ pc' \in Signal([pc EXCEPT ![t] = "idle"], "sendWait", "send")
    /\ UNCHANGED <<buffer, tail, closed, arg>>

Close(t) ==
    /\ pc[t] = "idle"
    /\ closed' = TRUE
    /\ pc' = WakeAll(pc)
    /\ UNCHANGED <<buffer, head, tail, count, arg, out>>

\* POSIX lets pthread_cond_wait return without a signal.
SpuriousWakeup(t) ==
    /\ \/ /\ pc[t] = "sendWait"
          /\ pc' = [pc EXCEPT ![t] = "send"]
       \/ /\ pc[t] = "recvWait"
          /\ pc' = [pc EXCEPT ![t] = "recv"]
    /\ UNCHANGED <<buffer, head, tail, count, closed, arg, out>>

\* The step a thread inside a call takes when the scheduler lets it run.
Advance(t) ==
    \/ SendBlock(t) \/ SendClosed(t) \/ SendPut(t)
    \/ RecvBlock(t) \/ RecvClosed(t) \/ RecvTake(t)

Next ==
    \E t \in Threads :
        \/ \E e \in Elem : BeginSend(t, e)
        \/ BeginRecv(t)
        \/ Advance(t)
        \/ Close(t)
        \/ SpuriousWakeup(t)

\* The kernel runs every runnable thread and every critical section is
\* finite, so a thread that is not asleep on a condition variable gets on.
\* Nothing obliges a thread to start a call, to close, or to wake spuriously.
Fairness == \A t \in Threads : WF_vars(Advance(t))

SafeSpec == Init /\ [][Next]_vars

Spec == SafeSpec /\ Fairness

------------------------------------------------------------------------------
\* Types, and the bounds every index into ch->buffer must respect.
TypeOK ==
    /\ buffer \in [Slots -> Elem \cup {NoElem}]
    /\ head \in Slots
    /\ tail \in Slots
    /\ count \in 0..Capacity
    /\ closed \in BOOLEAN
    /\ pc \in [Threads -> Places]
    /\ arg \in [Threads -> Elem \cup {NoElem}]
    /\ out \in [Threads -> Elem \cup {NoElem}]

At(where) == {t \in Threads : pc[t] = where}

\* The three counters of the ring agree, so that a full and an empty ring,
\* whose head and tail are equal, are told apart; and every slot between head
\* and tail holds a value some send put there, never an unwritten byte.
RingConsistent ==
    /\ tail = (head + count) % Capacity
    /\ \A i \in 0..(count - 1) : buffer[(head + i) % Capacity] \in Elem
    /\ \A t \in Threads : pc[t] \in {"send", "sendWait"} => arg[t] \in Elem

\* bux_channel_send wakes one receiver per value (signal, not broadcast).  While
\* a receiver sleeps, at least as many receivers are on their way to the
\* mutex as there are values: no value is left with everybody asleep, even
\* when a late receiver takes the value the woken one was meant to have.
NoLostRecvWakeup ==
    At("recvWait") # {} => Cardinality(At("recv")) >= count

\* The mirror image for not_full: while a sender sleeps, there are at least as
\* many senders on their way as free slots.
NoLostSendWakeup ==
    At("sendWait") # {} => Cardinality(At("send")) >= Capacity - count

\* Once closed, nobody is asleep in the channel, and nobody falls asleep again.
ClosedWakesAll ==
    closed => At("sendWait") = {} /\ At("recvWait") = {}

\* After Channel_Close no value enters the channel, although a sender may have
\* been waiting for room when it was closed; what is buffered can only drain.
NoSendAfterClose == [][closed => closed' /\ count' <= count]_vars

\* Every call on a closed channel returns, whatever the other threads do.
ClosedCallsReturn ==
    \A t \in Threads : (closed /\ pc[t] # "idle") ~> (pc[t] = "idle")

------------------------------------------------------------------------------
\* The refinement mapping: the queue is the run of count slots from head, and
\* a thread asleep in a call is still in that call.
QueueOf == [i \in 1..count |-> buffer[(head + i - 1) % Capacity]]

CallOf == [t \in Threads |-> CASE pc[t] = "sendWait" -> "send"
                               [] pc[t] = "recvWait" -> "recv"
                               [] OTHER              -> pc[t]]

Abstract == INSTANCE ChannelSpec WITH queue <- QueueOf, call <- CallOf

\* The ring buffer, the mutex and the two condition variables implement a
\* bounded first-in first-out queue, its progress included.
ImplementsChannel == Abstract!Spec
==============================================================================
