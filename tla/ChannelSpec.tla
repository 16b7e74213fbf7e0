----------------------------- MODULE ChannelSpec -----------------------------
(***************************************************************************)
(* What a Bux channel promises its callers: a bounded first-in first-out   *)
(* queue that can be closed once.  It says nothing of locks, condition     *)
(* variables or ring buffers; BuxChannel (rt/runtime.c) is shown to        *)
(* implement it.                                                           *)
(***************************************************************************)
EXTENDS Integers, Sequences

CONSTANTS
    Threads,   \* OS threads that hold the channel handle
    Elem,      \* the values a channel of this element type can carry
    NoElem,    \* "no value": an argument or result that is not there
    Capacity   \* slots of the channel

VARIABLES
    queue,     \* sent and not yet received values, oldest first
    closed,    \* Channel_Close has been called
    call,      \* the call each thread is in: "idle", "send" or "recv"
    arg,       \* the value a thread in "send" wants to enqueue
    out        \* what the thread's last Channel_Recv_Ok delivered

vars == <<queue, closed, call, arg, out>>

Init ==
    /\ queue = <<>>
    /\ closed = FALSE
    /\ call = [t \in Threads |-> "idle"]
    /\ arg  = [t \in Threads |-> NoElem]
    /\ out  = [t \in Threads |-> NoElem]

BeginSend(t, e) ==
    /\ call[t] = "idle"
    /\ call' = [call EXCEPT ![t] = "send"]
    /\ arg' = [arg EXCEPT ![t] = e]
    /\ UNCHANGED <<queue, closed, out>>

BeginRecv(t) ==
    /\ call[t] = "idle"
    /\ call' = [call EXCEPT ![t] = "recv"]
    /\ out' = [out EXCEPT ![t] = NoElem]
    /\ UNCHANGED <<queue, closed, arg>>

\* A send returns once there is room, or at once when the channel is closed:
\* the value is then dropped.
Enqueue(t) ==
    /\ call[t] = "send"
    /\ \/ /\ ~closed
          /\ Len(queue) < Capacity
          /\ queue' = Append(queue, arg[t])
       \/ /\ closed
          /\ UNCHANGED queue
    /\ call' = [call EXCEPT ![t] = "idle"]
    /\ arg' = [arg EXCEPT ![t] = NoElem]
    /\ UNCHANGED <<closed, out>>

\* A receive returns the oldest value; "no value" only when the channel is
\* closed and everything sent before has been received.
Dequeue(t) ==
    /\ call[t] = "recv"
    /\ \/ /\ queue # <<>>
          /\ out' = [out EXCEPT ![t] = Head(queue)]
          /\ queue' = Tail(queue)
       \/ /\ queue = <<>>
          /\ closed
          /\ UNCHANGED <<queue, out>>
    /\ call' = [call EXCEPT ![t] = "idle"]
    /\ UNCHANGED <<closed, arg>>

Close(t) ==
    /\ call[t] = "idle"
    /\ closed' = TRUE
    /\ UNCHANGED <<queue, call, arg, out>>

Next ==
    \E t \in Threads :
        \/ \E e \in Elem : BeginSend(t, e)
        \/ BeginRecv(t)
        \/ Enqueue(t)
        \/ Dequeue(t)
        \/ Close(t)

\* The channel as a whole never stalls: some sender goes on while there is
\* room, some receiver while there is a value.  Which one is not promised.
Fairness ==
    /\ WF_vars(\E t \in Threads : Enqueue(t))
    /\ WF_vars(\E t \in Threads : Dequeue(t))

SafeSpec == Init /\ [][Next]_vars

Spec == SafeSpec /\ Fairness
==============================================================================
