----------------------------- MODULE RunQueueSpec -----------------------------
(***************************************************************************)
(* What a worker's run queue promises: a sequence that its owner uses as a *)
(* stack and that thieves take from at the other end.  This is the queue   *)
(* that GreenScheduler uses.                                               *)
(***************************************************************************)
EXTENDS Sequences, SequencesExt

CONSTANTS Workers, Tasks, None

VARIABLES
    queue,  \* the run queue of each worker, head first
    took    \* what the last pop or steal returned

Init ==
    /\ queue = [w \in Workers |-> <<>>]
    /\ took = None

Push(w, t) ==
    /\ queue' = [queue EXCEPT ![w] = <<t>> \o @]
    /\ UNCHANGED took

Pop(w) ==
    /\ queue[w] # <<>>
    /\ took' = Head(queue[w])
    /\ queue' = [queue EXCEPT ![w] = Tail(@)]

Steal(w) ==
    /\ queue[w] # <<>>
    /\ took' = Last(queue[w])
    /\ queue' = [queue EXCEPT ![w] = Front(@)]

TakeNothing(w) ==
    /\ queue[w] = <<>>
    /\ took' = None
    /\ UNCHANGED queue

Next ==
    \E w \in Workers :
        \/ \E t \in Tasks : Push(w, t)
        \/ Pop(w) \/ Steal(w) \/ TakeNothing(w)

Spec == Init /\ [][Next]_<<queue, took>>
==============================================================================
