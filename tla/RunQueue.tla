------------------------------- MODULE RunQueue -------------------------------
(***************************************************************************)
(* The run queues of the green-thread workers as rt/runtime.c stores them: *)
(* a singly linked list through BuxTask.next, with a head, a tail and a    *)
(* count.  Each operation runs under the queue's lock.  It implements the  *)
(* sequence of RunQueueSpec, which GreenScheduler uses in its place.       *)
(*                                                                         *)
(* An operator marked (slip) is an action with a plausible programming     *)
(* mistake in it.  No specification here uses one: it is there to be put   *)
(* in the place of the action, and some property must then fail.           *)
(***************************************************************************)
EXTENDS Integers, Sequences, FiniteSets

CONSTANTS
    Workers,  \* owners of a queue
    Tasks,    \* BuxTask blocks
    None      \* NULL

ASSUME QueueAssumption == IsFiniteSet(Tasks) /\ None \notin Tasks

VARIABLES
    queue_head, queue_tail, queue_count,  \* of each worker's BuxScheduler
    next,                                 \* BuxTask.next
    took                                  \* what the last pop or steal returned

vars == <<queue_head, queue_tail, queue_count, next, took>>

Init ==
    /\ queue_head = [w \in Workers |-> None]
    /\ queue_tail = [w \in Workers |-> None]
    /\ queue_count = [w \in Workers |-> 0]
    /\ next = [t \in Tasks |-> None]
    /\ took = None

\* The list from a block on, by following the links: at most every block once.
ListFrom(links, first) ==
    LET walk[n \in 0..Cardinality(Tasks)] ==
            [t \in Tasks \cup {None} |->
                IF t = None \/ n = 0 THEN <<>> ELSE <<t>> \o walk[n - 1][links[t]]]
    IN  walk[Cardinality(Tasks)][first]

ListOf(w) == ListFrom(next, queue_head[w])

OnList(t) == \E w \in Workers : \E i \in 1..Len(ListOf(w)) : ListOf(w)[i] = t

------------------------------------------------------------------------------
\* The scheduler pushes a task that is in nobody's queue: a new one, or the one
\* the worker has just come back from (GreenScheduler!OnePlace).
Push(w, t) ==
    /\ ~OnList(t)
    /\ next' = [next EXCEPT ![t] = queue_head[w]]
    /\ queue_head' = [queue_head EXCEPT ![w] = t]
    /\ queue_tail' = [queue_tail EXCEPT ![w] = IF @ = None THEN t ELSE @]
    /\ queue_count' = [queue_count EXCEPT ![w] = @ + 1]
    /\ UNCHANGED took

\* (slip) The tail still points to the task when the queue is empty.
PopKeepsTail(w) ==
    /\ queue_head[w] # None
    /\ LET task == queue_head[w]
       IN  /\ queue_head' = [queue_head EXCEPT ![w] = next[task]]
           /\ next' = [next EXCEPT ![task] = None]
           /\ queue_count' = [queue_count EXCEPT ![w] = @ - 1]
           /\ took' = task
    /\ UNCHANGED queue_tail

Pop(w) ==
    /\ queue_head[w] # None
    /\ LET task == queue_head[w]
       IN  /\ queue_head' = [queue_head EXCEPT ![w] = next[task]]
           /\ queue_tail' = [queue_tail EXCEPT ![w] = IF next[task] = None THEN None ELSE @]
           /\ next' = [next EXCEPT ![task] = None]
           /\ queue_count' = [queue_count EXCEPT ![w] = @ - 1]
           /\ took' = task

\* bux_queue_steal with two tasks or more: the walk from the head stops at the
\* block before the tail, which becomes the tail.
StealTail(w) ==
    /\ queue_tail[w] # None
    /\ queue_tail[w] # queue_head[w]
    /\ \E prev \in Tasks :
          /\ \E i \in 1..Len(ListOf(w)) : ListOf(w)[i] = prev
          /\ next[prev] = queue_tail[w]
          /\ queue_tail' = [queue_tail EXCEPT ![w] = prev]
          /\ next' = [next EXCEPT ![prev] = None]
    /\ queue_count' = [queue_count EXCEPT ![w] = @ - 1]
    /\ took' = queue_tail[w]
    /\ UNCHANGED queue_head

\* (slip) The head still points to the stolen task.
StealOnlyKeepsHead(w) ==
    /\ queue_tail[w] # None
    /\ queue_tail[w] = queue_head[w]
    /\ queue_tail' = [queue_tail EXCEPT ![w] = None]
    /\ queue_count' = [queue_count EXCEPT ![w] = @ - 1]
    /\ took' = queue_head[w]
    /\ UNCHANGED <<queue_head, next>>

\* bux_queue_steal of the only task.
StealOnly(w) ==
    /\ queue_tail[w] # None
    /\ queue_tail[w] = queue_head[w]
    /\ queue_head' = [queue_head EXCEPT ![w] = None]
    /\ queue_tail' = [queue_tail EXCEPT ![w] = None]
    /\ queue_count' = [queue_count EXCEPT ![w] = @ - 1]
    /\ took' = queue_head[w]
    /\ UNCHANGED next

\* A pop reads the head to see that the queue is empty, a steal the tail.
FindNothing(w) ==
    /\ queue_head[w] = None \/ queue_tail[w] = None
    /\ took' = None
    /\ UNCHANGED <<queue_head, queue_tail, queue_count, next>>

Next ==
    \E w \in Workers :
        \/ \E t \in Tasks : Push(w, t)
        \/ Pop(w) \/ StealTail(w) \/ StealOnly(w) \/ FindNothing(w)

Spec == Init /\ [][Next]_vars

------------------------------------------------------------------------------
\* Owner and thieves work on the two ends of one list, and on its only block
\* when the ends meet: head, tail, count and the links still describe one
\* list, and a task that is on no list points nowhere, so that a later push
\* or walk cannot run from one worker's list into another's.
ListsWellFormed ==
    /\ \A w \in Workers :
          LET l == ListOf(w)
          IN  /\ queue_count[w] = Len(l)
              /\ queue_tail[w] = IF l = <<>> THEN None ELSE l[Len(l)]
              /\ l # <<>> => next[l[Len(l)]] = None
    /\ \A t \in Tasks : ~OnList(t) => next[t] = None

\* The refinement mapping: the sequence a queue's links spell.
Abstract == INSTANCE RunQueueSpec WITH queue <- [w \in Workers |-> ListOf(w)]

\* Every push, pop and steal does to the linked list what it should do to the
\* sequence, and returns the right task.
ImplementsRunQueue == Abstract!Spec
==============================================================================
