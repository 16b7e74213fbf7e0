---------------------------- MODULE MCBlockingPool ----------------------------
(* Instances of BlockingPool, and with it of RunQueue, for TLC.               *)
EXTENDS BlockingPool, TLC

CONSTANTS t1, t2, t3

\* One task can take one lock inside the other, yield with a lock, or ask twice for one;
\* one can compete with it, or receive; one makes no calls and waits for its turn.
MCMaxOps == t1 :> 1 @@ t2 :> 2 @@ t3 :> 0
==============================================================================
