CONSTANTS
    Workers = {w1, w2}
    t1 = t1
    t2 = t2
    t3 = t3
    Tasks = {t1, t2, t3}
    None = None
    Mutexes = {1}
    Rwlocks = {2}
    Receivers = {t1}
    MaxOps <- MCMaxOps
SPECIFICATION PoolSpec
INVARIANT ListsWellFormed
INVARIANT OrderlyPoolMoves
PROPERTY ImplementsRunQueue
PROPERTY OthersFinish
PROPERTY LocksAreGiven
CHECK_DEADLOCK FALSE
