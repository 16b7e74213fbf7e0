CONSTANTS
    Workers = {w1, w2}
    Tasks = {t1, t2}
    None = None
    Waiters = {}
    MaxYields = 0
    MaxSpawns = 2
    Reuse = TRUE
    MayShutdown = FALSE
SPECIFICATION SafeSpec
INVARIANT StackLeftBeforeFree
CHECK_DEADLOCK FALSE
