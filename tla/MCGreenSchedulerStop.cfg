CONSTANTS
    Workers = {w1, w2}
    Tasks = {t1, t2}
    None = None
    Waiters = {}
    MaxYields = 1
    MaxSpawns = 2
    Reuse = FALSE
    MayShutdown = TRUE
SPECIFICATION SafeSpec
PROPERTY ShutdownWaitsForTasks
CHECK_DEADLOCK FALSE
