CONSTANTS
    Workers = {w1, w2}
    Tasks = {t1, t2}
    None = None
    Waiters = {t1}
    MaxYields = 1
    MaxSpawns = 2
    Reuse = FALSE
    MayShutdown = TRUE
SPECIFICATION Spec
PROPERTIES TasksFinish MainWaitReturns ShutdownEnds
CHECK_DEADLOCK FALSE
