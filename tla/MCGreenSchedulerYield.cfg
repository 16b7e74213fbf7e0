CONSTANTS
    Workers = {w1}
    Tasks = {t1, t2}
    None = None
    Waiters = {t1}
    MaxYields = 1
    MaxSpawns = 2
    Reuse = FALSE
    MayShutdown = FALSE
SPECIFICATION Spec
PROPERTY YieldLetsOthersRun
CHECK_DEADLOCK FALSE
