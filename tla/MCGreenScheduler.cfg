CONSTANTS
    Workers = {w1, w2}
    Tasks = {t1, t2, t3}
    None = None
    Waiters = {t1}
    MaxYields = 1
    MaxSpawns = 3
    Reuse = FALSE
    MayShutdown = TRUE
SPECIFICATION SafeSpec
INVARIANTS TypeOK OnePlace PlaceMatchesState NoTaskLost WaitsOnLiveTask
CHECK_DEADLOCK FALSE
