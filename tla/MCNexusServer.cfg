CONSTANTS
    Main = main
    Workers = {w1, w2, w3}
    PoolSize = 2
    Conns = {c1, c2, c3}
    Pill = pill
    None = None
    Backlog = 2
    Tls = TRUE
SPECIFICATION Spec
INVARIANTS OneOwner ConnectionsBeforePills PillPerWorker
PROPERTIES QueuedGetsServed StopExits
CHECK_DEADLOCK FALSE
