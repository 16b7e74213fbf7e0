CONSTANTS
    Main = main
    Workers = {w1, w2, w3}
    PoolSize = 2
    Conns = {c1, c2, c3}
    Pill = pill
    None = None
    Backlog = 2
    Tls = TRUE
SPECIFICATION SafeSpec
INVARIANT WorkersDrained
CHECK_DEADLOCK FALSE
