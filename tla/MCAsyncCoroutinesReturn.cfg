CONSTANTS
    t1 = t1
    t2 = t2
    t3 = t3
    Tasks = {t1, t2, t3}
    None = None
    Junk = Junk
    Awaits <- Chain
    CallsReturn = FALSE
    MaxYields = 1
    Delay = 2
    MaxNow = 3
SPECIFICATION SafeSpec
INVARIANT AwaitDelivers
CHECK_DEADLOCK FALSE
