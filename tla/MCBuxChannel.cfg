CONSTANTS
    Threads = {t1, t2, t3}
    Elem = {a, b}
    NoElem = NoElem
    RequestedCapacity = 2
SPECIFICATION Spec
INVARIANTS TypeOK RingConsistent NoLostRecvWakeup NoLostSendWakeup ClosedWakesAll
PROPERTIES NoSendAfterClose ClosedCallsReturn ImplementsChannel
