CONSTANTS
    p1 = p1
    p2 = p2
    c1 = c1
    c2 = c2
    j1 = j1
    Producers = {p1, p2}
    Consumers = {c1, c2}
    Joiners = {j1}
    Nobody = Nobody
    NoElement = NoElement
    Capacities = {1, 2}
    Calls <- TwoEachCalls
    MaxSpurious = 1
SPECIFICATION Spec
INVARIANTS
    QueueInv
    CountInv
    NoLostWakeup
    TaskDoneAsserts
    DestroyedIdle
PROPERTIES
    ImplementsWorkQueue
CHECK_DEADLOCK FALSE
