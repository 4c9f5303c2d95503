CONSTANTS
    p1 = p1
    p2 = p2
    c1 = c1
    c2 = c2
    j1 = j1
    Producers = {p1, p2}
    Consumers = {c1}
    Joiners = {j1}
    Nobody = Nobody
    NoElement = NoElement
    Capacities = {2}
    Calls <- TwoPutCalls
    MaxSpurious = 0
SPECIFICATION FairSpec
PROPERTIES
    EveryPutReturns
CHECK_DEADLOCK FALSE
