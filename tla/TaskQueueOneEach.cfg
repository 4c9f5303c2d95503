CONSTANTS
    p1 = p1
    p2 = p2
    c1 = c1
    c2 = c2
    j1 = j1
    Producers = {p1}
    Consumers = {c1}
    Joiners = {j1}
    Nobody = Nobody
    NoElement = NoElement
    Capacities = {1, 2, 3}
    Calls <- OneEachCalls
    MaxSpurious = 2
SPECIFICATION FairSpec
INVARIANTS
    TypeOK
PROPERTIES
    WorkloadCompletes
CHECK_DEADLOCK FALSE
