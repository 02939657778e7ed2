\* Three readers and two consumers over a queue of two places.
SPECIFICATION FairSpec
CONSTANTS
    Producers = {p1, p2, p3}
    Consumers = {c1, c2}
    Capacity = 2
    MaxChunks = 2
INVARIANTS
    TypeOK
    Bounded
    NoLostWakeup
PROPERTIES
    Progress
    Implements
CHECK_DEADLOCK FALSE
