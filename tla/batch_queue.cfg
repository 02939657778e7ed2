\* Both kinds of pass; in a later one the consumers ask for any chunk in any order.
SPECIFICATION Spec
CONSTANTS
    Producers = {p1, p2}
    Consumers = {c1, c2}
    Drainer = d
    BatchSize = 2
    MaxChunks = 3
    Passes = {"first", "later"}
INVARIANTS
    TypeOK
    NoOverwrite
    CountsAgree
    HandedOnce
    BatchBarrier
    PartitionOrder
PROPERTIES
    Implements
    GetReturnsRequested
CHECK_DEADLOCK FALSE
