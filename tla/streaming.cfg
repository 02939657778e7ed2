\* The first of two workers reads three of five partitions for two consumers,
\* one of whose queues has two readers; it may be freed at any moment.
SPECIFICATION FairSpec
CONSTANTS
    TotalPartitions = 5
    NumWorkers = 2
    WorkerId = 0
    NConsumers = 2
    Capacity = 1
    MaxChunks = 1
    MaxFailures = 1
INVARIANTS
    EndMeansComplete
    NoUseAfterFree
    QueuesDrained
    FastClose
PROPERTIES
    Terminates
CHECK_DEADLOCK FALSE
