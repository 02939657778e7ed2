\* Up to three workers, five partitions and two consumers, and two point reads.
SPECIFICATION QSpec
CONSTANTS
    MaxWorkers = 3
    MaxPartitions = 5
    MaxConsumers = 2
    MaxAggregators = 2
    RowSizes <- MCRowSizes
    RowIdSets <- MCRowIdSets
    ChunkSizes = {3, 6}
    MaxCalls = 2
    MaxTotalRead = 2
    MaxFailures = 2
INVARIANTS
    EveryPartitionOnce
    DrainedQueuesHaveReaders
    FallbackReported
    PointReadExact
    NoTermination
CHECK_DEADLOCK FALSE
