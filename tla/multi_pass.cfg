\* Both passes run to their end or are given up; at most one failure.
SPECIFICATION MSpec
CONSTANTS
    Producers = {p1, p2}
    Consumers = {c1}
    Drainer = d
    BatchSize = 2
    MaxChunks = 3
    Passes = {"first"}
    MaxFailures = 1
    GiveUp = {"first", "later"}
INVARIANTS
    EndMeansComplete
    ReplayFindsEveryChunk
CHECK_DEADLOCK FALSE
