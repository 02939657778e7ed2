\* Two threads share the queue, which may be freed in the first pass; no failures.
SPECIFICATION MFairSpec
CONSTANTS
    Producers = {p1, p2}
    Consumers = {c1, c2}
    Drainer = d
    BatchSize = 1
    MaxChunks = 2
    Passes = {"first"}
    MaxFailures = 0
    GiveUp = {"first"}
PROPERTIES
    CallsReturn
    Freed
CHECK_DEADLOCK FALSE
