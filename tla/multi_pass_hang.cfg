\* A reader of the second pass fails while its chunk is waited for.
SPECIFICATION MFairSpec
CONSTANTS
    Producers = {p1, p2}
    Consumers = {c1}
    Drainer = d
    BatchSize = 1
    MaxChunks = 1
    Passes = {"first"}
    MaxFailures = 1
    GiveUp = {}
PROPERTIES
    NoWaitForInactive
CHECK_DEADLOCK FALSE
