\* Up to three calls of one client, with one failure and no load.
SPECIFICATION SSpec
CONSTANTS
    secToMicroSec = 3
    dayToSec = 4
    CASshiftSec = 12
    Tables = {}
    Strings <- MCStrings
    Numbers <- MCNumbers
    DateTimes <- MCDateTimes
    Dates <- MCDates
    Times <- MCTimes
    intNull <- MCintNull
    doubleNull = 99
    MaxValues = 2
    BufLens = {1, 3}
    Workers <- MCWorkers
    MaxPartitions = 2
    Requests <- MCRequests
    Rows <- MCRows
    MaxCalls = 3
    MaxFailures = 1
INVARIANTS
    ErrnoOfLastCall
CHECK_DEADLOCK FALSE
