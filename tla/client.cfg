\* One client: up to five calls with one failure among them, or one load of up to
\* two values in pieces of one and of three.
SPECIFICATION SSpec
CONSTANTS
    secToMicroSec = 3
    dayToSec = 4
    CASshiftSec = 12
    Tables <- MCTables
    Strings <- MCStrings
    Numbers <- MCNumbers
    DateTimes <- MCDateTimes
    Dates <- MCDates
    Times <- MCTimes
    intNull <- MCintNull
    doubleNull = 99
    MaxValues = 2
    BufLens = {1, 3}
    Workers <- MCWorkers
    MaxPartitions = 2
    Requests <- MCRequests
    Rows <- MCRows
    MaxCalls = 5
    MaxFailures = 1
INVARIANTS
    NoTableForgotten
    FailureReported
    GroupsTogether
    OrderDelivered
    SchemasAgree
    ValuesReturn
CHECK_DEADLOCK FALSE
