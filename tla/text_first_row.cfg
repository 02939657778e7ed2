\* Result sets of up to four rows; three rows of size 2 fill a chunk exactly,
\* a row of size 7 does not fit into one.
SPECIFICATION Spec
CONSTANTS
    MaxRows = 4
    RowSizes = {2, 5, 7}
    ChunkSize = 6
    Protocols = {FALSE}
INVARIANT AllRowsDelivered
CHECK_DEADLOCK FALSE
