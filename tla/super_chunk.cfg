\* Chunks of up to three rows; the largest value ends exactly where the rows end.
SPECIFICATION Spec
CONSTANTS
    Schemas <- MCSchemas
    ChunkSizes = {39, 64}
    Lengths = {0, 1, 8}
INVARIANTS
    CellsApart
    SpaceAccounted
    ReadsBack
CHECK_DEADLOCK FALSE
