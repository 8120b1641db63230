SPECIFICATION FairSpec
CONSTANTS
    s1 = s1
    s2 = s2
    Streams = {s1, s2}
    CircuitInc = 2
    CwndStart = 3
    Cwnds = {2, 4}
    StreamStart = 2
    StreamInc = 2
    Timeouts = TRUE
    MayEnd = TRUE
    FarLimit = 1
    Long = 5
    Short = 2
    MaxCells <- CellsOf
INVARIANTS Credit
PROPERTIES AllSent
CHECK_DEADLOCK FALSE
