SPECIFICATION Spec
CONSTANTS
    s1 = s1
    s2 = s2
    Streams = {s1}
    CircuitInc = 2
    CwndStart = 3
    Cwnds = {2, 3, 4}
    StreamStart = 3
    StreamInc = 2
    Timeouts = FALSE
    MayEnd = FALSE
    FarLimit = 1
    Long = 5
    Short = 5
    MaxCells <- CellsOf
INVARIANTS StreamNeverStuck
CHECK_DEADLOCK FALSE
