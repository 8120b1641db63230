SPECIFICATION FairSpec
CONSTANTS
    s1 = s1
    s2 = s2
    Streams = {s1, s2}
    CircuitStart = 3
    CircuitInc = 2
    StreamStart = 2
    StreamInc = 2
    CellMax = 1
    ReadMax = 1
    XoffBytes = 2
    Long = 8
    Short = 4
    MaxCells <- CellsOf
INVARIANTS NeverOverrun BufferBounded NoStall
PROPERTIES AllRead
CHECK_DEADLOCK FALSE
