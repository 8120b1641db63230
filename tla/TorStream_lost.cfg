SPECIFICATION Spec
CONSTANTS
    MaxReattaches = 1
    MaxReplay = 2
    MaxChunks = 2
    MaxReads = 1
    Ends <- MC_Ends
INVARIANTS ReplayFaithful
CHECK_DEADLOCK FALSE
