SPECIFICATION FairSpec
CONSTANTS
    w1 = w1
    Writers = {w1}
    Senders = {s1}
    Closers = {c1}
    Pump = pump
    None = none
    WindowStart = 1
    Increment = 1
    OutCap = 1
    MaxCalls = 3
    MaxDown = 1
    MayFail = TRUE
    Timeouts = TRUE
INVARIANTS DigestChain
PROPERTIES CallsReturn PumpEnds
CHECK_DEADLOCK FALSE
