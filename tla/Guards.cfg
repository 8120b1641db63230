SPECIFICATION FairSpec
CONSTANTS
    r1 = r1
    r2 = r2
    r3 = r3
    c1 = c1
    c2 = c2
    Relays = {r1, r2, r3}
    Callers = {c1, c2}
    Maintain = maintain
    None = none
    MaxGuards = 2
    GuardAttempts = 2
    GuardStrikes = 1
    MaxSlowChanges = 1
    LookupsFail = TRUE
    MaxEvents = 2
INVARIANTS NoTwice FileCurrent
PROPERTIES PrimaryPinned PrimaryResumed
CHECK_DEADLOCK FALSE
