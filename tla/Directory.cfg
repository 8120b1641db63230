SPECIFICATION DirectoryFairSpec
CONSTANTS
    Authorities = {"a", "b", "c"}
    Compromised = {"c"}
    Life = 4
    Interval = 2
    Rotation = 6
    Retired = 6
    RetryMin = 1
    RetryMax = 2
    ExpiredRetry = 1
    NotModifiedRetry = 1
    MaxClock = 7
    MaxCrashes = 1
    MaxOdd = 2
    Edits <- MCEdits
INVARIANTS Authentic DiffIsEd NeverSleepsThrough
PROPERTIES CatchesUp
CHECK_DEADLOCK FALSE
