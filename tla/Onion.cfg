SPECIFICATION FairSpec
CONSTANTS
    Threads = {"t", "u"}
    Services = {"q", "r", "s"}
    Wants <- MCWants
    Earlier <- MCEarlier
    Circuits = {"c1", "c2", "c3", "c4"}
    ConnectAttempts = 2
    IntroPoints = 2
    MaxOpen = 2
    MaxReattaches = 1
    Nodes = 4
    Start <- MCStart
    SpreadFetch = 1
    HsdirTries = 2
    HsdirParallel = 2
    PeriodLength = 1
    MaxChanges = 1
    MaxFaults = 1
INVARIANTS KeysAgree OneCircuit TurnSurvived
PROPERTIES ConnectEnds
CHECK_DEADLOCK FALSE
