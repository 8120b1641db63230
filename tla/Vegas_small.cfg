SPECIFICATION VegasSpec
CONSTANTS
    Inc = 2
    CwndInit = 4
    CwndMin = 2
    CwndMax = 7
    CwndInc = 2
    CwndIncRate = 1
    CwndIncPctSs = 50
    EwmaCwndPct = 50
    EwmaMax = 10
    EwmaSs = 2
    RttResetPct = 100
    Alpha = 1
    Beta = 2
    Gamma = 2
    Delta = 3
    SsCap = 5
    SsMax = 6
    CwndFullGap = 1
    CwndFullMinPct = 50
    CwndFullPerCwnd = TRUE
    ClockJumpRatio = 4
    Rtts = {100, 200, 700}
    MaxSent = 20
INVARIANTS MarksMatch NeverStuck
PROPERTIES WindowYields IsSendWindow
CHECK_DEADLOCK FALSE
