SPECIFICATION ProxySpec
CONSTANTS
    MaxReattaches = 1
    MaxReplay = 1
    MaxChunks = 2
    MaxReads = 2
    Ends <- MC_Ends
    MaxEarly = 1
    Protocols = {"Socks5", "Socks4", "Http"}
    Errors = {"exit policy", "timeout", "other"}
INVARIANTS ReplayWhole AnswerSettles NoDuplicates Verbatim
PROPERTIES Answered TunnelEnds
CHECK_DEADLOCK FALSE
