SPECIFICATION FairSpec
CONSTANTS
    Relays = {"g", "h", "m", "n", "e"}
    SupportedVersions = {3, 4}
    OtherVersions = {2, 5}
    MaxCells = 3
    Impostors = {"m"}
    Ends = {"g", "m", "e"}
    Flags <- MCFlags
    Subnet <- MCSubnet
    Declares <- MCDeclares
    Bandwidth <- MCBandwidth
    Weights <- MCWeights
    WeightScale = 2
    Circuits = {"c", "d"}
    Ed = {"g", "m", "n", "e"}
    Ports = {80, 443}
    Policy <- MCPolicy
    MiddleSample = 2
    ExitSample = 1
    RendezvousSample = 2
    MaxCached = 2
    CcAlg = 2
    SendmeInc = 4
    CcAnswers <- MCCcAnswers
    MaxJobs = 2
    MaxFaults = 1
INVARIANTS LinkProven PathApart HopsAgree SchemeAgreed
PROPERTIES Settles
CHECK_DEADLOCK FALSE
