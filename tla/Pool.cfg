SPECIFICATION Spec
CONSTANTS
    k1 = k1
    k2 = k2
    k3 = k3
    q1 = q1
    q2 = q2
    w1 = w1
    Circuits = {k1, k2, k3}
    Requesters = {q1, q2}
    Workers = {w1}
    Builder = builder
    Maintainer = maintainer
    None = none
    MaxCircuits = 2
    StubTarget = 1
    CleanTarget = 1
    SpreadCircuits = 2
    StreamsPerCircuit = 1
    MaxPendingBlame = 1
    ConnectAttempts = 1
    MaxEvents = 1
SYMMETRY Symmetry
INVARIANTS OnePlace BlamedOnce NoneLost
PROPERTIES BudgetOrBusy
CHECK_DEADLOCK FALSE
