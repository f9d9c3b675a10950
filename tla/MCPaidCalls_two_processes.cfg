SPECIFICATION Spec
CONSTANTS
    w1 = w1
    w2 = w2
    h1 = h1
    h2 = h2
    h3 = h3
    Run = Run
    Owner = Owner
    NoOwner = NoOwner
    NoAttempt = NoAttempt
    NumOps = 1
    Workers <- TwoWorkers
    InApi <- NoneInApi
    Holds = {h1, h2, h3}
    Amounts = {1, 2}
    EnvLimit = 3
    Freezes = FALSE
    MaxEpochs = 3
    MaxLapses = 2
    MaxCrashes = 1
    MaxRequests = 2
SYMMETRY Ids
INVARIANTS
    BilledIsCounted
    NoHoldIsLeftBehind
PROPERTIES
    StoredAnswerIsKept
    KeepsTheBooks
CHECK_DEADLOCK FALSE
