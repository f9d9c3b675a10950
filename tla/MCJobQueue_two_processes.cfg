SPECIFICATION Spec
CONSTANTS
    w1 = w1
    w2 = w2
    id1 = id1
    id2 = id2
    r1 = r1
    r2 = r2
    NoWorker = NoWorker
    NoRules = NoRules
    WorkerIds = {id1, id2}
    Rules = {r1, r2}
    Jobs <- OneJob
    Workers <- TwoWorkers
    InApi <- NoneInApi
    IdOf <- SharedIds
    RulesOf <- OtherRules
    Lease = 2
    Backoff = 1
    MaxAttempts = 2
    Batches = 2
    Refusals = FALSE
    MaxFaults = 2
    MaxRequests = 3
SYMMETRY Exchanges
INVARIANTS
    OneHolder
    PublishedIffCompleted
PROPERTIES
    ProgressIsKept
    RulesAreNotMixed
    RunsLiveAsSpecified
