SPECIFICATION FairSpec
CONSTANTS
    w1 = w1
    w2 = w2
    id1 = id1
    id2 = id2
    r1 = r1
    r2 = r2
    NoWorker = NoWorker
    NoRules = NoRules
    WorkerIds = {id1, id2}
    Rules = {r1, r2}
    Jobs <- TwoJobs
    Workers <- OneWorker
    InApi <- OneWorker
    IdOf <- OwnIds
    RulesOf <- SameRules
    Lease = 2
    Backoff = 1
    MaxAttempts = 2
    Batches = 1
    Refusals = TRUE
    MaxFaults = 1
    MaxRequests = 4
INVARIANTS
    NoUncollectableRun
PROPERTIES
    StoppedRunIsMadeTerminal
    StopIsHonoured
    EveryRunSettles
