SPECIFICATION Spec
CONSTANTS
    k = k
    l = l
    m = m
    p = p
    q = q
    r = r
    Concepts <- SixConcepts
    Candidates <- Reported
    BatchEnds <- ThreeEnds
    Verified <- InSource
    Central <- InCoverage
    Restates <- OneRestatement
    CardRestates <- OneCardRestatement
    MaxConcepts = 5
    CardBatchSize = 2
    Allowance = 2
    Admissible <- AllOrTheFirst
    Fates = {"good", "refused", "mended", "unanswered", "broken"}
    MaxRequests = 3
    MaxLapses = 1
    MaxFailures = 1
INVARIANTS
    CheckpointCoheres
    ReportIsComplete
    OnlyDisturbedRepairsShow
PROPERTIES
    RunSettles
CHECK_DEADLOCK FALSE
