SPECIFICATION RulesSpec
CONSTANTS
    Million = 4
    Prices = {0, 1, 3, 9}
    CharsPerToken = 2
    Sizes = {0, 1, 2, 3, 5, 8}
    MaxSelected = 3
    CharsPerCall = 6
    MaxFigurePages = 2
    BusyPageTerms = 2
    LoneFigureTerms = 1
    Wordings <- MCWordings
    Alike <- MCAlike
    StudyCards <- MCStudyCards
    CreatedAt <- MCCreatedAt
    NewLimit = 1
    ReviewLimit = 2
    Now = 2
    MaxReviewsToday = 3
    Servers = {s1, s2}
    Migrations = 2
    MaxWrites = 2
    MaxCrashes = 2
    None = None
    Documents <- MCDocuments
    Files <- MCFiles
    FigurePages <- MCFigurePages
    Candidates <- MCCandidates
    Decks <- MCDecks
INVARIANTS
    HoldBoundsCharge
    PlanSendsTheSelection
    PagesAreSentOnce
    ReportsAgreeOnCoverage
    LoneFigureHasOneCard
    PolarityIsJudgedByTheCitation
    NoStatementIsLost
    OnlyUnusedCallsAreFree
    DayKeepsToItsLimits
    MigrationsApplyOnce
PROPERTIES
    RestoreLeavesTheBackup
CHECK_DEADLOCK FALSE
