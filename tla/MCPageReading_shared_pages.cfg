SPECIFICATION Spec
CONSTANTS
    a = a
    b = b
    s = s
    t = t
    r1 = r1
    r2 = r2
    w1 = w1
    w2 = w2
    NoText = NoText
    NoReader = NoReader
    NoRun = NoRun
    Pages = {1, 2, 3}
    OwnText = {}
    Pictured = {1, 2}
    Sections = {s, t}
    SectionOf <- Apart
    Texts = {a, b}
    Readers = {w1, w2}
    Runs = {r1, r2}
    Stale = 2
    PageLimit = 2
    MaxTime = 2
    MaxAttempts = 3
    MaxLapses = 1
SYMMETRY Ids
INVARIANTS
    RunWorksFromTheRow
    OneReadingAtATime
CHECK_DEADLOCK FALSE
