SPECIFICATION Spec
CONSTANTS
    alice = alice
    bob = bob
    h1 = h1
    h2 = h2
    h3 = h3
    NoUser = NoUser
    Users <- TwoUsers
    Holds <- ThreeHolds
    Amounts = {0, 1, 2}
    Limits = {0, 2}
    EnvLimit = 3
    LastPeriod = 2
SYMMETRY Ids
INVARIANTS
    LedgerMatchesHolds
PROPERTIES
    CapsArePassedOnlyByNamedExcess
