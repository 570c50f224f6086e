SPECIFICATION FairSpec
CONSTANTS
    q1 = q1
    q2 = q2
    q3 = q3
    q4 = q4
    narrow = narrow
    wide = wide
    k1 = k1
    k2 = k2
    w1 = w1
    c1 = c1
    Proposals <- AllProposals
    Scope <- Sc
    Sets <- Moves
    Governed <- Core
    Unreachable <- Dead
    Scopes <- TwoScopes
    Candidates <- Chain
    Keys <- TwoKeys
    Vals <- Values
    Seed <- FirstSnapshot
    ManualEffect = 1
    AutoEffect = 2
    Workers <- OneWorker
    Clerks <- OneClerk
    MaxSnaps = 4
    MaxFaults = 1
    MaxActs = 1
    Modes <- Turns
INVARIANTS AutoReversible RollbackRestores DecisionsTell
PROPERTIES DegradedRolledBack
CHECK_DEADLOCK FALSE
