SPECIFICATION Spec
CONSTANTS
    p1 = p1
    p2 = p2
    n1 = n1
    n2 = n2
    alpha = alpha
    beta = beta
    semantic = semantic
    curated = curated
    NULL = NULL
    Procs <- TwoProcs
    NodeIds <- OneNode
    Names <- TwoNames
    Roles <- TwoRoles
    Ops <- ConditionalOps
    Attempts = 2
    MaxClock = 5
    Distinct = TRUE
SYMMETRY Symmetry2
\* The clock bound stops every writer.
CHECK_DEADLOCK FALSE
INVARIANTS VersionsAgree TimelineExact
PROPERTIES WriteReplacesRead CompactionKeepsReads ImplementsRegister
