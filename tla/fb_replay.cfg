SPECIFICATION FeedbackSpec
CONSTANTS
    keyword = keyword
    graph = graph
    comment = comment
    r1 = r1
    r2 = r2
    NoGrade = NoGrade
    Grades <- TwoGrades
    Governed <- OneGoverned
    Served <- ServedBy
    Reconcilers <- TwoReconcilers
    ChunkSize = 2
    MaxCalls = 3
    MaxPasses = 3
    MaxCrowded = 2
    Modes <- Troubled
SYMMETRY Symmetry
\* The bounds on calls and passes stop them.
CHECK_DEADLOCK FALSE
INVARIANTS EventLoggedOnce RowsWrittenOnce PassesComplete
