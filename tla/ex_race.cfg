SPECIFICATION Spec
CONSTANTS
    w1 = w1
    w2 = w2
    k1 = k1
    k2 = k2
    NULL = NULL
    Workers <- TwoWorkers
    Keys <- TwoKeys
    Hooked <- HookedKey
    Batches <- Repeats
    CacheSize = 1
    MaxRequests = 3
    HasLog = TRUE
    Losses <- AllLosses
SYMMETRY SymmetricWorkers
\* The bound on requests stops every worker.
CHECK_DEADLOCK FALSE
INVARIANTS AnsweredMeansApplied RunsAreAccounted FailedWroteNothing BatchIsAnswered
