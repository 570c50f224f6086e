SPECIFICATION Spec
CONSTANTS
    p1 = p1
    p2 = p2
    r1 = r1
    r2 = r2
    on = on
    NONE = NONE
    GARBLED = GARBLED
    UNKNOWN = UNKNOWN
    Procs <- TwoProcs
    Ids <- TwoIds
    Vals <- OneVal
    MaxVersion = 3
    Faults <- EveryFault
SYMMETRY Writers
INVARIANTS GuardedViewIsFile
PROPERTIES WriteLosesOnlyAsked WriteReplacesView
