SPECIFICATION FairSpec
CONSTANTS
    r1 = r1
    r2 = r2
    r3 = r3
    Writer = Writer
    Watcher = Watcher
    NoRead = NoRead
    Reads <- ThreeReads
    Size <- Sizes
    MaxEntries = 2
    MaxBytes = 2
    MaxOutages = 1
    Modes <- AllModes
INVARIANTS ReadsAccounted NobodySleepsThrough TalliesAddUp
PROPERTIES CatchesUp
CHECK_DEADLOCK FALSE
