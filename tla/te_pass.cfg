SPECIFICATION FairSpec
CONSTANTS
    a = a
    b = b
    p1 = p1
    N = 4
    At <- Tied
    Invalid <- OneInvalid
    ErrorsOnly <- OneTerse
    Docs <- TwoDocs
    Cites <- Citing
    Passes <- OnePass
    PageSize = 1
    MaxScan = 2
    Ceiling = 4
    RetryLimit = 1
    MaxActs = 2
    MaxFaults = 1
    Modes <- Alone
INVARIANTS NothingSkipped VectorsCarryLabel
PROPERTIES NothingStarves RelabelReaches
