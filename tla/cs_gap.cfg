SPECIFICATION Spec
CONSTANTS
    p = p
    q = q
    short = short
    mid = mid
    long = long
    a = a
    b = b
    c = c
    d = d
    NONE = NONE
    BLANK = BLANK
    Paths <- TwoPaths
    Texts <- AllTexts
    Pieces <- AllPieces
    Spans <- Cut
    MaxChunks = 3
    MaxActs = 3
    MaxFaults = 2
    Firsts <- OneFile
    Modes <- DyingPrunes
INVARIANT NoTextLeft
