SPECIFICATION Spec
CONSTANTS
    lesson = lesson
    extern = extern
    origin = origin
    entity = entity
    noise = noise
    c1 = c1
    c2 = c2
    Learned <- OneLearned
    Outside <- OneOutside
    Source = origin
    Mints <- OneMint
    Noisy <- OneNoisy
    Callers <- TwoCallers
    MaxActs = 5
    MaxFaults = 1
    Modes <- Mixed
SYMMETRY Alike
INVARIANTS DemotionStands RowWithheldWithNode PlanesAgree NoTextAfterPurge
PROPERTIES TombstoneStands
\* The bound on commands stops every caller.
CHECK_DEADLOCK FALSE
