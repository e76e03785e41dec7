SPECIFICATION AlgSpec
CONSTANTS
    MaxRangeId = 5
    MaxBlocks = 3
    MaxHot = 4
    kSubBucketBits = 1
    kOctaves = 3
    LongBits = 6
    IntBits = 4
INVARIANTS
    OverlapExact
    MapExact
    PercentileBrackets
    DrawExact
    SetupExact
CHECK_DEADLOCK FALSE
