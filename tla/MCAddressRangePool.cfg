CONSTANTS
    Region <- Areas
    Flags = {0, 1}
    MaxPages = 5
SPECIFICATION FairSpec
INVARIANTS TypeOK RangesTile Coalesced
PROPERTIES IsPageSpace MergeEnds
