\* Region allocator: the properties that hold.
CONSTANTS
    VMEMSZ = 12
    PAGESZ = 4
    Rgids = {0, 1}
    Sizes <- MCSizes
    Offsets <- MCOffsets
    MaxFreeNodes = 2
SPECIFICATION Spec
VIEW NoGhostView
INVARIANT TypeOK RegionsDisjointWithinVma RegionsBelowBreak
PROPERTY AbstractAllocSpec
