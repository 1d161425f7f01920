\* Region allocator: NoSpinningAlloc, which the code violates.
CONSTANTS
    VMEMSZ = 12
    PAGESZ = 4
    Rgids = {0, 1}
    Sizes <- MCSizesOne
    Offsets <- MCOffsets
    MaxFreeNodes = 2
SPECIFICATION Spec
INVARIANT NoSpinningAlloc
