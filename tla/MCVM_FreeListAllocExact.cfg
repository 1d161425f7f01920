\* Region allocator: FreeListAllocExact, which the code violates.
CONSTANTS
    VMEMSZ = 12
    PAGESZ = 4
    Rgids = {0, 1}
    Sizes <- MCSizes
    Offsets <- MCOffsets
    MaxFreeNodes = 2
SPECIFICATION Spec
PROPERTY FreeListAllocExact
