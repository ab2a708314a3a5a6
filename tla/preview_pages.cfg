SPECIFICATION Spec
CONSTANTS
    FileSizes = {0, 4, 5, 6}
    ChunkSizes = {2, 3}
    Garbage = Garbage
    RawOffsets <- Offsets
    RawLimits <- Limits
    DefaultLimit = 1
    PageMaxRows = 2
    LargestOffset = 9
    None = None
INVARIANTS TypeOK PageIsWindow TearingKeepsRows PullsNoMoreThanNeeded WorkBoundedByFile PagesTile FailsOnlyOnShownLine
CHECK_DEADLOCK FALSE
