SPECIFICATION Spec
CONSTANTS
    t1 = t1
    t2 = t2
    s1 = s1
    s2 = s2
    Threads = {t1, t2}
    Sessions = {s1, s2}
    Sharings <- MCSharings
    RegionCnt = 2
    Base <- TwoBase
    Size <- TwoSize
    PageSize = 2
    Word = 64
    Word32 = 8
    Requests <- TwoRequests
    MatchRegion = 1
INVARIANTS
    BlocksTileRegion
    BuffersAreBlocks
    AllMemoryReturned
    CandidateExact
PROPERTY
    ImplementsMemory
