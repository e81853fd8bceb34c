SYMMETRY Symmetry
SPECIFICATION Spec

CONSTANTS
    e1 = e1
    e2 = e2
    b1 = b1
    b2 = b2
    w1 = w1
    w2 = w2
    o1 = o1
    o2 = o2
    o3 = o3
    d1 = d1
    d2 = d2
    None = None
    Engine <- OneEngine
    Bench <- OneBench
    Wrapper <- OneWrapper
    Object <- TwoObjects
    Data <- OneDatum
    DescCounts <- OneOrTwo
    EngineExtra <- NoBits
    DescExtra <- NoBits
    BenchExtra <- NoBits
    BackendMasks <- Masks
    BackendCodes <- CustomCodes
    AllocMayFail = TRUE

INVARIANTS
    LastErrorRecorded
