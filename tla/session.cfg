SPECIFICATION SessionSpec

CONSTANTS
    e1 = e1
    e2 = e2
    b1 = b1
    b2 = b2
    w1 = w1
    w2 = w2
    o1 = o1
    o2 = o2
    d1 = d1
    None = None
    Engine <- TwoEngines
    Bench <- TwoBenches
    Wrapper <- TwoWrappers
    Object <- TwoObjects
    Data <- OneDatum
    DescCounts <- OneDescription
    EngineExtra <- NoBits
    DescExtra <- NoBits
    BenchExtra <- NoBits
    BackendMasks <- OneMask
    BackendCodes <- CustomCodes
    AllocMayFail = FALSE

INVARIANTS
    SessionTypeOK
PROPERTIES
    ClientIsSafe
    CleanUpEnds
