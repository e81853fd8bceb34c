SYMMETRY Symmetry
SPECIFICATION Spec

CONSTANTS
    e1 = e1
    e2 = e2
    b1 = b1
    b2 = b2
    w1 = w1
    w2 = w2
    o1 = o1
    o2 = o2
    o3 = o3
    d1 = d1
    d2 = d2
    None = None
    Engine <- TwoEngines
    Bench <- TwoBenches
    Wrapper <- TwoWrappers
    Object <- ThreeObjects
    Data <- TwoData
    DescCounts <- OneOrTwo
    EngineExtra <- NoBits
    DescExtra <- DerivedBit
    BenchExtra <- DerivedBit
    BackendMasks <- FewMasks
    BackendCodes <- CustomCodes
    AllocMayFail = TRUE

INVARIANTS
    TypeOK
    TagSound
    RefCountExact
    NoDangling
    OneHandleEach
PROPERTIES
    FailureLeavesHeap
    DestroyReleases
    ImplementsSharedData
