SYMMETRY Symmetry
SPECIFICATION ExSpec

CONSTANTS
    e1 = e1
    b1 = b1
    w1 = w1
    o1 = o1
    o2 = o2
    o3 = o3
    d1 = d1
    d2 = d2
    d3 = d3
    x = x
    y = y
    z = z
    None = None
    Engine <- OneEngine
    Bench <- OneBench
    Wrapper <- OneWrapper
    Object <- Objects
    Data <- ThreeData
    DescCounts <- One
    EngineExtra <- NoBits
    DescExtra <- NoBits
    BenchExtra <- BenchBit
    BackendMasks <- Masks
    BackendCodes <- Codes
    Sample <- Samples
    Packs <- SomePacks
    AllocMayFail = TRUE
    NoSample = NoSample
    MaxCount = 2

INVARIANTS
    ShapeSound
    OperandsKept
    DecodedProduct
PROPERTIES
    ContentStable
