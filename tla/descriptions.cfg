SPECIFICATION DescSpec

CONSTANTS
    e1 = e1
    b1 = b1
    w1 = w1
    None = None
    Engine <- OneEngine
    Bench <- OneBench
    Wrapper <- OneWrapper
    Object <- NoObjects
    Data <- NoObjects
    DescCounts <- UpToTwo
    EngineExtra <- NoBits
    DescExtra <- NoBits
    BenchExtra <- NoBits
    BackendMasks <- NoObjects
    BackendCodes <- Codes
    AllocMayFail = TRUE
    Modulus = 8
    Catalogs <- SomeCatalogs
    Dimension = 2
    MaxArrays = 2
    MaxCapacity = 4

INVARIANTS
    DescTypeOK
    AskedSuffices
    WholeSets
    AdvertisedAccepted
