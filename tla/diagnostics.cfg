SYMMETRY Symmetry
SPECIFICATION Spec

CONSTANTS
    e1 = e1
    e2 = e2
    scheme = scheme
    base = base
    custom = custom
    empty = empty
    short = short
    long = long
    NoText = NoText
    None = None
    Engine <- TwoEngines
    Code <- Codes
    BaseCode <- BaseCodes
    Name <- Names
    Text <- Texts
    Length <- Lengths
    BaseText = short
    UnknownErrorMsg = short
    ExText = long
    TwiceText = long
    EmptyText = empty
    ClientSize <- Sizes

INVARIANTS
    TypeOK
    WholeOrTold
    NamesFetchedWhole
PROPERTIES
    DescriptionsPersist
