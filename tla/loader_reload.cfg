SPECIFICATION Spec

CONSTANTS
    whole = whole
    other = other
    first = first
    sixth = sixth
    middle = middle
    last = last
    None = None
    Path <- Paths
    Exports <- Exported
    NSymbols = 20
    MaxOpen = 2

INVARIANTS
    TypeOK
    TableWhole
    HandlesAccounted
    OnlyCompleteRun
