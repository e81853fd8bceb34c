SPECIFICATION Spec

CONSTANTS
    Position <- Positions
    MaxPacks = 4

INVARIANTS
    TypeOK
    ResultIsMatch
PROPERTIES
    Terminates
CHECK_DEADLOCK FALSE
