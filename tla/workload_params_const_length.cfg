SPECIFICATION Spec

CONSTANTS
    Modulus = 32
    MaxLen = 5
    Bits <- SomeBits
    Counts <- SomeCounts
    Asked <- SomePlaces

INVARIANTS
    LessThanN
