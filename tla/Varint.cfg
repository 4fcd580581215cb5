CONSTANTS
    Shift = 2
    Radix = 4
    WideBits = 5
    Wide = 32
    NarrowBits = 3
    Narrow = 8
    MaxLen = 3
    NarrowLen = 2
    Numbers <- AllNumbers
    Foreign <- AllStrings
    Tails <- FewTails
SPECIFICATION Spec
INVARIANTS
    ReadsBack
    CutNoticed
    ForeignExact
    SizeMatches
CHECK_DEADLOCK FALSE
