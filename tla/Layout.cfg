CONSTANTS
    Bits = 7
    HeaderSize = 8
    WordSize = 4
    MaxAlign = 4
    MaxOffset = 31
SPECIFICATION LayoutSpec
CHECK_DEADLOCK FALSE
INVARIANTS
    LayoutSound
    RejectsOnlyImpossible
