CONSTANTS
    MaxWord = 31
    word_size = 4
    Poisoned <- MCPoisoned
    FakeFrames <- MCFakeFrames
    Registers <- MCRegisters
    Marker = 14
    Segments <- MCSegments
    MaxImages = 2
SPECIFICATION ScanSpec
CHECK_DEADLOCK FALSE
INVARIANTS
    ReadsInBounds
    ScanComplete
    LoaderNotUnwound
PROPERTIES
    ScanEnds
