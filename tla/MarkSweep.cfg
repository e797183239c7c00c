CONSTANTS
    Begins <- MCBegins
    Size <- MCSize
    WordSize = 2
    Words = {0, 3, 6, 8, 10, 13}
    MaxRoots = 1
SPECIFICATION FairSpec
CHECK_DEADLOCK FALSE
INVARIANTS
    MarkingIsExact
    SweepIsExact
    WorklistFits
PROPERTY Terminates
