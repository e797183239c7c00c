CONSTANTS
    Threads = {t1, t2}
    NoThread = NoThread
    Blocks = {b1, b2, b3}
    MaxWord = 5
    Offset = 1
    Sizes = {1, 2}
    Thresholds = {2, 5}
SPECIFICATION Spec
SYMMETRY Symmetry
INVARIANTS
    CountersExact
    PeaksBound
    BytesConserved
    ThresholdHonoured
