CONSTANTS
    Threads = {t1, t2}
    NoThread = NoThread
    UseOps = {"use", "root"}
    Blocks = {b1, b2}
    NoBlock = NoBlock
    Slots = {s1, g1}
    Globals = {g1}
    Handles = {h1}
    MaxRanges = 2
SPECIFICATION HeapSpec
SYMMETRY Symmetry
CONSTRAINT GraphOrSlot
INVARIANTS
    NoDangling
    WeakIsLive
PROPERTY ConstructionPinned
