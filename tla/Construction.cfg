CONSTANTS
    Calls = {c1, c2}
    MaxCount = 3
SPECIFICATION Spec
INVARIANTS
    NoElementCorrupted
    ReverseOrder
    NothingLeaked
    ResultComplete
