CONSTANTS
    Vectors = {v1, v2}
    Objects = {o1, o2}
    Null = Null
    Junk = Junk
    Capacity <- MCCapacity
SPECIFICATION Spec
SYMMETRY Symmetry
INVARIANTS
    RangesAreElements
    RootsProtect
PROPERTIES
    AllOrNothing
