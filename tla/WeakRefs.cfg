CONSTANTS
    Threads = {t1, t2}
    Handles = {h1, h2, h3, h4}
    Modulus = 16
    Blocks = {2, 4}
    BlockSize = 2
    Pointers = {0, 3, 4, 6}
SPECIFICATION Spec
SYMMETRY Symmetry
INVARIANTS
    RegistryAgrees
PROPERTY ImplementsWeakHandles
