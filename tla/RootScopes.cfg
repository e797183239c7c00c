CONSTANTS
    Scopes = {s1, s2, s3}
    ObjectScopes = {s2, s3}
    Endpoints <- MCEndpoints
    MaxManual = 1
    Threads = {t1}
    Anchors = {1, 2}
    MaxDepth = 2
SPECIFICATION Spec
SYMMETRY Symmetry
INVARIANTS
    RangesBalanced
    ThreadsBalanced
