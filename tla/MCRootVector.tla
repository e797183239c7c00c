----------------------------- MODULE MCRootVector -----------------------------
EXTENDS RootVector, TLC

MCCapacity == <<1, 2, 2, 3>>

Symmetry == Permutations(Vectors) \cup Permutations(Objects)
===============================================================================
