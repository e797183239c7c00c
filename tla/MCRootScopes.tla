----------------------------- MODULE MCRootScopes -----------------------------
EXTENDS RootScopes, TLC

\* Nothing, a range both ways round, one that overlaps it, and an empty one.
MCEndpoints == {<<0, 0>>, <<1, 2>>, <<2, 1>>, <<1, 3>>, <<2, 2>>}

Symmetry == Permutations(ObjectScopes) \cup Permutations(Threads)
===============================================================================
