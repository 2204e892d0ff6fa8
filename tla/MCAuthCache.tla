---------------------------- MODULE MCAuthCache -----------------------------
EXTENDS AuthCache, TLC
CONSTANTS r1, r2, p1, p2
Symmetry == Permutations(Reqs)
=============================================================================
