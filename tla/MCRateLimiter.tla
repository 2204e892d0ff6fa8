--------------------------- MODULE MCRateLimiter ----------------------------
EXTENDS RateLimiter, TLC
CONSTANTS r1, r2, r3
Symmetry == Permutations(Reqs)
=============================================================================
