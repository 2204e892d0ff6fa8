------------------------------ MODULE MCIntake ------------------------------
EXTENDS Intake, TLC
CONSTANTS c1, c2, c3, q1, k1, a, b
MCListed == {<<k1, b>>}
Symmetry == Permutations(Conns)
=============================================================================
