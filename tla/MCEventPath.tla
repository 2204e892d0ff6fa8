---------------------------- MODULE MCEventPath -----------------------------
EXTENDS EventPath
CONSTANTS w1, w2, e1, k1
=============================================================================
