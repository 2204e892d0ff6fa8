---------------------------- MODULE MCLifecycle -----------------------------
EXTENDS Lifecycle, TLC

CONSTANTS l1, l2, c1, c2, a1, a2, h1, h2

MCClient == [l \in {l1, l2} |-> IF l = l1 THEN c1 ELSE c2]
MCTo == l1 :> {a1, a2} @@ l2 :> {a1}
MCKinds == {"Send", "Open", "HardBounce", "Complaint", "Bare", "Garbled"}
MCVisits == {<<l1, "opened">>}
Symmetry == Permutations({h1, h2})
=============================================================================
