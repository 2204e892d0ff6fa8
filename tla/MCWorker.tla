------------------------------ MODULE MCWorker ------------------------------
EXTENDS Worker, TLC

CONSTANTS w1, w2, j1, j2, c1, c2, a1, a2

(* Two jobs of two clients with an address in common: jobs and tenants mix. *)
PairOwner == j1 :> c1 @@ j2 :> c2
PairRcpts == j1 :> {a1, a2} @@ j2 :> {a1}
PairListable == {<<c1, a1>>, <<c1, a2>>, <<c2, a1>>}
Symmetry == Permutations({w1, w2})

(* One job: a payload and its double through all retries, stops, liveness. *)
SoloOwner == j1 :> c1
SoloRcpts == j1 :> {a1}
=============================================================================
