--------------------------- MODULE MCHybridQueue ----------------------------
(* A small instance of HybridQueue: two workers that serve every organisation. *)
EXTENDS HybridQueue

CONSTANTS w1, w2

MCWorkers == {w1, w2}
AnyOrg == [w \in MCWorkers |-> Jobs]
=============================================================================
