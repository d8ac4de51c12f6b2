----------------------------- MODULE MCReviewRun -----------------------------
(* Small instances of ReviewRun: two or three units. *)
EXTENDS ReviewRun, TLC

CONSTANTS u1, u2, u3

TwoUnits == {u1, u2}
ThreeUnits == {u1, u2, u3}
TwoSymmetry == Permutations(TwoUnits)
=============================================================================
