------------------------- MODULE MCComputeProvision -------------------------
(* Small instances of ComputeProvision for TLC: two requests, of two        *)
(* accounts or of one.                                                      *)
EXTENDS ComputeProvision, TLC

CONSTANTS r1, r2, a1, a2

TwoAccounts == r1 :> a1 @@ r2 :> a2
OneAccount == [r \in Request |-> a1]
CallerSymmetry == Permutations(Caller)
CoordSymmetry == Permutations(Coord)
=============================================================================
