----------------------------- MODULE MCMsmArray -----------------------------
(* Small instances of MsmArray.  The readers do not interact, so one reader  *)
(* stands for all of them unless a run says otherwise.                       *)
EXTENDS MsmArray, TLC

CONSTANTS r1, v1, v2

OneReader == {r1}
TwoValues == {v1, v2}
OneValue == {v1}

ValueSymmetry == Permutations({v1, v2})

=============================================================================
