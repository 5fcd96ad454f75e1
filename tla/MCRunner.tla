------------------------------ MODULE MCRunner ------------------------------
(* TLC instances of Runner: intervals in steps of 50 ms, 0 never sends; a   *)
(* count of -1 is without end.                                              *)
EXTENDS Runner, TLC

CONSTANTS r1, r2, r3

MCIntervals == {0, 1, 2}
MCCounts == {-1, 0, 1}

(* Nothing tells one address from another. *)
Symmetry == Permutations(Runners)
=============================================================================
