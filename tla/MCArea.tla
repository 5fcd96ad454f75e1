---- MODULE MCArea ----
(* Model-checking instance of Area. *)
EXTENDS Area, TLC

Symmetry == Permutations(Procs) \cup Permutations(Segs)
====
