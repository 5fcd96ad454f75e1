---- MODULE MCLooperLock ----
(* Model-checking instance of LooperLock. *)
EXTENDS LooperLock, TLC

Unbreached == ~breached

Symmetry == Permutations(Callers) \cup Permutations(Loopers)
====
