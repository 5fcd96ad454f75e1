---- MODULE MCTokens ----
(* Model-checking instance of Tokens. *)
EXTENDS Tokens, TLC

Symmetry == Permutations(Messengers)
====
