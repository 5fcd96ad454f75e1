---- MODULE MCPort ----
(* Model-checking instance of Port. *)
EXTENDS Port, TLC
====
