---- MODULE MCLooper ----
(* Model-checking instance of Looper. *)
EXTENDS Looper, TLC
====
