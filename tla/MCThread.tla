---- MODULE MCThread ----
(* Model-checking instance of Thread. *)
EXTENDS Thread, TLC
====
