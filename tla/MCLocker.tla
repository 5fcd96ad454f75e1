---- MODULE MCLocker ----
(* Model-checking instance of Locker. *)
EXTENDS Locker, TLC
====
