---- MODULE MCReply ----
(* Model-checking instance of Reply. *)
EXTENDS Reply
====
