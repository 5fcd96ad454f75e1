---- MODULE MCSemaphore ----
(* Model-checking instance of Semaphore. *)
EXTENDS Semaphore, TLC

\* An invalid count, none, one and two units.
SomeAmounts == -1..2
====
