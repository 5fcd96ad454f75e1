---- MODULE MCSemaphoreIPC ----
(* Model-checking instance of SemaphoreIPC. *)
EXTENDS SemaphoreIPC, TLC

\* Invalid, none, one and two units.
SomeAmounts == -1..2

\* Requests that wait are all of two units; others are refused or served at
\* once.
OneSize == {-1, 0, 2}
====
