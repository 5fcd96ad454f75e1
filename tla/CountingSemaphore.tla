---- MODULE CountingSemaphore ----
(***************************************************************************)
(* What a bhapi semaphore promises: units that are taken n at a time, all or *)
(* none, and given back, until it is shut; a shut semaphore still hands out  *)
(* the units it has and takes none back.  The detailed Semaphore implements  *)
(* it, and Port is built on two of them.  The initial count is a first Give. *)
(***************************************************************************)
EXTENDS Integers

CONSTANT MaxUnits       \* most units a semaphore can hold

VARIABLES units, shut

Init == units = 0 /\ shut = FALSE

\* What happens to the units.
Remove(n) == /\ n > 0
             /\ n <= units
             /\ units' = units - n

Add(n) == n >= 0 /\ units' = units + n

Take(n) == Remove(n) /\ UNCHANGED shut

Give(n) == /\ ~shut
           /\ n <= MaxUnits - units
           /\ Add(n)
           /\ UNCHANGED shut

Shut == /\ ~shut
        /\ shut' = TRUE
        /\ UNCHANGED units

Next == (\E n \in 0..MaxUnits : Take(n) \/ Give(n)) \/ Shut

Spec == Init /\ [][Next]_<<units, shut>>
====
