---- MODULE RecursiveLock ----
(***************************************************************************)
(* What a bhapi locker promises its users, with nothing said about mutexes, *)
(* condition variables or waiting: a lock with one owner at a time that the *)
(* owner may nest, and that can be closed for good.  A closed lock is never  *)
(* taken again and never nested deeper; its owner can still unwind.          *)
(***************************************************************************)
EXTENDS Naturals

CONSTANTS Threads,      \* the threads that may use the lock
          NoThread,     \* "nobody"
          MaxDepth      \* deepest nesting

VARIABLES owner, depth, shut

vars == <<owner, depth, shut>>

Init == owner = NoThread /\ depth = 0 /\ shut = FALSE

Take(t) == /\ ~shut
           /\ owner = NoThread
           /\ owner' = t
           /\ depth' = 1
           /\ UNCHANGED shut

Nest(t) == /\ ~shut
           /\ owner = t
           /\ depth < MaxDepth
           /\ depth' = depth + 1
           /\ UNCHANGED <<owner, shut>>

Unwind(t) == /\ owner = t
             /\ depth > 0
             /\ depth' = depth - 1
             /\ owner' = IF depth = 1 THEN NoThread ELSE t
             /\ UNCHANGED shut

Shut == /\ ~shut
        /\ shut' = TRUE
        /\ UNCHANGED <<owner, depth>>

Next == \/ \E t \in Threads : Take(t) \/ Nest(t) \/ Unwind(t)
        \/ Shut

Spec == Init /\ [][Next]_vars
====
