---- MODULE Handles ----
(***************************************************************************)
(* Client references to a reference-counted kernel object.  The wrappers'    *)
(* lockers, local semaphores and local ports all hand out void* handles:     *)
(* create_* makes the first, clone_* or open_*_by_source one more, delete_*  *)
(* gives one back, and the object lives while its refCount is not 0.  Which  *)
(* thread owns which reference is not in the code; it states the discipline  *)
(* its clients follow, that a thread uses a handle only while it owns one.   *)
(***************************************************************************)
EXTENDS FiniteSets

CONSTANTS
    Threads,    \* client threads
    NoThread,   \* nobody; also holderThreadId = 0
    Refs        \* references that clients may come to own

ASSUME HandlesAssumption ==
    /\ NoThread \notin Threads
    /\ IsFiniteSet(Refs)

\* A table of references gives each its owner.
Tables == [Refs -> Threads \cup {NoThread}]
NoRefs == [r \in Refs |-> NoThread]

Owned(table) == {r \in Refs : table[r] # NoThread}
Owns(table, t) == \E r \in Refs : table[r] = t

\* The tables that giving t one more reference, or taking one back, can yield.
GivenTo(table, t) == {[table EXCEPT ![r] = t] : r \in Refs \ Owned(table)}
TakenFrom(table, t) ==
    {[table EXCEPT ![r] = NoThread] : r \in {q \in Refs : table[q] = t}}
====
