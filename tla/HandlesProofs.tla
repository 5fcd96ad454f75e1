---- MODULE HandlesProofs ----
(* Facts about tables of references, cited by the proofs about lockers,      *)
(* semaphores, ports and threads.                                            *)
EXTENDS Handles, Integers, FiniteSetTheorems, TLAPS

\* No reference is owned at first.
LEMMA NoRefsOwned ==
    /\ NoRefs \in Tables
    /\ Owned(NoRefs) = {}
    /\ Cardinality(Owned(NoRefs)) = 0
  BY FS_EmptySet DEF NoRefs, Tables, Owned

\* The owned references are finitely many.
LEMMA OwnedFinite ==
    ASSUME NEW table
    PROVE  /\ IsFiniteSet(Owned(table))
           /\ Cardinality(Owned(table)) \in Nat
           /\ Owned(table) = {} <=> Cardinality(Owned(table)) = 0
<1>1. IsFiniteSet(Owned(table))
  BY HandlesAssumption, FS_Subset DEF HandlesAssumption, Owned
<1> QED BY <1>1, FS_CardinalityType, FS_EmptySet

\* Giving a reference (create_*, clone_*) adds one to the number owned.
LEMMA GiveRef ==
    ASSUME NEW table \in Tables, NEW u \in Threads,
           NEW new \in GivenTo(table, u)
    PROVE  /\ new \in Tables
           /\ Cardinality(Owned(new)) = Cardinality(Owned(table)) + 1
           /\ Owned(new) # {}
           /\ \A t \in Threads : Owns(table, t) => Owns(new, t)
<1>1. PICK r \in Refs \ Owned(table) : new = [table EXCEPT ![r] = u]
  BY DEF GivenTo
<1>2. new \in Tables
  BY <1>1 DEF Tables
<1>3. Owned(new) = Owned(table) \cup {r}
  BY <1>1, HandlesAssumption DEF HandlesAssumption, Tables, Owned
<1>4. Cardinality(Owned(new)) = Cardinality(Owned(table)) + 1
  BY <1>1, <1>3, OwnedFinite, FS_AddElement
<1>5. \A t \in Threads : Owns(table, t) => Owns(new, t)
  BY <1>1, HandlesAssumption DEF HandlesAssumption, Tables, Owned, Owns
<1> QED BY <1>2, <1>3, <1>4, <1>5

\* Taking a reference back (delete_*) subtracts one, and leaves the others.
LEMMA DropRef ==
    ASSUME NEW table \in Tables, NEW u \in Threads,
           NEW new \in TakenFrom(table, u)
    PROVE  /\ new \in Tables
           /\ Cardinality(Owned(new)) = Cardinality(Owned(table)) - 1
           /\ Cardinality(Owned(new)) \in Nat
           /\ Owned(new) = {} <=> Cardinality(Owned(new)) = 0
           /\ \A t \in Threads : t # u /\ Owns(table, t) => Owns(new, t)
<1>1. PICK r \in Refs : /\ table[r] = u
                        /\ new = [table EXCEPT ![r] = NoThread]
  BY DEF TakenFrom
<1>2. new \in Tables
  BY <1>1 DEF Tables
<1>3. r \in Owned(table) /\ Owned(new) = Owned(table) \ {r}
  BY <1>1, HandlesAssumption DEF HandlesAssumption, Tables, Owned
<1>4. Cardinality(Owned(new)) = Cardinality(Owned(table)) - 1
  BY <1>3, OwnedFinite, FS_RemoveElement
<1>5. \A t \in Threads : t # u /\ Owns(table, t) => Owns(new, t)
  BY <1>1, HandlesAssumption DEF HandlesAssumption, Tables, Owns
<1> QED BY <1>2, <1>4, <1>5, OwnedFinite
====
