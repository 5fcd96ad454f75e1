---- MODULE SemaphoreProofs ----
(***************************************************************************)
(* Proofs about Semaphore for any number of threads, any amounts and any     *)
(* counter width.                                                            *)
(*                                                                           *)
(* The invariant has to count: acquire_sem_etc subtracts from acquiringCount *)
(* what it added, and that this never goes below zero needs acquiringCount   *)
(* to be the number of units asked for by all the calls inside the loop, the *)
(* cardinality of Pending.                                                   *)
(***************************************************************************)
EXTENDS Semaphore, HandlesProofs

\* A call inside the loop asks for at least one unit.
AsksForUnits == \A t \in Threads : pc[t] # "idle" => req[t] > 0

Core ==
    /\ TypeOK
    /\ NoLostWakeup
    /\ acquiringCount = Cardinality(Pending)
    /\ AsksForUnits
    /\ RefsAccounted

\* Nothing has happened to a semaphore that is still to be created.
Fresh == phase = "absent" => count = 0 /\ closed = FALSE

IInv == Core /\ Fresh

\* The units asked for are finitely many, and none only if nobody waits.
LEMMA PendingFinite ==
    ASSUME TypeOK, AsksForUnits
    PROVE  /\ IsFiniteSet(Pending)
           /\ Cardinality(Pending) \in Nat
           /\ Cardinality(Pending) = 0 <=> \A t \in Threads : pc[t] = "idle"
<1>1. IsFiniteSet(1..MaxCount)
  BY FS_Interval, SemaphoreAssumption DEF SemaphoreAssumption
<1>2. IsFiniteSet(Threads \X (1..MaxCount))
  BY <1>1, FS_Product, SemaphoreAssumption DEF SemaphoreAssumption
<1>3. IsFiniteSet(Pending)
  BY <1>2, FS_Subset DEF Pending
<1>4. Pending = {} <=> \A t \in Threads : pc[t] = "idle"
  <2>1. ASSUME NEW t \in Threads, pc[t] # "idle" PROVE Pending # {}
    <3>1. <<t, 1>> \in Pending
      BY <2>1, SemaphoreAssumption
         DEF Pending, AsksForUnits, TypeOK, SemaphoreAssumption
    <3> QED BY <3>1
  <2>2. ASSUME \A t \in Threads : pc[t] = "idle" PROVE Pending = {}
    BY <2>2 DEF Pending
  <2> QED BY <2>1, <2>2
<1> QED BY <1>3, <1>4, FS_CardinalityType, FS_EmptySet

\* The units of one call.
LEMMA OneCall ==
    ASSUME NEW t \in Threads, NEW n \in 1..MaxCount
    PROVE  /\ IsFiniteSet({t} \X (1..n))
           /\ Cardinality({t} \X (1..n)) = n
<1>1. IsFiniteSet(1..n) /\ Cardinality(1..n) = n
  BY FS_Interval, SemaphoreAssumption DEF SemaphoreAssumption
<1>2. IsFiniteSet({t}) /\ Cardinality({t}) = 1
  BY FS_Singleton
<1>3. /\ IsFiniteSet({t} \X (1..n))
      /\ Cardinality({t} \X (1..n)) = 1 * n
  BY <1>1, <1>2, FS_Product
<1> QED BY <1>3, SemaphoreAssumption DEF SemaphoreAssumption

\* Entering the loop adds n units to Pending.
LEMMA EnterLoop ==
    ASSUME TypeOK, AsksForUnits, NEW t \in Threads, NEW n \in 1..MaxCount,
           pc[t] = "idle",
           pc' = [pc EXCEPT ![t] = "asleep"], req' = [req EXCEPT ![t] = n]
    PROVE  Cardinality(Pending') = Cardinality(Pending) + n
<1> DEFINE U == {t} \X (1..n)
<1>1. Pending' = Pending \cup U
  BY SemaphoreAssumption DEF TypeOK, Pending, SemaphoreAssumption
<1>2. Pending \cap U = {}
  BY DEF Pending
<1>3. IsFiniteSet(Pending) /\ Cardinality(Pending) \in Nat
  BY PendingFinite
<1>4. IsFiniteSet(U) /\ Cardinality(U) = n
  BY OneCall
<1>5. Cardinality(Pending \cup U) =
        Cardinality(Pending) + Cardinality(U) - Cardinality(Pending \cap U)
  BY <1>3, <1>4, FS_Union
<1>6. Cardinality(Pending \cap U) = 0
  BY <1>2, FS_EmptySet
<1> QED BY <1>1, <1>3, <1>4, <1>5, <1>6

\* Leaving the loop removes the units the call asked for.
LEMMA LeaveLoop ==
    ASSUME TypeOK, AsksForUnits, NEW t \in Threads,
           pc[t] # "idle",
           pc' = [pc EXCEPT ![t] = "idle"], req' = [req EXCEPT ![t] = 0]
    PROVE  /\ Cardinality(Pending') = Cardinality(Pending) - req[t]
           /\ req[t] <= Cardinality(Pending)
<1> DEFINE U == {t} \X (1..req[t])
<1>1. req[t] \in 1..MaxCount
  BY SemaphoreAssumption DEF TypeOK, AsksForUnits, SemaphoreAssumption
<1>2. Pending' = Pending \ U
  BY <1>1, SemaphoreAssumption DEF TypeOK, Pending, SemaphoreAssumption
<1>3. Pending \cap U = U
  BY <1>1, SemaphoreAssumption DEF TypeOK, Pending, SemaphoreAssumption
<1>4. IsFiniteSet(Pending) /\ Cardinality(Pending) \in Nat
  BY PendingFinite
<1>5. IsFiniteSet(U) /\ Cardinality(U) = req[t]
  BY <1>1, OneCall
<1>6. Cardinality(Pending \ U) = Cardinality(Pending) - Cardinality(Pending \cap U)
  BY <1>4, FS_Difference
<1>7. Cardinality(U) <= Cardinality(Pending)
  BY <1>3, <1>4, FS_Subset
<1> QED BY <1>2, <1>3, <1>5, <1>6, <1>7

\* A step that moves calls around inside the loop leaves Pending alone.
LEMMA SamePending ==
    ASSUME TypeOK, req' = req,
           \A t \in Threads : pc'[t] = "idle" <=> pc[t] = "idle"
    PROVE  Pending' = Pending
  BY DEF TypeOK, Pending

\* pthread_cond_broadcast starts and ends no call.
LEMMA BroadcastFacts ==
    ASSUME TypeOK, pc' = Broadcast(pc)
    PROVE  /\ pc' \in [Threads -> {"idle", "asleep", "woken", "expired", "hung"}]
           /\ \A t \in Threads : pc'[t] # "asleep"
           /\ \A t \in Threads : pc'[t] = "idle" <=> pc[t] = "idle"
  BY DEF TypeOK, Broadcast

\* A step that touches neither the references nor the phase, and starts calls
\* only in threads that own a reference, keeps RefsAccounted.
LEMMA RefsUntouched ==
    ASSUME RefsAccounted, UNCHANGED <<phase, refCount, refOwner>>,
           \A t \in Threads : pc'[t] # "idle" => Owns(refOwner, t)
    PROVE  RefsAccounted'
  BY DEF RefsAccounted

\* Initially nobody waits and no reference is owned.
LEMMA InitInv == Init => IInv
<1> SUFFICES ASSUME Init PROVE IInv OBVIOUS
<1>1. /\ refOwner \in Tables
      /\ Owned(refOwner) = {}
      /\ Cardinality(Owned(refOwner)) = 0
  BY NoRefsOwned DEF Init
<1>2. TypeOK
  <2>1. /\ count \in 0..MaxCount
        /\ acquiringCount \in 0..MaxCount
        /\ refCount \in 0..MaxRefCount
        /\ req \in [Threads -> 0..MaxCount]
    BY SemaphoreAssumption DEF Init, SemaphoreAssumption
  <2>2. /\ pc \in [Threads -> {"idle", "asleep", "woken", "expired", "hung"}]
        /\ timeout \in [Threads -> Timeouts]
        /\ status \in [Threads -> Statuses]
    BY DEF Init, Timeouts, Statuses
  <2> QED BY <1>1, <2>1, <2>2, Zenon DEF Init, TypeOK
<1>3. NoLostWakeup /\ AsksForUnits
  BY DEF Init, NoLostWakeup, AsksForUnits
<1>4. acquiringCount = Cardinality(Pending)
  BY <1>2, <1>3, PendingFinite DEF Init
<1>5. RefsAccounted
  BY <1>1 DEF Init, RefsAccounted
<1>6. Fresh
  BY DEF Init, Fresh
<1> QED BY <1>2, <1>3, <1>4, <1>5, <1>6 DEF IInv, Core

\* Every step of the semaphore preserves the core of the invariant.
LEMMA NextCore == Core /\ [Next]_vars => Core'
<1> SUFFICES ASSUME Core, [Next]_vars PROVE Core' OBVIOUS
<1> USE SemaphoreAssumption, HandlesAssumption
        DEF Core, SemaphoreAssumption, HandlesAssumption
<1>0. CASE UNCHANGED vars
  BY <1>0 DEF vars, TypeOK, NoLostWakeup, Enough, Pending, AsksForUnits,
              RefsAccounted
<1> SUFFICES ASSUME NEW t \in Threads,
                    \/ \E n \in Amounts : create_sem_for_local(t, n)
                    \/ \E u \in Threads : clone_sem_by_source(t, u)
                    \/ \E noClone \in BOOLEAN : delete_sem_etc(t, noClone)
                    \/ close_sem(t)
                    \/ \E n \in Amounts, w \in Timeouts :
                            acquire_sem_etc(t, n, w)
                    \/ AcquireAgain(t)
                    \/ AcquireTimedOut(t)
                    \/ AcquireWaitFailed(t)
                    \/ Expire(t)
                    \/ SpuriousWakeup(t)
                    \/ \E n \in Amounts, f \in Flags : release_sem_etc(t, n, f)
             PROVE  Core'
  BY <1>0 DEF Next, Resume
<1>1. ASSUME NEW n \in Amounts, create_sem_for_local(t, n) PROVE Core'
  <2>1. Cardinality(Owned(refOwner)) = 0
    BY <1>1, OwnedFinite DEF create_sem_for_local, RefsAccounted
  <2>2. /\ refOwner' \in Tables
        /\ Cardinality(Owned(refOwner')) = Cardinality(Owned(refOwner)) + 1
        /\ \A u \in Threads : Owns(refOwner, u) => Owns(refOwner', u)
        /\ Owned(refOwner') # {}
    BY <1>1, GiveRef DEF create_sem_for_local, TypeOK
  <2>3. \A u \in Threads : pc[u] = "idle"
    BY <1>1 DEF create_sem_for_local, RefsAccounted, Owns, Owned
  <2>4. TypeOK'
    BY <1>1, <2>2 DEF create_sem_for_local, TypeOK
  <2>5. NoLostWakeup' /\ AsksForUnits'
    BY <1>1, <2>3 DEF create_sem_for_local, NoLostWakeup, AsksForUnits
  <2>6. Pending' = Pending
    BY <1>1, SamePending DEF create_sem_for_local
  <2>7. RefsAccounted'
    BY <1>1, <2>1, <2>2 DEF create_sem_for_local, RefsAccounted
  <2> QED BY <1>1, <2>4, <2>5, <2>6, <2>7 DEF create_sem_for_local
<1>2. ASSUME NEW u \in Threads, clone_sem_by_source(t, u) PROVE Core'
  <2>1. NoLostWakeup' /\ AsksForUnits'
    BY <1>2 DEF clone_sem_by_source, NoLostWakeup, Enough, AsksForUnits
  <2>2. Pending' = Pending
    BY <1>2, SamePending DEF clone_sem_by_source
  <2>3. CASE no_clone \/ refCount >= MaxRefCount \/ refCount = 0
    <3>1. TypeOK'
      BY <1>2, <2>3 DEF clone_sem_by_source, Return, TypeOK, Statuses
    <3>2. RefsAccounted'
      BY <1>2, <2>3, RefsUntouched DEF clone_sem_by_source, RefsAccounted
    <3> QED BY <1>2, <2>1, <2>2, <3>1, <3>2 DEF clone_sem_by_source
  <2>4. CASE ~(no_clone \/ refCount >= MaxRefCount \/ refCount = 0)
    <3>1. /\ refOwner' \in GivenTo(refOwner, u)
          /\ refCount' = refCount + 1
          /\ Return(t, "B_OK")
      BY <1>2, <2>4 DEF clone_sem_by_source
    <3>2. /\ refOwner' \in Tables
          /\ Cardinality(Owned(refOwner')) = Cardinality(Owned(refOwner)) + 1
          /\ \A v \in Threads : Owns(refOwner, v) => Owns(refOwner', v)
          /\ Owned(refOwner') # {}
      BY <3>1, GiveRef DEF TypeOK
    <3>3. TypeOK'
      BY <1>2, <2>4, <3>1, <3>2
         DEF clone_sem_by_source, Return, TypeOK, Statuses
    <3>4. RefsAccounted'
      BY <1>2, <3>1, <3>2 DEF clone_sem_by_source, HoldsHandle, RefsAccounted
    <3> QED BY <1>2, <2>1, <2>2, <3>3, <3>4 DEF clone_sem_by_source
  <2> QED BY <2>3, <2>4
<1>3. ASSUME NEW noClone \in BOOLEAN, delete_sem_etc(t, noClone) PROVE Core'
  <2>1. /\ refOwner' \in Tables
        /\ Cardinality(Owned(refOwner')) = Cardinality(Owned(refOwner)) - 1
        /\ Cardinality(Owned(refOwner')) \in Nat
        /\ Owned(refOwner') = {} <=> Cardinality(Owned(refOwner')) = 0
        /\ \A u \in Threads : u # t /\ Owns(refOwner, u) => Owns(refOwner', u)
    BY <1>3, DropRef DEF delete_sem_etc, DropReference, TypeOK
  <2>2. refCount' = Cardinality(Owned(refOwner'))
    BY <1>3, <2>1 DEF delete_sem_etc, DropReference, RefsAccounted
  <2>3. phase' = "live" <=> Owned(refOwner') # {}
    <3> DEFINE c == Cardinality(Owned(refOwner'))
    <3> HIDE DEF c
    <3>1. c \in Nat /\ refCount' = c /\ (Owned(refOwner') = {} <=> c = 0)
      BY <2>1, <2>2 DEF c
    <3>2. phase' = IF refCount' > 0 THEN "live" ELSE "freed"
      BY <1>3 DEF delete_sem_etc, DropReference
    <3> QED BY <3>1, <3>2, SMT
  <2>4. TypeOK'
    <3>1. no_clone' \in BOOLEAN
      BY <1>3, Zenon DEF delete_sem_etc, TypeOK
    <3>2. refCount' \in 0..MaxRefCount
      BY <1>3, <2>1, <2>2 DEF delete_sem_etc, DropReference, TypeOK
    <3> QED
      BY <1>3, <2>1, <3>1, <3>2
         DEF delete_sem_etc, DropReference, Return, TypeOK, Statuses
  <2>5. NoLostWakeup' /\ AsksForUnits'
    BY <1>3 DEF delete_sem_etc, NoLostWakeup, Enough, AsksForUnits
  <2>6. Pending' = Pending
    BY <1>3, SamePending DEF delete_sem_etc
  <2>7. RefsAccounted'
    BY <1>3, <2>1, <2>2, <2>3 DEF delete_sem_etc, HoldsHandle, RefsAccounted
  <2> QED BY <1>3, <2>4, <2>5, <2>6, <2>7 DEF delete_sem_etc
<1>4. CASE close_sem(t)
  <2>1. UNCHANGED <<phase, no_clone, refCount, refOwner, count,
                    acquiringCount, iMutex, req, timeout>>
    BY <1>4 DEF close_sem, life
  <2>2. CASE closed
    <3>1. TypeOK' /\ NoLostWakeup' /\ AsksForUnits'
      BY <1>4, <2>1, <2>2 DEF close_sem, Return, TypeOK, Statuses,
                              NoLostWakeup, Enough, AsksForUnits
    <3>2. Pending' = Pending
      BY <1>4, <2>1, <2>2, SamePending DEF close_sem
    <3>3. RefsAccounted'
      BY <1>4, <2>1, <2>2, RefsUntouched DEF close_sem, RefsAccounted
    <3> QED BY <2>1, <3>1, <3>2, <3>3
  <2>3. CASE ~closed
    <3>1. pc' = Broadcast(pc) /\ closed' = TRUE /\ unannounced' = FALSE
      BY <1>4, <2>3 DEF close_sem, Close
    <3>2. TypeOK'
      BY <1>4, <2>1, <2>3, <3>1, BroadcastFacts
         DEF close_sem, Return, TypeOK, Statuses
    <3>3. NoLostWakeup' /\ AsksForUnits'
      BY <2>1, <3>1, BroadcastFacts DEF NoLostWakeup, AsksForUnits
    <3>4. Pending' = Pending
      BY <2>1, <3>1, BroadcastFacts, SamePending
    <3>5. RefsAccounted'
      BY <2>1, <3>1, BroadcastFacts, RefsUntouched DEF RefsAccounted
    <3> QED BY <2>1, <3>2, <3>3, <3>4, <3>5
  <2> QED BY <2>2, <2>3
<1>5. ASSUME NEW n \in Amounts, NEW w \in Timeouts, acquire_sem_etc(t, n, w)
      PROVE  Core'
  <2>1. /\ UNCHANGED <<phase, no_clone, refCount, refOwner, closed, iMutex,
                       unannounced>>
        /\ pc[t] = "idle"
        /\ Owns(refOwner, t)
    BY <1>5 DEF acquire_sem_etc, life, Calling, HoldsHandle
  <2>2. CASE AcquireAtOnce(t, n, w)
    <3>1. /\ UNCHANGED <<acquiringCount, pc, req, timeout>>
          /\ count' \in 0..MaxCount
          /\ count' <= count
          /\ status' \in [Threads -> Statuses]
      BY <2>2 DEF AcquireAtOnce, Enough, Return, TypeOK, Statuses
    <3>2. TypeOK'
      BY <2>1, <3>1 DEF TypeOK
    <3>3. NoLostWakeup' /\ AsksForUnits'
      BY <2>1, <3>1 DEF NoLostWakeup, Enough, AsksForUnits, TypeOK
    <3>4. Pending' = Pending
      BY <3>1, SamePending
    <3>5. RefsAccounted'
      BY <2>1, <3>1, RefsUntouched DEF RefsAccounted
    <3> QED BY <3>1, <3>2, <3>3, <3>4, <3>5
  <2>3. CASE StartWaiting(t, n, w)
    <3>1. n \in 1..MaxCount
      BY <2>3 DEF StartWaiting, TypeOK
    <3>2. TypeOK'
      BY <2>1, <2>3, <3>1 DEF StartWaiting, TypeOK
    <3>3. NoLostWakeup' /\ AsksForUnits'
      BY <2>1, <2>3, <3>1
         DEF StartWaiting, NoLostWakeup, Enough, AsksForUnits, TypeOK
    <3>4. acquiringCount' = Cardinality(Pending')
      BY <2>1, <2>3, <3>1, EnterLoop DEF StartWaiting
    <3>5. RefsAccounted'
      BY <2>1, <2>3, RefsUntouched DEF StartWaiting, RefsAccounted, TypeOK
    <3> QED BY <3>2, <3>3, <3>4, <3>5
  <2> QED BY <1>5, <2>2, <2>3 DEF acquire_sem_etc
<1>6. ASSUME NEW s \in Statuses, LeaveWait(t, s), pc[t] # "idle",
             UNCHANGED <<phase, no_clone, refCount, refOwner, closed, iMutex,
                         unannounced>>,
             count' \in 0..MaxCount, count' <= count
      PROVE  Core'
  <2>1. /\ pc' = [pc EXCEPT ![t] = "idle"]
        /\ req' = [req EXCEPT ![t] = 0]
        /\ acquiringCount' = acquiringCount - req[t]
    BY <1>6 DEF LeaveWait
  <2>2. /\ Cardinality(Pending') = Cardinality(Pending) - req[t]
        /\ req[t] <= Cardinality(Pending)
    BY <1>6, <2>1, LeaveLoop
  <2>3. acquiringCount' \in 0..MaxCount
    BY <2>1, <2>2 DEF TypeOK
  <2>4. TypeOK'
    BY <1>6, <2>1, <2>3 DEF LeaveWait, Return, TypeOK, Timeouts
  <2>5. NoLostWakeup' /\ AsksForUnits'
    BY <1>6, <2>1 DEF NoLostWakeup, Enough, AsksForUnits, TypeOK
  <2>6. RefsAccounted'
    BY <1>6, <2>1, RefsUntouched DEF RefsAccounted, TypeOK
  <2> QED BY <2>1, <2>2, <2>4, <2>5, <2>6
<1>7. ASSUME UNCHANGED <<phase, count, acquiringCount, closed, no_clone,
                         refCount, refOwner, req, timeout, status,
                         unannounced>>,
             iMutex' \in Threads \cup {NoThread},
             pc[t] # "idle",
             \/ pc' = [pc EXCEPT ![t] = "asleep"] /\ ~Enough(req[t]) /\ ~closed
             \/ pc' = [pc EXCEPT ![t] = "hung"]
             \/ pc' = [pc EXCEPT ![t] = "expired"]
             \/ pc' = [pc EXCEPT ![t] = "woken"]
      PROVE  Core'
  <2>1. \A u \in Threads : pc'[u] = "idle" <=> pc[u] = "idle"
    BY <1>7 DEF TypeOK
  <2>2. TypeOK'
    BY <1>7 DEF TypeOK
  <2>3. NoLostWakeup' /\ AsksForUnits'
    BY <1>7, <2>1 DEF NoLostWakeup, Enough, AsksForUnits, TypeOK
  <2>4. Pending' = Pending
    BY <1>7, <2>1, SamePending
  <2>5. RefsAccounted'
    BY <1>7, <2>1, RefsUntouched DEF RefsAccounted
  <2> QED BY <1>7, <2>2, <2>3, <2>4, <2>5
<1>8. CASE AcquireAgain(t)
  <2>1. CASE Enough(req[t])
    <3>1. LeaveWait(t, "B_OK") /\ count' = count - req[t]
      BY <1>8, <2>1 DEF AcquireAgain
    <3>2. count' \in 0..MaxCount /\ count' <= count
      BY <2>1, <3>1 DEF Enough, TypeOK
    <3> QED BY <1>6, <1>8, <3>1, <3>2 DEF AcquireAgain, life, Statuses
  <2>2. CASE ~Enough(req[t]) /\ closed
    BY <1>6, <1>8, <2>2 DEF AcquireAgain, life, Statuses, TypeOK
  <2>3. CASE ~Enough(req[t]) /\ ~closed
    BY <1>7, <1>8, <2>3 DEF AcquireAgain, life, TypeOK
  <2> QED BY <2>1, <2>2, <2>3
<1>9. CASE AcquireTimedOut(t)
  BY <1>6, <1>9 DEF AcquireTimedOut, life, Statuses, TypeOK
<1>10. CASE AcquireWaitFailed(t) \/ Expire(t) \/ SpuriousWakeup(t)
  BY <1>7, <1>10
     DEF AcquireWaitFailed, Expire, SpuriousWakeup, life, TypeOK
<1>11. ASSUME NEW n \in Amounts, NEW f \in Flags, release_sem_etc(t, n, f)
       PROVE  Core'
  <2>1. UNCHANGED <<phase, no_clone, refCount, refOwner, acquiringCount,
                    closed, iMutex, req, timeout>>
    BY <1>11 DEF release_sem_etc, life
  <2>2. /\ count' \in 0..MaxCount
        /\ status' \in [Threads -> Statuses]
    BY <1>11 DEF release_sem_etc, RoomFor, Return, TypeOK, Statuses
  <2>3. CASE UNCHANGED <<count, pc, unannounced>>
    <3>1. TypeOK' /\ NoLostWakeup' /\ AsksForUnits'
      BY <2>1, <2>2, <2>3 DEF TypeOK, NoLostWakeup, Enough, AsksForUnits
    <3>2. Pending' = Pending
      BY <2>1, <2>3, SamePending
    <3>3. RefsAccounted'
      BY <2>1, <2>3, RefsUntouched DEF RefsAccounted
    <3> QED BY <2>1, <3>1, <3>2, <3>3
  <2>4. CASE unannounced' = TRUE /\ UNCHANGED pc
    <3>1. TypeOK' /\ NoLostWakeup' /\ AsksForUnits'
      BY <2>1, <2>2, <2>4 DEF TypeOK, NoLostWakeup, AsksForUnits
    <3>2. Pending' = Pending
      BY <2>1, <2>4, SamePending
    <3>3. RefsAccounted'
      BY <2>1, <2>4, RefsUntouched DEF RefsAccounted
    <3> QED BY <2>1, <3>1, <3>2, <3>3
  <2>5. CASE unannounced' = FALSE /\ pc' = Broadcast(pc)
    <3>1. TypeOK' /\ NoLostWakeup' /\ AsksForUnits'
      BY <2>1, <2>2, <2>5, BroadcastFacts
         DEF TypeOK, NoLostWakeup, AsksForUnits
    <3>2. Pending' = Pending
      BY <2>1, <2>5, BroadcastFacts, SamePending
    <3>3. RefsAccounted'
      BY <2>1, <2>5, BroadcastFacts, RefsUntouched DEF RefsAccounted
    <3> QED BY <2>1, <3>1, <3>2, <3>3
  <2> QED BY <1>11, <2>3, <2>4, <2>5 DEF release_sem_etc, Announce
<1> QED BY <1>1, <1>2, <1>3, <1>4, <1>5, <1>8, <1>9, <1>10, <1>11

\* Every step leaves the semaphore created.
LEMMA NextFresh == IInv /\ [Next]_vars => Fresh'
<1> SUFFICES ASSUME IInv, [Next]_vars PROVE Fresh' OBVIOUS
<1>1. CASE UNCHANGED vars
  BY <1>1 DEF vars, IInv, Fresh
<1>2. ASSUME NEW t \in Threads,
             \/ \E n \in Amounts : create_sem_for_local(t, n)
             \/ \E noClone \in BOOLEAN : delete_sem_etc(t, noClone)
      PROVE  phase' # "absent"
  BY <1>2 DEF create_sem_for_local, delete_sem_etc, DropReference
<1>3. ASSUME NEW t \in Threads, pc[t] # "idle" PROVE phase = "live"
  <2>1. Owned(refOwner) # {}
    BY <1>3, HandlesAssumption
       DEF IInv, Core, RefsAccounted, Owns, Owned, HandlesAssumption
  <2> QED BY <2>1 DEF IInv, Core, RefsAccounted
<1>4. ASSUME NEW t \in Threads,
             \/ \E u \in Threads : clone_sem_by_source(t, u)
             \/ close_sem(t)
             \/ \E n \in Amounts, w \in Timeouts : acquire_sem_etc(t, n, w)
             \/ \E n \in Amounts, f \in Flags : release_sem_etc(t, n, f)
      PROVE  phase' # "absent"
  BY <1>4 DEF clone_sem_by_source, close_sem, acquire_sem_etc,
              release_sem_etc, Calling, HoldsHandle, life
<1>5. ASSUME NEW t \in Threads,
             \/ AcquireAgain(t)
             \/ AcquireTimedOut(t)
             \/ AcquireWaitFailed(t)
             \/ Expire(t)
             \/ SpuriousWakeup(t)
      PROVE  phase' # "absent"
  BY <1>3, <1>5 DEF AcquireAgain, AcquireTimedOut, AcquireWaitFailed, Expire,
                    SpuriousWakeup, life
<1> QED BY <1>1, <1>2, <1>4, <1>5 DEF Next, Resume, Fresh

-----------------------------------------------------------------------------

\* The invariant holds for any number of threads and any amounts.
THEOREM SemaphoreInvariant == Spec => []IInv
<1>1. IInv /\ [Next]_vars => IInv'
  BY NextCore, NextFresh DEF IInv, Core
<1> QED BY <1>1, InitInv, PTL DEF Spec

\* Counters stay in range: neither count nor acquiringCount overflows or goes
\* below zero.
THEOREM SemaphoreTypeOK == Spec => []TypeOK
  BY SemaphoreInvariant, PTL DEF IInv, Core

\* Nobody sleeps while the units asked for are there and announced.
THEOREM SemaphoreWakeups == Spec => []NoLostWakeup
  BY SemaphoreInvariant, PTL DEF IInv, Core

\* The semaphore is freed with its last reference and no waiter inside.
THEOREM SemaphoreRefs == Spec => []RefsAccounted
  BY SemaphoreInvariant, PTL DEF IInv, Core

\* acquiringCount is exact, and get_sem_count is negative while anybody waits.
THEOREM AcquiringIsExact == Spec => []AcquiringAccounted
<1>1. IInv => AcquiringAccounted
  <2> SUFFICES ASSUME IInv PROVE AcquiringAccounted OBVIOUS
  <2>1. Cardinality(Pending) = 0 <=> \A t \in Threads : pc[t] = "idle"
    BY PendingFinite DEF IInv, Core
  <2> QED
    BY <2>1, SemaphoreAssumption
       DEF IInv, Core, AcquiringAccounted, get_sem_count, TypeOK, SemaphoreAssumption
<1> QED BY <1>1, SemaphoreInvariant, PTL

\* The semaphore implements the abstract counting semaphore.
THEOREM SemaphoreRefinement == Spec => ImplementsCountingSemaphore
<1>1. Init => Abstract!Init
  BY DEF Init, Abstract!Init
<1>2. IInv /\ [Next]_vars => [Abstract!Next]_<<count, closed>>
  <2> SUFFICES ASSUME IInv, [Next]_vars
               PROVE  [Abstract!Next]_<<count, closed>>
    OBVIOUS
  <2> USE SemaphoreAssumption DEF IInv, Core, TypeOK, SemaphoreAssumption
  <2>1. CASE UNCHANGED <<count, closed>>
    BY <2>1
  <2>2. ASSUME NEW n \in 0..MaxCount, Abstract!Take(n) \/ Abstract!Give(n)
        PROVE  [Abstract!Next]_<<count, closed>>
    BY <2>2 DEF Abstract!Next
  <2>3. ASSUME NEW t \in Threads, NEW n \in Amounts, create_sem_for_local(t, n)
        PROVE  [Abstract!Next]_<<count, closed>>
    BY <2>2, <2>3 DEF create_sem_for_local, Fresh, Abstract!Give, Abstract!Add
  <2>4. ASSUME NEW t \in Threads, close_sem(t)
        PROVE  [Abstract!Next]_<<count, closed>>
    BY <2>4 DEF close_sem, Close, Abstract!Next, Abstract!Shut
  <2>5. ASSUME NEW t \in Threads, NEW n \in Amounts, NEW w \in Timeouts,
               acquire_sem_etc(t, n, w)
        PROVE  [Abstract!Next]_<<count, closed>>
    <3>1. CASE UNCHANGED count
      BY <2>1, <2>5, <3>1 DEF acquire_sem_etc
    <3>2. CASE n >= 1 /\ Enough(n) /\ count' = count - n
      BY <2>2, <2>5, <3>2 DEF acquire_sem_etc, Enough, Abstract!Take, Abstract!Remove
    <3> QED BY <2>5, <3>1, <3>2 DEF acquire_sem_etc, AcquireAtOnce, StartWaiting
  <2>6. ASSUME NEW t \in Threads, AcquireAgain(t)
        PROVE  [Abstract!Next]_<<count, closed>>
    BY <2>1, <2>2, <2>6 DEF AcquireAgain, Enough, AsksForUnits, Abstract!Take, Abstract!Remove
  <2>7. ASSUME NEW t \in Threads, NEW n \in Amounts, NEW f \in Flags,
               release_sem_etc(t, n, f)
        PROVE  [Abstract!Next]_<<count, closed>>
    BY <2>1, <2>2, <2>7 DEF release_sem_etc, RoomFor, Abstract!Give, Abstract!Add
  <2> QED
    BY <2>1, <2>3, <2>4, <2>5, <2>6, <2>7
       DEF Next, Resume, vars, life, clone_sem_by_source, delete_sem_etc,
           AcquireTimedOut, AcquireWaitFailed, Expire, SpuriousWakeup
<1> QED
  BY <1>1, <1>2, SemaphoreInvariant, PTL
     DEF Spec, ImplementsCountingSemaphore, Abstract!Spec
====
