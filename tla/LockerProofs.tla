---- MODULE LockerProofs ----
(***************************************************************************)
(* Proofs about Locker for any number of threads and references, about       *)
(* LooperLock, where loopers share lockers (second part), and about Looper,  *)
(* where they share a thread and a semaphore (third part).                   *)
(*                                                                           *)
(* IInv is inductive.  TypeOK alone is not: unlock_locker keeps lockCount a  *)
(* natural number only because holderThreadId and lockCount agree            *)
(* (HolderAgrees), and delete_locker keeps refCount one only because         *)
(* refCount counts the references owned (RefsAccounted).                     *)
(*                                                                           *)
(* LockInv is inductive for LooperLock until a torn lookup passes.  Loopers  *)
(* that no ProxyBy has still to move have the same locker if and only if     *)
(* they have the same root (SettledShareLockers); those still to move have   *)
(* the old one, which the mover holds, and so has nobody else a hand in      *)
(* their tree (MovesAreSound).  Hence a lookup that was not torn knows a     *)
(* root of its locker's loopers, or its locker is closed or about to be      *)
(* (CallsAreCurrent), and every lock on a locker is a lock on one of its     *)
(* loopers or a lookup about to compare roots (LocksCounted).                *)
(*                                                                           *)
(* LoopInv is inductive for Looper: a tree has a token for each message if   *)
(* its root's thread alone waits for its semaphore (OwnEars), but            *)
(* for the one its thread took when it woke up; that one is owed until the   *)
(* thread takes a message or has passed over every looper of the tree, and   *)
(* then the loopers passed over have tokens for what came in behind it       *)
(* (TokensSuffice).  A round misses nobody because who is ahead of it in the *)
(* order of the clients stays ahead while no looper moves (NextFacts), and   *)
(* no looper of its tree moves without the tree's locker, which no two       *)
(* threads hold (LocksApart).                                                *)
(***************************************************************************)
EXTENDS Locker, LooperLock, Looper, HandlesProofs, SequenceTheorems

IInv == TypeOK /\ HolderAgrees /\ NoLostWakeup /\ RefsAccounted

\* No reference is owned, and no call is in progress, before create_locker.
LEMMA InitInv == LockerAssumption /\ Init => IInv
<1> SUFFICES ASSUME LockerAssumption, Init PROVE IInv OBVIOUS
<1>1. /\ refOwner \in Tables
      /\ Owned(refOwner) = {}
      /\ Cardinality(Owned(refOwner)) = 0
  BY NoRefsOwned DEF Init
<1>3. TypeOK
  <2>1. /\ lockCount \in 0..MaxLockCount
        /\ refCount \in 0..MaxRefCount
    BY DEF Init, LockerAssumption
  <2>2. /\ pc \in [Threads -> {"idle", "asleep", "woken", "expired"}]
        /\ timeout \in [Threads -> Timeouts]
        /\ status \in [Threads -> Statuses]
    BY DEF Init, Timeouts, Statuses
  <2> QED BY <1>1, <2>1, <2>2, Zenon DEF Init, TypeOK
<1>4. HolderAgrees /\ NoLostWakeup
  BY DEF Init, HolderAgrees, NoLostWakeup
<1>5. RefsAccounted
  BY <1>1 DEF Init, RefsAccounted
<1> QED BY <1>3, <1>4, <1>5 DEF IInv

\* What pthread_cond_broadcast does to pc keeps its type, leaves nobody
\* asleep, and starts and ends no call.
LEMMA BroadcastFacts ==
    ASSUME TypeOK, pc' = Broadcast(pc)
    PROVE  /\ pc' \in [Threads -> {"idle", "asleep", "woken", "expired"}]
           /\ \A t \in Threads : pc'[t] # "asleep"
           /\ \A t \in Threads : pc'[t] # "idle" => pc[t] # "idle"
  BY DEF TypeOK, Broadcast

\* The two outcomes of a successful trylock, and the loop around it, preserve
\* the invariant's parts that speak of the lock and its sleepers.
LEMMA LockLoopFacts ==
    ASSUME LockerAssumption, TypeOK, HolderAgrees, NoLostWakeup,
           NEW t \in Threads, LockLoop(t) \/ LockNow(t),
           closed' = closed
    PROVE  /\ holder' \in Threads \cup {NoThread}
           /\ mutex' \in Threads \cup {NoThread}
           /\ lockCount' \in 0..MaxLockCount
           /\ pc' \in [Threads -> {"idle", "asleep", "woken", "expired"}]
           /\ status' \in [Threads -> Statuses]
           /\ HolderAgrees'
           /\ NoLostWakeup'
           /\ \A u \in Threads : u # t => pc'[u] = pc[u]
<1> USE HandlesAssumption
        DEF TypeOK, HolderAgrees, NoLostWakeup, Return, Statuses,
            LockerAssumption, HandlesAssumption
<1>1. CASE mutex = NoThread /\ Obtained(t) /\ closed
  BY <1>1 DEF Obtained
<1>2. CASE mutex = NoThread /\ Obtained(t) /\ ~closed
  BY <1>2 DEF Obtained
<1>3. CASE LockLoop(t) /\ mutex # NoThread
  BY <1>3 DEF LockLoop
<1>4. CASE LockNow(t) /\ mutex # NoThread
  BY <1>4 DEF LockNow
<1> QED BY <1>1, <1>2, <1>3, <1>4 DEF LockLoop, LockNow

\* A step that touches neither the references nor the phase, and starts calls
\* only in threads that own a reference, keeps RefsAccounted.
LEMMA RefsUntouched ==
    ASSUME RefsAccounted, UNCHANGED <<phase, refCount, refOwner>>,
           \A t \in Threads : pc'[t] # "idle" => Owns(refOwner, t)
    PROVE  RefsAccounted'
  BY DEF RefsAccounted

\* Every step of the locker preserves the invariant.
LEMMA NextInv == LockerAssumption /\ IInv /\ [Next]_vars => IInv'
<1> SUFFICES ASSUME LockerAssumption, IInv, [Next]_vars PROVE IInv' OBVIOUS
<1> USE HandlesAssumption DEF IInv, HandlesAssumption
<1>0. CASE UNCHANGED vars
  BY <1>0 DEF vars, TypeOK, HolderAgrees, NoLostWakeup, RefsAccounted
<1> SUFFICES ASSUME NEW t \in Threads,
                    \/ create_locker(t)
                    \/ \E u \in Threads : clone_locker(t, u)
                    \/ delete_locker(t)
                    \/ close_locker(t)
                    \/ \E w \in Timeouts : lock_locker_etc(t, w)
                    \/ LockAgain(t)
                    \/ LockTimedOut(t)
                    \/ LockWaitFailed(t)
                    \/ unlock_locker(t)
                    \/ Expire(t)
                    \/ SpuriousWakeup(t)
             PROVE  IInv'
  BY <1>0 DEF Next, Resume
<1>1. CASE create_locker(t)
  <2>1. refOwner' \in GivenTo(refOwner, t)
    BY <1>1 DEF create_locker
  <2>2. Cardinality(Owned(refOwner)) = 0
    BY <1>1, OwnedFinite DEF create_locker, RefsAccounted
  <2>3. /\ refOwner' \in Tables
        /\ Cardinality(Owned(refOwner')) = Cardinality(Owned(refOwner)) + 1
        /\ \A u \in Threads : Owns(refOwner, u) => Owns(refOwner', u)
        /\ Owned(refOwner') # {}
    BY <2>1, GiveRef DEF TypeOK
  <2>4. TypeOK'
    BY <1>1, <2>3 DEF create_locker, TypeOK, LockerAssumption
  <2>5. HolderAgrees' /\ NoLostWakeup'
    BY <1>1 DEF create_locker, HolderAgrees, NoLostWakeup
  <2>6. RefsAccounted'
    BY <1>1, <2>2, <2>3 DEF create_locker, RefsAccounted
  <2> QED BY <2>4, <2>5, <2>6
<1>2. ASSUME NEW u \in Threads, clone_locker(t, u) PROVE IInv'
  <2>1. HolderAgrees' /\ NoLostWakeup'
    BY <1>2 DEF clone_locker, HolderAgrees, NoLostWakeup
  <2>2. CASE closed \/ refCount >= MaxRefCount
    <3>1. TypeOK'
      BY <1>2, <2>2 DEF clone_locker, Return, TypeOK, Statuses
    <3>2. RefsAccounted'
      BY <1>2, <2>2, RefsUntouched DEF clone_locker, RefsAccounted
    <3> QED BY <2>1, <3>1, <3>2
  <2>3. CASE ~(closed \/ refCount >= MaxRefCount)
    <3>1. /\ refOwner' \in GivenTo(refOwner, u)
          /\ refCount' = refCount + 1
          /\ Return(t, "B_OK")
      BY <1>2, <2>3 DEF clone_locker
    <3>2. /\ refOwner' \in Tables
          /\ Cardinality(Owned(refOwner')) = Cardinality(Owned(refOwner)) + 1
          /\ \A v \in Threads : Owns(refOwner, v) => Owns(refOwner', v)
          /\ Owned(refOwner') # {}
      BY <3>1, GiveRef DEF TypeOK
    <3>3. TypeOK'
      BY <1>2, <2>3, <3>1, <3>2
         DEF clone_locker, Return, TypeOK, Statuses, LockerAssumption
    <3>4. RefsAccounted'
      BY <1>2, <3>1, <3>2 DEF clone_locker, Calling, RefsAccounted
    <3> QED BY <2>1, <3>3, <3>4
  <2> QED BY <2>2, <2>3
<1>3. CASE delete_locker(t)
  <2>1. refOwner' \in TakenFrom(refOwner, t)
    BY <1>3 DEF delete_locker
  <2>3. /\ refOwner' \in Tables
        /\ Cardinality(Owned(refOwner')) = Cardinality(Owned(refOwner)) - 1
        /\ Cardinality(Owned(refOwner')) \in Nat
        /\ Owned(refOwner') = {} <=> Cardinality(Owned(refOwner')) = 0
        /\ \A u \in Threads : u # t /\ Owns(refOwner, u) => Owns(refOwner', u)
    BY <2>1, DropRef DEF TypeOK
  <2>4. refCount' = Cardinality(Owned(refOwner'))
    BY <1>3, <2>3 DEF delete_locker, RefsAccounted
  <2>5. TypeOK'
    BY <1>3, <2>3, <2>4
       DEF delete_locker, Return, LastRef, TypeOK, Statuses, LockerAssumption
  <2>6. HolderAgrees' /\ NoLostWakeup'
    BY <1>3 DEF delete_locker, HolderAgrees, NoLostWakeup
  <2>7. phase' = "live" <=> Owned(refOwner') # {}
    BY <1>3, <2>3, <2>4 DEF delete_locker, LastRef
  <2>8. \A u \in Threads : pc'[u] # "idle" => Owns(refOwner', u)
    BY <1>3, <2>3 DEF delete_locker, Calling, RefsAccounted
  <2> QED BY <2>4, <2>5, <2>6, <2>7, <2>8 DEF RefsAccounted
<1>4. CASE close_locker(t)
  <2>1. CASE closed
    <3>1. TypeOK' /\ HolderAgrees' /\ NoLostWakeup'
      BY <1>4, <2>1 DEF close_locker, Close, Return, TypeOK, Statuses,
                        HolderAgrees, NoLostWakeup
    <3>2. RefsAccounted'
      BY <1>4, <2>1, RefsUntouched DEF close_locker, Close, RefsAccounted
    <3> QED BY <3>1, <3>2
  <2>2. CASE ~closed
    <3>1. pc' = Broadcast(pc)
      BY <1>4, <2>2 DEF close_locker, Close
    <3>2. TypeOK' /\ HolderAgrees' /\ NoLostWakeup'
      BY <1>4, <2>2, <3>1, BroadcastFacts
         DEF close_locker, Close, Return, TypeOK, Statuses, HolderAgrees,
             NoLostWakeup
    <3>3. RefsAccounted'
      BY <1>4, <3>1, BroadcastFacts, RefsUntouched
         DEF close_locker, Close, RefsAccounted
    <3> QED BY <3>2, <3>3
  <2> QED BY <2>1, <2>2
<1>5. ASSUME NEW w \in Timeouts, lock_locker_etc(t, w) PROVE IInv'
  <2>1. /\ UNCHANGED <<phase, closed, refCount, iLocker, refOwner>>
        /\ timeout' \in [Threads -> Timeouts]
        /\ Owns(refOwner, t)
    BY <1>5 DEF lock_locker_etc, Calling, TypeOK
  <2>2. CASE LockAtOnce(t, w)
    <3>1. TypeOK' /\ HolderAgrees' /\ NoLostWakeup'
      BY <2>1, <2>2
         DEF LockAtOnce, NestFull, Return, TypeOK, Statuses, HolderAgrees,
             NoLostWakeup, LockerAssumption
    <3>2. RefsAccounted'
      BY <2>1, <2>2, RefsUntouched DEF LockAtOnce, RefsAccounted
    <3> QED BY <3>1, <3>2
  <2>3. CASE LockNow(t) \/ LockLoop(t)
    <3>1. TypeOK' /\ HolderAgrees' /\ NoLostWakeup'
      BY <2>1, <2>3, LockLoopFacts DEF TypeOK
    <3>2. RefsAccounted'
      BY <2>1, <2>3, LockLoopFacts, RefsUntouched DEF RefsAccounted
    <3> QED BY <3>1, <3>2
  <2> QED BY <1>5, <2>2, <2>3 DEF lock_locker_etc
<1>6. CASE LockAgain(t)
  <2>1. TypeOK' /\ HolderAgrees' /\ NoLostWakeup'
    BY <1>6, LockLoopFacts DEF LockAgain, TypeOK
  <2>2. RefsAccounted'
    BY <1>6, LockLoopFacts, RefsUntouched DEF LockAgain, RefsAccounted
  <2> QED BY <2>1, <2>2
<1>7. CASE LockTimedOut(t) \/ LockWaitFailed(t)
  <2>1. TypeOK' /\ HolderAgrees' /\ NoLostWakeup'
    BY <1>7 DEF LockTimedOut, LockWaitFailed, Return, TypeOK, Statuses,
                HolderAgrees, NoLostWakeup
  <2>2. RefsAccounted'
    BY <1>7, RefsUntouched
       DEF LockTimedOut, LockWaitFailed, RefsAccounted, TypeOK
  <2> QED BY <2>1, <2>2
<1>8. CASE unlock_locker(t)
  <2>1. CASE holder # t
    <3>1. TypeOK' /\ HolderAgrees' /\ NoLostWakeup'
      BY <1>8, <2>1 DEF unlock_locker, LetGo, Return, TypeOK, Statuses,
                        HolderAgrees, NoLostWakeup
    <3>2. RefsAccounted'
      BY <1>8, <2>1, RefsUntouched DEF unlock_locker, LetGo, RefsAccounted
    <3> QED BY <3>1, <3>2
  <2>2. CASE holder = t /\ lockCount = 1
    <3>1. pc' = Broadcast(pc)
      BY <1>8, <2>2 DEF unlock_locker, LetGo
    <3>2. TypeOK' /\ HolderAgrees' /\ NoLostWakeup'
      BY <1>8, <2>2, <3>1, BroadcastFacts
         DEF unlock_locker, LetGo, Return, TypeOK, Statuses, HolderAgrees,
             NoLostWakeup, LockerAssumption
    <3>3. RefsAccounted'
      BY <1>8, <3>1, BroadcastFacts, RefsUntouched
         DEF unlock_locker, LetGo, RefsAccounted
    <3> QED BY <3>2, <3>3
  <2>3. CASE holder = t /\ lockCount # 1
    <3>1. TypeOK' /\ HolderAgrees' /\ NoLostWakeup'
      BY <1>8, <2>3 DEF unlock_locker, LetGo, Return, TypeOK, Statuses,
                        HolderAgrees, NoLostWakeup, LockerAssumption
    <3>2. RefsAccounted'
      BY <1>8, <2>3, RefsUntouched DEF unlock_locker, LetGo, RefsAccounted
    <3> QED BY <3>1, <3>2
  <2> QED BY <2>1, <2>2, <2>3
<1>9. CASE Expire(t) \/ SpuriousWakeup(t)
  <2>1. TypeOK' /\ HolderAgrees' /\ NoLostWakeup'
    BY <1>9 DEF Expire, SpuriousWakeup, fields, TypeOK, HolderAgrees,
                NoLostWakeup
  <2>2. RefsAccounted'
    BY <1>9, RefsUntouched
       DEF Expire, SpuriousWakeup, fields, RefsAccounted, TypeOK
  <2> QED BY <2>1, <2>2
<1> QED BY <1>1, <1>2, <1>3, <1>4, <1>5, <1>6, <1>7, <1>8, <1>9

-----------------------------------------------------------------------------

\* For any number of threads and references: the locker's records of its
\* holder agree, no wakeup is lost, and the reference count is exact.
THEOREM LockerInvariant == Spec => []IInv
<1>1. Init => IInv
  BY InitInv, LockerAssumption
<1>2. IInv /\ [Next]_vars => IInv'
  BY NextInv, LockerAssumption
<1> QED BY <1>1, <1>2, PTL DEF Spec

\* holderThreadId, lockCount and the mutex Locker always agree.
THEOREM OwnerIsConsistent == Spec => []OwnerConsistent
<1>1. IInv => OwnerConsistent
  <2> SUFFICES ASSUME IInv, NEW t \in Threads
               PROVE  /\ HolderAgrees
                      /\ count_locker_locks(t) > 0 <=> mutex = t
                      /\ count_locker_locks(t) = 0 <=> mutex = NoThread
    BY DEF IInv, OwnerConsistent
  <2> QED
    BY LockerAssumption, HandlesAssumption
       DEF IInv, TypeOK, HolderAgrees, count_locker_locks, HandlesAssumption
<1> QED BY <1>1, LockerInvariant, PTL

\* The fields of the locker keep their types, and lockCount its width.
THEOREM LockerTypeOK == Spec => []TypeOK
  BY LockerInvariant, PTL DEF IInv

\* A thread never sleeps on Cond while the lock is free or the locker closed.
THEOREM WakeupsAreNotLost == Spec => []NoLostWakeup
  BY LockerInvariant, PTL DEF IInv

\* delete_locker frees the locker with its last reference and no waiter inside.
THEOREM RefsAreAccounted == Spec => []RefsAccounted
  BY LockerInvariant, PTL DEF IInv

\* After close_locker the lock is only ever unwound.
THEOREM ClosedForGood == Spec => CloseIsFinal
<1> DEFINE A == closed => closed' /\ lockCount' <= lockCount
                          /\ (holder' # holder => holder' = NoThread)
<1>1. IInv /\ [Next]_vars => [A]_vars
  <2> SUFFICES ASSUME IInv, Next, closed PROVE A
    OBVIOUS
  <2>1. lockCount \in Nat /\ closed \in BOOLEAN
    BY LockerAssumption DEF IInv, TypeOK
  <2>2. CASE UNCHANGED <<closed, holder, lockCount>>
    BY <2>1, <2>2
  <2>3. ASSUME NEW t \in Threads, unlock_locker(t) PROVE A
    BY <2>1, <2>3 DEF unlock_locker, LetGo
  <2>4. ASSUME NEW t \in Threads, NEW w \in Timeouts, lock_locker_etc(t, w)
        PROVE  UNCHANGED <<closed, holder, lockCount>>
    BY <2>4 DEF lock_locker_etc, LockAtOnce, LockNow
  <2>5. ASSUME NEW t \in Threads, LockAgain(t)
        PROVE  UNCHANGED <<closed, holder, lockCount>>
    BY <2>5 DEF LockAgain, LockLoop, Obtained
  <2>6. ASSUME NEW t \in Threads, close_locker(t)
        PROVE  UNCHANGED <<closed, holder, lockCount>>
    BY <2>6 DEF close_locker
  <2> QED
    BY <2>2, <2>3, <2>4, <2>5, <2>6
       DEF Next, Resume, create_locker, clone_locker, delete_locker,
           LockTimedOut, LockWaitFailed, Expire, SpuriousWakeup, fields
<1> QED BY <1>1, LockerInvariant, PTL DEF Spec, CloseIsFinal

\* The locker implements the abstract recursive lock.
THEOREM Refinement == Spec => ImplementsRecursiveLock
<1>1. Init => Abstract!Init
  BY DEF Init, Abstract!Init
<1>2. IInv /\ [Next]_vars => [Abstract!Next]_Abstract!vars
  <2> SUFFICES ASSUME IInv, [Next]_vars
               PROVE  [Abstract!Next]_Abstract!vars
    OBVIOUS
  <2> USE LockerAssumption, HandlesAssumption
          DEF IInv, TypeOK, HolderAgrees, HandlesAssumption, Abstract!vars
  <2>1. CASE UNCHANGED <<holder, lockCount, closed>>
    BY <2>1
  <2>2. ASSUME NEW t \in Threads, close_locker(t)
        PROVE  [Abstract!Next]_Abstract!vars
    BY <2>2 DEF close_locker, Close, Abstract!Next, Abstract!Shut
  <2>3. ASSUME NEW t \in Threads, unlock_locker(t)
        PROVE  [Abstract!Next]_Abstract!vars
    BY <2>3 DEF unlock_locker, LetGo, Abstract!Next, Abstract!Unwind
  <2>4. ASSUME NEW t \in Threads, NEW w \in Timeouts, LockAtOnce(t, w),
               UNCHANGED closed
        PROVE  [Abstract!Next]_Abstract!vars
    BY <2>4 DEF LockAtOnce, NestFull, Abstract!Next, Abstract!Nest
  <2>5. ASSUME NEW t \in Threads, LockNow(t) \/ LockLoop(t), UNCHANGED closed
        PROVE  [Abstract!Next]_Abstract!vars
    BY <2>5 DEF LockNow, LockLoop, Obtained, Abstract!Next, Abstract!Take
  <2> QED
    BY <2>1, <2>2, <2>3, <2>4, <2>5
       DEF Next, Resume, vars, fields, create_locker, clone_locker,
           delete_locker, lock_locker_etc, LockAgain, LockTimedOut,
           LockWaitFailed, Expire, SpuriousWakeup
<1> QED
  BY <1>1, <1>2, LockerInvariant, PTL
     DEF Spec, ImplementsRecursiveLock, Abstract!Spec

-----------------------------------------------------------------------------
(* The lockers that loopers share: LooperLock, for any number of threads,    *)
(* loopers, lockers and locks                                                *)

-----------------------------------------------------------------------------
(* Proxies *)

Proxying == [Loopers -> Loopers \cup {None}]

\* With a looper, S has its proxy.
Upwards(f, S) == \A d \in S : f[d] # None => f[d] \in S

\* Every walk along proxies ends.
Rooted(f) == \A l \in Loopers : \E r \in AndAbove(f, l) : f[r] = None

\* What is above l is in every set that has l and goes upwards, and is such a set.
LEMMA AboveIn ==
    ASSUME NEW f, NEW l, NEW S \in SUBSET Loopers, l \in S, Upwards(f, S)
    PROVE  AndAbove(f, l) \subseteq S
  BY DEF AndAbove, Upwards

LEMMA AboveClosed ==
    ASSUME NEW f \in Proxying, NEW l \in Loopers, None \notin Loopers
    PROVE  /\ l \in AndAbove(f, l) /\ AndAbove(f, l) \in SUBSET Loopers
           /\ Upwards(f, AndAbove(f, l))
<1>1. l \in AndAbove(f, l) /\ AndAbove(f, l) \in SUBSET Loopers
  BY DEF AndAbove
<1>2. ASSUME NEW d \in AndAbove(f, l), f[d] # None PROVE f[d] \in AndAbove(f, l)
  <2>1. d \in Loopers /\ f[d] \in Loopers
    BY <1>1, <1>2 DEF Proxying
  <2>2. ASSUME NEW S \in SUBSET Loopers, l \in S,
               \A c \in S : f[c] # None => f[c] \in S
        PROVE  f[d] \in S
    <3>1. d \in S
      BY <2>2 DEF AndAbove
    <3> QED BY <1>2, <2>2, <3>1
  <2> QED BY <2>1, <2>2 DEF AndAbove
<1> QED BY <1>1, <1>2 DEF Upwards

LEMMA AboveTransitive ==
    ASSUME NEW f \in Proxying, NEW l \in Loopers, NEW m \in AndAbove(f, l),
           None \notin Loopers
    PROVE  AndAbove(f, m) \subseteq AndAbove(f, l)
  BY AboveClosed, AboveIn

\* Nothing is above a root.
LEMMA AboveRoot ==
    ASSUME NEW f \in Proxying, NEW r \in Loopers, f[r] = None, None \notin Loopers
    PROVE  AndAbove(f, r) = {r}
<1>1. Upwards(f, {r})
  BY DEF Upwards
<1>2. AndAbove(f, r) \subseteq {r}
  BY <1>1, AboveIn
<1> QED BY <1>2, AboveClosed

\* The looper and what is above its proxy.
LEMMA AboveStep ==
    ASSUME NEW f \in Proxying, NEW l \in Loopers, f[l] # None, None \notin Loopers
    PROVE  AndAbove(f, l) = {l} \cup AndAbove(f, f[l])
<1>1. f[l] \in Loopers
  BY DEF Proxying
<1>2. /\ f[l] \in AndAbove(f, f[l]) /\ AndAbove(f, f[l]) \in SUBSET Loopers
      /\ Upwards(f, AndAbove(f, f[l]))
  BY <1>1, AboveClosed
<1>3. Upwards(f, {l} \cup AndAbove(f, f[l]))
  BY <1>2 DEF Upwards
<1>4. AndAbove(f, l) \subseteq {l} \cup AndAbove(f, f[l])
  BY <1>2, <1>3, AboveIn
<1>5. l \in AndAbove(f, l) /\ f[l] \in AndAbove(f, l)
  BY AboveClosed DEF Upwards
<1>6. AndAbove(f, f[l]) \subseteq AndAbove(f, l)
  BY <1>5, AboveTransitive
<1> QED BY <1>4, <1>5, <1>6

\* A root above l is above everything that is above l.
LEMMA RootAboveAll ==
    ASSUME NEW f \in Proxying, NEW l \in Loopers, NEW r \in AndAbove(f, l), f[r] = None,
           NEW a \in AndAbove(f, l), None \notin Loopers
    PROVE  r \in AndAbove(f, a)
<1> DEFINE S == {d \in AndAbove(f, l) : r \in AndAbove(f, d)}
<1>1. /\ l \in AndAbove(f, l) /\ AndAbove(f, l) \in SUBSET Loopers
      /\ Upwards(f, AndAbove(f, l))
  BY AboveClosed
<1>2. ASSUME NEW d \in S, f[d] # None PROVE f[d] \in S
  <2>1. d \in Loopers /\ f[d] \in AndAbove(f, l)
    BY <1>1, <1>2 DEF Upwards
  <2>2. AndAbove(f, d) = {d} \cup AndAbove(f, f[d])
    BY <1>2, <2>1, AboveStep
  <2>3. d # r
    BY <1>2
  <2> QED BY <2>1, <2>2, <2>3
<1>3. Upwards(f, S)
  BY <1>2 DEF Upwards
<1>4. S \in SUBSET Loopers /\ l \in S
  BY <1>1
<1>5. AndAbove(f, l) \subseteq S
  BY <1>3, <1>4, AboveIn
<1> QED BY <1>5

\* There is only one.
LEMMA RootIs ==
    ASSUME NEW f \in Proxying, NEW l \in Loopers, NEW r \in AndAbove(f, l), f[r] = None,
           None \notin Loopers
    PROVE  Root(f, l) = r
<1>1. Root(f, l) \in AndAbove(f, l) /\ f[Root(f, l)] = None
  BY DEF Root
<1>2. r \in AndAbove(f, Root(f, l))
  BY <1>1, RootAboveAll
<1>3. Root(f, l) \in Loopers
  BY <1>1, AboveClosed
<1> QED BY <1>1, <1>2, <1>3, AboveRoot

LEMMA RootFacts ==
    ASSUME NEW f \in Proxying, Rooted(f), NEW l \in Loopers, None \notin Loopers
    PROVE  /\ Root(f, l) \in AndAbove(f, l) /\ Root(f, l) \in Loopers
           /\ f[Root(f, l)] = None
           /\ \A a \in AndAbove(f, l) : Root(f, a) = Root(f, l)
           /\ f[l] = None <=> Root(f, l) = l
           /\ l \in AndUnder(f, l)
<1>1. Root(f, l) \in AndAbove(f, l) /\ f[Root(f, l)] = None
  BY DEF Root, Rooted
<1>2. AndAbove(f, l) \in SUBSET Loopers /\ l \in AndAbove(f, l)
  BY AboveClosed
<1>3. ASSUME NEW a \in AndAbove(f, l) PROVE Root(f, a) = Root(f, l)
  <2>1. Root(f, l) \in AndAbove(f, a)
    BY <1>1, RootAboveAll
  <2> QED BY <1>1, <1>2, <2>1, RootIs
<1>4. f[l] = None => Root(f, l) = l
  BY <1>2, RootIs
<1> QED BY <1>1, <1>2, <1>3, <1>4 DEF AndUnder

\* A root's tree is what is under it.
LEMMA UnderRoot ==
    ASSUME NEW f \in Proxying, Rooted(f), NEW l \in Loopers, f[l] = None,
           NEW d \in Loopers, None \notin Loopers
    PROVE  d \in AndUnder(f, l) <=> Root(f, d) = l
<1>1. Root(f, d) = l => d \in AndUnder(f, l)
  BY RootFacts DEF AndUnder
<1>2. ASSUME d \in AndUnder(f, l) PROVE Root(f, d) = l
  <2>1. l \in AndAbove(f, d)
    BY <1>2 DEF AndUnder
  <2> QED BY <2>1, RootIs
<1> QED BY <1>1, <1>2

\* Loopers that do not lie under l keep their walks when l gets another proxy.
LEMMA ElsewhereKept ==
    ASSUME NEW f \in Proxying, NEW g \in Proxying, NEW l \in Loopers,
           \A d \in Loopers : d # l => g[d] = f[d],
           NEW d \in Loopers, d \notin AndUnder(f, l), None \notin Loopers
    PROVE  AndAbove(g, d) = AndAbove(f, d)
<1>1. /\ l \notin AndAbove(f, d) /\ d \in AndAbove(f, d) /\ Upwards(f, AndAbove(f, d))
      /\ AndAbove(f, d) \in SUBSET Loopers
  BY AboveClosed DEF AndUnder
<1>2. Upwards(g, AndAbove(f, d))
  BY <1>1 DEF Upwards
<1>3. AndAbove(g, d) \subseteq AndAbove(f, d)
  BY <1>1, <1>2, AboveIn
<1>4. d \in AndAbove(g, d) /\ Upwards(g, AndAbove(g, d)) /\ AndAbove(g, d) \in SUBSET Loopers
  BY AboveClosed
<1>5. Upwards(f, AndAbove(g, d))
  BY <1>1, <1>3, <1>4 DEF Upwards
<1>6. AndAbove(f, d) \subseteq AndAbove(g, d)
  BY <1>4, <1>5, AboveIn
<1> QED BY <1>3, <1>6

\* Loopers that lie under l still do.
LEMMA StillUnder ==
    ASSUME NEW f \in Proxying, NEW g \in Proxying, NEW l \in Loopers,
           \A d \in Loopers : d # l => g[d] = f[d],
           NEW d \in AndUnder(f, l), None \notin Loopers
    PROVE  l \in AndAbove(g, d)
<1>1. d \in Loopers /\ l \in AndAbove(f, d)
  BY DEF AndUnder
<1>2. SUFFICES ASSUME l \notin AndAbove(g, d) PROVE FALSE
  OBVIOUS
<1>3. d \in AndAbove(g, d) /\ Upwards(g, AndAbove(g, d)) /\ AndAbove(g, d) \in SUBSET Loopers
  BY <1>1, AboveClosed
<1>4. Upwards(f, AndAbove(g, d))
  BY <1>2, <1>3 DEF Upwards
<1> QED BY <1>1, <1>2, <1>3, <1>4, AboveIn

\* The roots once l has left its proxy, for p = None, or has joined a looper of
\* another tree: the loopers under l go along and no others.
LEMMA MovedRoots ==
    ASSUME NEW f \in Proxying, Rooted(f), NEW g \in Proxying, NEW l \in Loopers,
           NEW p \in Loopers \cup {None}, g[l] = p,
           \A d \in Loopers : d # l => g[d] = f[d],
           p # None => Root(f, p) # Root(f, l), None \notin Loopers
    PROVE  /\ Rooted(g)
           /\ \A d \in Loopers :
                 Root(g, d) = IF d \notin AndUnder(f, l) THEN Root(f, d)
                            ELSE IF p = None THEN l ELSE Root(f, p)
<1>1. ASSUME NEW d \in Loopers, d \notin AndUnder(f, l)
      PROVE  /\ Root(f, d) \in AndAbove(g, d) /\ g[Root(f, d)] = None
             /\ Root(g, d) = Root(f, d)
  <2>1. AndAbove(g, d) = AndAbove(f, d)
    BY <1>1, ElsewhereKept
  <2>2. Root(f, d) \in AndAbove(f, d) /\ f[Root(f, d)] = None /\ Root(f, d) \in Loopers
    BY RootFacts
  <2>3. Root(f, d) # l
    BY <1>1, <2>2 DEF AndUnder
  <2> QED BY <2>1, <2>2, <2>3, RootIs
<1>2. ASSUME NEW d \in Loopers, d \in AndUnder(f, l), p = None
      PROVE  l \in AndAbove(g, d) /\ g[l] = None /\ Root(g, d) = l
  <2>1. l \in AndAbove(g, d)
    BY <1>2, StillUnder
  <2> QED BY <1>2, <2>1, RootIs
<1>3. ASSUME NEW d \in Loopers, d \in AndUnder(f, l), p # None
      PROVE  /\ Root(f, p) \in AndAbove(g, d) /\ g[Root(f, p)] = None
             /\ Root(g, d) = Root(f, p)
  <2>1. p \in Loopers /\ l \in AndAbove(g, d)
    BY <1>3, StillUnder
  <2>2. p \notin AndUnder(f, l)
    BY <1>3, <2>1, RootFacts DEF AndUnder
  <2>3. Root(f, p) \in AndAbove(g, p) /\ g[Root(f, p)] = None
    BY <1>1, <2>1, <2>2
  <2>4. p \in AndAbove(g, d)
    BY <1>3, <2>1, AboveClosed DEF Upwards
  <2>5. Root(f, p) \in AndAbove(g, d)
    BY <2>3, <2>4, AboveTransitive
  <2> QED BY <2>3, <2>5, RootIs
<1>4. Rooted(g)
  BY <1>1, <1>2, <1>3 DEF Rooted
<1> QED BY <1>1, <1>2, <1>3, <1>4

-----------------------------------------------------------------------------
(* The invariant of LooperLock *)

CallOf == [looper : Loopers, locker : Lockers, root : Loopers, torn : BOOLEAN]
MoveOf == [looper : Loopers, old : Lockers, todo : SUBSET Loopers, alone : BOOLEAN]
Places == {"idle", "waiting", "got", "moving"}

Settled(l) == ~HalfMoved(l)
GotOn(k) == {t \in Callers : lookupPc[t] = "got" /\ call[t].locker = k}

\* The settled loopers of a tree share a locker with no other settled looper, and
\* no looper has a closed locker.
SettledShareLockers ==
    /\ \A l, m \in Loopers :
         Settled(l) /\ Settled(m) => (fLocker[l] = fLocker[m] <=> Proxy(l) = Proxy(m))
    /\ \A l \in Loopers : fLocker[l] <= made /\ ~shut[fLocker[l]]
    /\ \A k \in Lockers : shut[k] => k <= made

\* The mover has the new locker of q.
Ready(t, q) ==
    /\ q \in Loopers /\ Settled(q)
    /\ owner[fLocker[q]] = t /\ fLocker[q] # move[t].old

\* The loopers still to move have the old locker, which the mover holds to the
\* end; with a looper its clients are still to move, and its proxy is still to
\* move or has the new locker.
Moves(t) ==
    /\ move[t] # NoMove /\ move[t].todo # {}
    /\ mine[t][move[t].looper] > 0
    /\ owner[move[t].old] = t /\ ~shut[move[t].old] /\ move[t].old <= made
    /\ \A d \in move[t].todo :
         /\ fLocker[d] = move[t].old
         /\ \/ d = move[t].looper /\ fProxy[d] = None /\ ~move[t].alone
            \/ Ready(t, fProxy[d])
            \/ d # move[t].looper /\ fProxy[d] \in move[t].todo
    /\ \A e \in Loopers : fProxy[e] \in move[t].todo => e \in move[t].todo
    /\ move[t].alone => /\ fProxy[move[t].looper] # None
                        /\ \A d \in Loopers : fLocker[d] = move[t].old => d \in move[t].todo
    /\ move[t].looper \notin move[t].todo => fLocker[move[t].looper] # move[t].old

MovesAreSound ==
    \A t \in Callers : IF lookupPc[t] = "moving" THEN Moves(t) ELSE move[t] = NoMove

\* The locker of a lookup that was not torn is closed, or still that of the root
\* it remembers, which still is a root, or about to be closed by that root's mover.
Current(c) ==
    \/ shut[c.locker]
    \/ fProxy[c.root] = None /\ fLocker[c.root] = c.locker /\ Settled(c.root)
    \/ \E u \in Callers : /\ move[u] # NoMove /\ move[u].looper = c.root
                          /\ move[u].old = c.locker /\ move[u].alone

CallsAreCurrent ==
    \A t \in Callers : lookupPc[t] \in {"waiting", "got"} =>
        /\ call[t] # NoCall
        /\ call[t].locker <= made
        /\ call[t].torn \/ Current(call[t])

\* Who has a locker, or a looper, owns the locker; and there are as many locks
\* on an open locker as on its loopers and in lookups.
LocksCounted ==
    /\ \A k \in Lockers :
         /\ ~shut[k] => depth[k] = Cardinality(Locks(Using(k))) + Cardinality(GotOn(k))
         /\ owner[k] = None <=> depth[k] = 0
    /\ \A t \in Callers : lookupPc[t] = "got" =>
         owner[call[t].locker] = t /\ ~shut[call[t].locker]
    /\ \A t \in Callers, l \in Loopers : mine[t][l] > 0 =>
         mine[t][l] = fLocksCount[l] /\ owner[fLocker[l]] = t
    /\ \A l \in Loopers : fLocksCount[l] > 0 => \E t \in Callers : mine[t][l] > 0

LockInv ==
    /\ LooperLockTypeOK
    /\ Rooted(fProxy)
    /\ SettledShareLockers
    /\ MovesAreSound
    /\ CallsAreCurrent
    /\ LocksCounted
-----------------------------------------------------------------------------
(* Counting locks *)

LockSet(c, S) == UNION {{l} \X (1..c[l]) : l \in S}

LEMMA InLockSet ==
    ASSUME NEW c, NEW S, NEW x
    PROVE  x \in LockSet(c, S) <=> \E l \in S : \E i \in 1..c[l] : x = <<l, i>>
  BY DEF LockSet

LEMMA LockSetFinite ==
    ASSUME IsFiniteSet(Loopers), NEW c \in [Loopers -> Nat], NEW S \in SUBSET Loopers
    PROVE  IsFiniteSet(LockSet(c, S)) /\ Cardinality(LockSet(c, S)) \in Nat
<1> DEFINE per == [l \in S |-> {l} \X (1..c[l])]
           img == {per[l] : l \in S}
<1>1. IsFiniteSet(S)
  BY FS_Subset
<1>2. per \in Surjection(S, img)
  BY DEF Surjection
<1>3. IsFiniteSet(img)
  BY <1>1, <1>2, FS_Surjection
<1>4. ASSUME NEW l \in S PROVE IsFiniteSet(per[l])
  <2>1. c[l] \in Int /\ 1 \in Int
    OBVIOUS
  <2>2. IsFiniteSet({l}) /\ IsFiniteSet(1..c[l])
    BY <2>1, FS_Singleton, FS_Interval
  <2>3. IsFiniteSet({l} \X (1..c[l]))
    BY <2>2, FS_Product
  <2> QED BY <2>3
<1>5. \A x \in img : IsFiniteSet(x)
  BY <1>4
<1>6. IsFiniteSet(UNION img)
  BY <1>3, <1>5, FS_UNION
<1>7. UNION img = LockSet(c, S)
  BY DEF LockSet
<1> QED BY <1>6, <1>7, FS_CardinalityType

LEMMA DisjointSum ==
    ASSUME NEW S, NEW U, IsFiniteSet(S), IsFiniteSet(U), S \cap U = {}
    PROVE  Cardinality(S \cup U) = Cardinality(S) + Cardinality(U)
<1>1. Cardinality(S) \in Nat /\ Cardinality(U) \in Nat
  BY FS_CardinalityType
<1>2. Cardinality(S \cap U) = 0
  BY FS_EmptySet
<1>3. Cardinality(S \cup U) = Cardinality(S) + Cardinality(U) - Cardinality(S \cap U)
  BY FS_Union
<1> QED BY <1>1, <1>2, <1>3

\* The locks on two sets of loopers.
LEMMA LockSetUnion ==
    ASSUME IsFiniteSet(Loopers), NEW c \in [Loopers -> Nat],
           NEW S \in SUBSET Loopers, NEW U \in SUBSET Loopers, S \cap U = {}
    PROVE  Cardinality(LockSet(c, S \cup U)) =
             Cardinality(LockSet(c, S)) + Cardinality(LockSet(c, U))
<1>1. LockSet(c, S \cup U) = LockSet(c, S) \cup LockSet(c, U)
  BY DEF LockSet
<1>2. LockSet(c, S) \cap LockSet(c, U) = {}
  BY InLockSet
<1> QED BY <1>1, <1>2, LockSetFinite, DisjointSum

LEMMA LockSetEmpty == ASSUME NEW c PROVE Cardinality(LockSet(c, {})) = 0
<1>1. LockSet(c, {}) = {}
  BY DEF LockSet
<1> QED BY <1>1, FS_EmptySet

\* A looper with a lock counts.
LEMMA LockSetPositive ==
    ASSUME IsFiniteSet(Loopers), NEW c \in [Loopers -> Nat], NEW S \in SUBSET Loopers,
           NEW l \in S, c[l] > 0
    PROVE  Cardinality(LockSet(c, S)) > 0
<1>1. c[l] \in Nat
  OBVIOUS
<1>2. <<l, 1>> \in LockSet(c, S)
  BY <1>1, InLockSet
<1>3. LockSet(c, S) # {}
  BY <1>2
<1> QED BY <1>3, LockSetFinite, FS_EmptySet

\* One lock more on l.
LEMMA LockSetMore ==
    ASSUME IsFiniteSet(Loopers), NEW c \in [Loopers -> Nat], NEW e \in [Loopers -> Nat],
           NEW l \in Loopers, e[l] = c[l] + 1, \A d \in Loopers : d # l => e[d] = c[d],
           NEW S \in SUBSET Loopers
    PROVE  Cardinality(LockSet(e, S)) =
             IF l \in S THEN Cardinality(LockSet(c, S)) + 1 ELSE Cardinality(LockSet(c, S))
<1>1. CASE l \notin S
  <2>1. \A x : x \in LockSet(e, S) <=> x \in LockSet(c, S)
    BY <1>1, InLockSet
  <2>2. LockSet(e, S) = LockSet(c, S)
    BY <2>1
  <2> QED BY <1>1, <2>2
<1>2. CASE l \in S
  <2> DEFINE x == <<l, c[l] + 1>>
  <2>1. c[l] \in Nat
    OBVIOUS
  <2>2. x \notin LockSet(c, S)
    BY <2>1, InLockSet
  <2>3. ASSUME NEW y PROVE y \in LockSet(e, S) <=> y \in LockSet(c, S) \/ y = x
    <3>1. ASSUME y \in LockSet(e, S) PROVE y \in LockSet(c, S) \/ y = x
      <4>1. PICK d \in S : \E i \in 1..e[d] : y = <<d, i>>
        BY <3>1, InLockSet
      <4>2. PICK i \in 1..e[d] : y = <<d, i>>
        BY <4>1
      <4>3. CASE d # l
        BY <4>2, <4>3, InLockSet
      <4>4. CASE d = l
        <5>1. i \in 1..c[l] \/ i = c[l] + 1
          BY <2>1, <4>2, <4>4
        <5> QED BY <4>2, <4>4, <5>1, InLockSet
      <4> QED BY <4>3, <4>4
    <3>2. ASSUME y \in LockSet(c, S) PROVE y \in LockSet(e, S)
      <4>1. PICK d \in S : \E i \in 1..c[d] : y = <<d, i>>
        BY <3>2, InLockSet
      <4>2. PICK i \in 1..c[d] : y = <<d, i>>
        BY <4>1
      <4>3. i \in 1..e[d]
        BY <2>1, <4>2
      <4> QED BY <4>2, <4>3, InLockSet
    <3>3. x \in LockSet(e, S)
      <4>1. c[l] + 1 \in 1..e[l]
        BY <2>1
      <4> QED BY <1>2, <4>1, InLockSet
    <3> QED BY <3>1, <3>2, <3>3
  <2>4. LockSet(e, S) = LockSet(c, S) \cup {x}
    BY <2>3
  <2> HIDE DEF x
  <2> QED BY <1>2, <2>2, <2>4, LockSetFinite, FS_AddElement
<1> QED BY <1>1, <1>2

-----------------------------------------------------------------------------
(* What the invariant says of one locker and of one thread *)

LEMMA LoopersFinite == IsFiniteSet(Loopers)
  BY LooperLockAssumption

LEMMA LockFacts ==
    ASSUME LockInv
    PROVE  /\ None \notin Loopers /\ None \notin Callers
           /\ fProxy \in Proxying /\ Rooted(fProxy)
           /\ fLocksCount \in [Loopers -> Nat]
           /\ \A k : Using(k) \in SUBSET Loopers
           /\ \A l \in Loopers : /\ fLocker[l] \in Lockers /\ l \in Using(fLocker[l])
                                 /\ Lockers \in SUBSET Nat
  BY LooperLockAssumption DEF LockInv, LooperLockTypeOK, Proxying, Using, Lockers

LEMMA DepthIs ==
    ASSUME LockInv, NEW k \in Lockers
    PROVE  /\ ~shut[k] =>
                depth[k] = Cardinality(LockSet(fLocksCount, Using(k))) + Cardinality(GotOn(k))
           /\ Cardinality(LockSet(fLocksCount, Using(k))) \in Nat
           /\ IsFiniteSet(GotOn(k)) /\ Cardinality(GotOn(k)) \in Nat
           /\ depth[k] \in Nat
           /\ owner[k] = None <=> depth[k] = 0
<1>1. ~shut[k] =>
        depth[k] = Cardinality(LockSet(fLocksCount, Using(k))) + Cardinality(GotOn(k))
  BY DEF LockInv, LocksCounted, Locks, LockSet
<1>2. Cardinality(LockSet(fLocksCount, Using(k))) \in Nat
  BY LockFacts, LockSetFinite, LoopersFinite
<1>3. GotOn(k) \in SUBSET Callers
  BY DEF GotOn
<1>4. IsFiniteSet(GotOn(k)) /\ Cardinality(GotOn(k)) \in Nat
  BY <1>3, FS_Subset, FS_CardinalityType, LooperLockAssumption
<1> QED BY <1>1, <1>2, <1>4 DEF LockInv, LocksCounted, LooperLockTypeOK

\* A lookup under way.
LEMMA CallFacts ==
    ASSUME LockInv, NEW t \in Callers, lookupPc[t] \in {"waiting", "got"}
    PROVE  /\ call[t] \in CallOf /\ call[t].locker <= made
           /\ call[t].looper \in Loopers /\ call[t].root \in Loopers
           /\ call[t].locker \in Lockers /\ call[t].torn \in BOOLEAN
           /\ call[t].torn \/ Current(call[t])
<1>1. call[t] \in CallOf
  BY DEF LockInv, LooperLockTypeOK, CallsAreCurrent, CallOf
<1> QED BY <1>1 DEF CallOf, LockInv, CallsAreCurrent

\* A thread with a locker is the only one.
LEMMA GotFacts ==
    ASSUME LockInv, NEW t \in Callers, lookupPc[t] = "got"
    PROVE  /\ call[t].locker \in Lockers /\ ~shut[call[t].locker]
           /\ owner[call[t].locker] = t
           /\ GotOn(call[t].locker) = {t} /\ Cardinality(GotOn(call[t].locker)) = 1
<1>1. owner[call[t].locker] = t /\ ~shut[call[t].locker]
  BY DEF LockInv, LocksCounted
<1>2. GotOn(call[t].locker) = {t}
  BY <1>1 DEF GotOn, LockInv, LocksCounted
<1> QED BY <1>1, <1>2, CallFacts, FS_Singleton

\* Nobody is about to finish a lookup on a free locker, or on one that belongs to
\* a thread elsewhere.
LEMMA NobodyGot ==
    ASSUME LockInv, NEW k \in Lockers, NEW t \in Callers \cup {None},
           owner[k] = t, t # None => lookupPc[t] # "got"
    PROVE  GotOn(k) = {} /\ Cardinality(GotOn(k)) = 0
<1>1. ASSUME NEW u \in GotOn(k) PROVE FALSE
  <2>1. u \in Callers /\ lookupPc[u] = "got" /\ call[u].locker = k
    BY DEF GotOn
  <2>2. owner[k] = u
    BY <2>1 DEF LockInv, LocksCounted
  <2> QED BY <2>1, <2>2, LockFacts
<1>2. GotOn(k) = {}
  BY <1>1
<1> QED BY <1>2, FS_EmptySet

\* A thread with a looper's lock.
LEMMA MineFacts ==
    ASSUME LockInv, NEW t \in Callers, NEW l \in Loopers,
           mine[t][l] > 0
    PROVE  /\ owner[fLocker[l]] = t /\ fLocker[l] \in Lockers /\ fLocker[l] <= made
           /\ mine[t][l] = fLocksCount[l] /\ fLocksCount[l] > 0
           /\ ~shut[fLocker[l]]
           /\ Cardinality(LockSet(fLocksCount, Using(fLocker[l]))) > 0
<1>1. /\ owner[fLocker[l]] = t /\ mine[t][l] = fLocksCount[l] /\ fLocksCount[l] > 0
      /\ ~shut[fLocker[l]] /\ fLocker[l] <= made
  BY DEF LockInv, LocksCounted, SettledShareLockers
<1> QED BY <1>1, LockFacts, LockSetPositive, LoopersFinite

\* A move under way.
LEMMA MoveFacts ==
    ASSUME LockInv, NEW t \in Callers, lookupPc[t] = "moving"
    PROVE  /\ Moves(t) /\ move[t] \in MoveOf
           /\ move[t].looper \in Loopers /\ move[t].old \in Lockers
           /\ move[t].todo \in SUBSET Loopers /\ move[t].alone \in BOOLEAN
           /\ owner[fLocker[move[t].looper]] = t
<1>1. Moves(t) /\ move[t] \in MoveOf
  BY DEF LockInv, LooperLockTypeOK, MovesAreSound, Moves, MoveOf
<1>2. /\ move[t].looper \in Loopers /\ move[t].old \in Lockers
      /\ move[t].todo \in SUBSET Loopers /\ move[t].alone \in BOOLEAN
  BY <1>1 DEF MoveOf
<1>3. mine[t][move[t].looper] > 0
  BY <1>1 DEF Moves
<1> QED BY <1>1, <1>2, <1>3, MineFacts

LEMMA NotMoving ==
    ASSUME LockInv, NEW t \in Callers, lookupPc[t] # "moving"
    PROVE  /\ move[t] = NoMove /\ move[t].todo = {}
           /\ move[t].looper = None /\ move[t].looper \notin Loopers
<1>1. move[t] = NoMove
  BY DEF LockInv, MovesAreSound
<1> QED BY <1>1, LockFacts DEF NoMove

\* A looper that has still to move belongs to its mover.
LEMMA HalfOwned ==
    ASSUME LockInv, NEW u \in Callers, NEW d \in move[u].todo
    PROVE  /\ lookupPc[u] = "moving" /\ d \in Loopers
           /\ fLocker[d] = move[u].old /\ owner[fLocker[d]] = u
           /\ \A w \in Callers : d \in move[w].todo => w = u
<1>1. ASSUME NEW w \in Callers, d \in move[w].todo
      PROVE  /\ lookupPc[w] = "moving" /\ d \in Loopers
             /\ fLocker[d] = move[w].old /\ owner[fLocker[d]] = w
  <2>1. lookupPc[w] = "moving"
    BY <1>1, NotMoving
  <2> QED BY <1>1, <2>1, MoveFacts DEF Moves
<1> QED BY <1>1

\* What is above a settled looper is settled.
LEMMA SettledUp ==
    ASSUME LockInv, NEW d \in Loopers, Settled(d)
    PROVE  \A a \in AndAbove(fProxy, d) : a \in Loopers /\ Settled(a)
<1> DEFINE S == {a \in Loopers : Settled(a)}
<1>1. ASSUME NEW a \in S, fProxy[a] # None PROVE fProxy[a] \in S
  <2>1. a \in Loopers /\ fProxy[a] \in Loopers
    BY <1>1, LockFacts DEF Proxying
  <2>2. ASSUME NEW u \in Callers, fProxy[a] \in move[u].todo PROVE FALSE
    <3>1. lookupPc[u] = "moving"
      BY <2>2, HalfOwned
    <3>2. a \in move[u].todo
      BY <2>1, <2>2, <3>1, MoveFacts DEF Moves
    <3> QED BY <3>2 DEF Settled, HalfMoved
  <2> QED BY <2>1, <2>2 DEF Settled, HalfMoved
<1>2. Upwards(fProxy, S)
  BY <1>1 DEF Upwards
<1>3. S \in SUBSET Loopers /\ d \in S
  OBVIOUS
<1>4. AndAbove(fProxy, d) \subseteq S
  BY <1>2, <1>3, AboveIn
<1> QED BY <1>4

\* Everything above a looper that has still to move belongs to its mover.
LEMMA TreeOwned ==
    ASSUME LockInv, NEW u \in Callers, NEW d \in move[u].todo
    PROVE  \A a \in AndAbove(fProxy, d) : a \in Loopers /\ owner[fLocker[a]] = u
<1> DEFINE S == {a \in Loopers : a \in move[u].todo \/ (Settled(a) /\ owner[fLocker[a]] = u)}
<1>0. lookupPc[u] = "moving" /\ d \in Loopers
  BY HalfOwned
<1>1. ASSUME NEW a \in S, fProxy[a] # None PROVE fProxy[a] \in S
  <2>1. a \in Loopers /\ fProxy[a] \in Loopers
    BY <1>1, LockFacts DEF Proxying
  <2>2. CASE a \in move[u].todo
    BY <1>0, <1>1, <2>1, <2>2, MoveFacts DEF Moves, Ready
  <2>3. CASE Settled(a) /\ owner[fLocker[a]] = u
    <3>1. fProxy[a] \in AndAbove(fProxy, a)
      BY <1>1, <2>1, LockFacts, AboveClosed DEF Upwards
    <3>2. Settled(fProxy[a]) /\ Proxy(fProxy[a]) = Proxy(a)
      BY <2>1, <2>3, <3>1, LockFacts, RootFacts, SettledUp DEF Proxy
    <3>3. fLocker[fProxy[a]] = fLocker[a]
      BY <2>1, <2>3, <3>2 DEF LockInv, SettledShareLockers
    <3> QED BY <2>1, <2>3, <3>2, <3>3
  <2> QED BY <2>2, <2>3
<1>2. Upwards(fProxy, S)
  BY <1>1 DEF Upwards
<1>3. S \in SUBSET Loopers /\ d \in S
  BY <1>0
<1>4. AndAbove(fProxy, d) \subseteq S
  BY <1>2, <1>3, AboveIn
<1>5. \A a \in S : owner[fLocker[a]] = u
  BY HalfOwned
<1> QED BY <1>4, <1>5

\* A looper that belongs to a thread which is not moving anything is settled, with
\* all loopers under it, and has no mover.
LEMMA OwnedSettled ==
    ASSUME LockInv, NEW t \in Callers, lookupPc[t] # "moving", NEW l \in Loopers,
           owner[fLocker[l]] = t
    PROVE  /\ \A d \in Under(l) : d \in Loopers /\ Settled(d) /\ fLocker[d] = fLocker[l]
           /\ Settled(l) /\ l \in Under(l)
           /\ \A u \in Callers : move[u].looper # l
<1>1. ASSUME NEW d \in Loopers, l \in AndAbove(fProxy, d) PROVE Settled(d)
  <2> SUFFICES ASSUME NEW u \in Callers, d \in move[u].todo PROVE FALSE
    BY DEF Settled, HalfMoved
  <2>1. owner[fLocker[l]] = u /\ lookupPc[u] = "moving"
    BY <1>1, TreeOwned, HalfOwned
  <2> QED BY <2>1
<1>2. l \in AndAbove(fProxy, l)
  BY LockFacts, AboveClosed
<1>3. Settled(l) /\ l \in Under(l)
  BY <1>1, <1>2 DEF Under, AndUnder
<1>4. ASSUME NEW d \in Under(l)
      PROVE  d \in Loopers /\ Settled(d) /\ fLocker[d] = fLocker[l]
  <2>1. d \in Loopers /\ l \in AndAbove(fProxy, d)
    BY DEF Under, AndUnder
  <2>2. Settled(d) /\ Proxy(l) = Proxy(d)
    BY <1>1, <2>1, LockFacts, RootFacts DEF Proxy
  <2> QED BY <1>3, <2>1, <2>2 DEF LockInv, SettledShareLockers
<1>5. ASSUME NEW u \in Callers, move[u].looper = l PROVE FALSE
  <2>1. lookupPc[u] = "moving"
    BY <1>5, NotMoving
  <2>2. owner[fLocker[l]] = u
    BY <1>5, <2>1, MoveFacts
  <2> QED BY <2>1, <2>2
<1> QED BY <1>3, <1>4, <1>5

-----------------------------------------------------------------------------
(* Steps that move no looper *)

LEMMA TreeKept ==
    ASSUME LockInv, fProxy' = fProxy, fLocker' = fLocker, made' = made, shut' = shut,
           move' = move
    PROVE  /\ Rooted(fProxy)' /\ SettledShareLockers'
           /\ \A l : Settled(l)' <=> Settled(l)
           /\ \A c : Current(c)' <=> Current(c)
           /\ \A k : Using(k)' = Using(k)
<1>1. ASSUME NEW l PROVE Settled(l)' <=> Settled(l)
  BY DEF Settled, HalfMoved
<1>2. Rooted(fProxy)' /\ SettledShareLockers'
  BY <1>1 DEF LockInv, SettledShareLockers, Proxy
<1>3. ASSUME NEW c PROVE Current(c)' <=> Current(c)
  BY <1>1 DEF Current
<1>4. ASSUME NEW k PROVE Using(k)' = Using(k)
  BY DEF Using
<1> QED BY <1>1, <1>2, <1>3, <1>4

\* Movers keep what they have.
LEMMA MovesKept ==
    ASSUME LockInv, fProxy' = fProxy, fLocker' = fLocker, made' = made, shut' = shut,
           move' = move,
           \A u \in Callers : lookupPc'[u] = "moving" <=> lookupPc[u] = "moving",
           \A u \in Callers, k \in Lockers :
                lookupPc[u] = "moving" /\ owner[k] = u => owner'[k] = u,
           \A u \in Callers, l \in Loopers :
                lookupPc[u] = "moving" /\ mine[u][l] > 0 => mine'[u][l] > 0
    PROVE  MovesAreSound'
<1>1. ASSUME NEW u \in Callers, lookupPc[u] = "moving" PROVE Moves(u)'
  <2>1. /\ Moves(u) /\ move[u].looper \in Loopers /\ move[u].old \in Lockers
        /\ move[u].todo \in SUBSET Loopers
    BY <1>1, MoveFacts
  <2>2. \A q : Ready(u, q) => Ready(u, q)'
    BY <1>1, TreeKept, LockFacts DEF Ready
  <2> QED BY <1>1, <2>1, <2>2 DEF Moves
<1> QED BY <1>1 DEF LockInv, MovesAreSound

LEMMA CallsKept ==
    ASSUME LockInv, fProxy' = fProxy, fLocker' = fLocker, made' = made, shut' = shut,
           move' = move,
           \A u \in Callers : lookupPc'[u] \in {"waiting", "got"} =>
                lookupPc[u] \in {"waiting", "got"} /\ call'[u] = call[u]
    PROVE  CallsAreCurrent'
<1>1. \A c : Current(c)' <=> Current(c)
  BY TreeKept
<1> QED BY <1>1 DEF LockInv, CallsAreCurrent

\* Steps that neither take nor give back anything.
LEMMA CountsKept ==
    ASSUME LockInv, fLocker' = fLocker, fLocksCount' = fLocksCount, owner' = owner,
           depth' = depth, shut' = shut, mine' = mine,
           \A k : Using(k)' = Using(k),
           \A u \in Callers : lookupPc'[u] = "got" <=> lookupPc[u] = "got",
           \A u \in Callers : lookupPc[u] = "got" => call'[u] = call[u]
    PROVE  LocksCounted'
<1>1. ASSUME NEW k PROVE GotOn(k)' = GotOn(k)
  BY DEF GotOn
<1>2. ASSUME NEW k PROVE Locks(Using(k))' = Locks(Using(k))
  BY DEF Locks
<1>3. \A k \in Lockers : /\ ~shut'[k] => depth'[k] = Cardinality(Locks(Using(k))') + Cardinality(GotOn(k)')
                         /\ owner'[k] = None <=> depth'[k] = 0
  BY <1>1, <1>2 DEF LockInv, LocksCounted
<1>4. /\ \A t \in Callers : lookupPc'[t] = "got" =>
            owner'[call'[t].locker] = t /\ ~shut'[call'[t].locker]
      /\ \A t \in Callers, l \in Loopers : mine'[t][l] > 0 =>
            mine'[t][l] = fLocksCount'[l] /\ owner'[fLocker'[l]] = t
      /\ \A l \in Loopers : fLocksCount'[l] > 0 => \E t \in Callers : mine'[t][l] > 0
  BY DEF LockInv, LocksCounted
<1> QED BY <1>3, <1>4 DEF LocksCounted

-----------------------------------------------------------------------------
(* Lock and Unlock *)

LEMMA LockStep ==
    ASSUME LockInv, NEW t \in Callers, NEW l \in Loopers, Lock(t, l)
    PROVE  LockInv'
<1> DEFINE c == [looper |-> l, locker |-> fLocker[l], root |-> Proxy(l), torn |-> HalfMoved(l)]
<1>1. /\ lookupPc[t] = "idle" /\ call' = [call EXCEPT ![t] = c]
      /\ lookupPc' = [lookupPc EXCEPT ![t] = "waiting"]
      /\ fProxy' = fProxy /\ fLocker' = fLocker /\ fLocksCount' = fLocksCount
      /\ made' = made /\ owner' = owner /\ depth' = depth /\ shut' = shut /\ mine' = mine
      /\ move' = move /\ breached' = breached
  BY DEF Lock, lockers
<1>2. /\ Proxy(l) \in Loopers /\ fProxy[Proxy(l)] = None /\ Proxy(Proxy(l)) = Proxy(l)
      /\ Proxy(l) \in AndAbove(fProxy, l)
  BY LockFacts, RootFacts DEF Proxy
<1>3. c \in CallOf /\ c # NoCall
      /\ c.locker = fLocker[l] /\ c.root = Proxy(l) /\ c.torn = HalfMoved(l)
  BY <1>2, LockFacts DEF NoCall, HalfMoved, CallOf
<1>4. fLocker[l] <= made
  BY DEF LockInv, SettledShareLockers
<1>5. c.torn \/ Current(c)
  <2>1. CASE Settled(l)
    <3>1. Settled(Proxy(l))
      BY <1>2, <2>1, SettledUp
    <3>2. fLocker[Proxy(l)] = fLocker[l]
      BY <1>2, <2>1, <3>1 DEF LockInv, SettledShareLockers
    <3> QED BY <1>2, <1>3, <3>1, <3>2 DEF Current
  <2>2. CASE ~Settled(l)
    BY <1>3, <2>2 DEF Settled
  <2> QED BY <2>1, <2>2
<1> HIDE DEF c
<1>6. /\ call' \in [Callers -> CallOf \cup {NoCall}]
      /\ call'[t] = c /\ \A u \in Callers : u # t => call'[u] = call[u]
      /\ lookupPc' \in [Callers -> Places]
      /\ lookupPc'[t] = "waiting" /\ \A u \in Callers : u # t => lookupPc'[u] = lookupPc[u]
  BY <1>1, <1>3 DEF LockInv, LooperLockTypeOK, CallOf, Places
<1>7. LooperLockTypeOK'
  BY <1>1, <1>6 DEF LockInv, LooperLockTypeOK, CallOf, Places
<1>8. CallsAreCurrent'
  <2>1. \A d : Current(d)' <=> Current(d)
    BY <1>1, TreeKept
  <2> QED BY <1>1, <1>3, <1>4, <1>5, <1>6, <2>1 DEF LockInv, CallsAreCurrent
<1>9. \A k : Using(k)' = Using(k)
  BY <1>1, TreeKept
<1>10. LocksCounted'
  BY <1>1, <1>6, <1>9, CountsKept
<1>11. \A u \in Callers : lookupPc'[u] = "moving" <=> lookupPc[u] = "moving"
  BY <1>1, <1>6
<1>12. MovesAreSound'
  BY <1>1, <1>11, MovesKept
<1> QED BY <1>1, <1>7, <1>8, <1>10, <1>12, TreeKept DEF LockInv

LEMMA FailStep ==
    ASSUME LockInv, NEW t \in Callers, Fail(t)
    PROVE  LockInv'
<1>1. /\ lookupPc[t] = "waiting" /\ call' = [call EXCEPT ![t] = NoCall]
      /\ lookupPc' = [lookupPc EXCEPT ![t] = "idle"]
      /\ fProxy' = fProxy /\ fLocker' = fLocker /\ fLocksCount' = fLocksCount
      /\ made' = made /\ owner' = owner /\ depth' = depth /\ shut' = shut /\ mine' = mine
      /\ move' = move /\ breached' = breached
  BY DEF Fail, lockers
<1>2. /\ call' \in [Callers -> CallOf \cup {NoCall}]
      /\ \A u \in Callers : u # t => call'[u] = call[u]
      /\ lookupPc' \in [Callers -> Places]
      /\ lookupPc'[t] = "idle" /\ \A u \in Callers : u # t => lookupPc'[u] = lookupPc[u]
  BY <1>1 DEF LockInv, LooperLockTypeOK, CallOf, Places
<1>3. LooperLockTypeOK'
  BY <1>1, <1>2 DEF LockInv, LooperLockTypeOK, CallOf, Places
<1>4. \A u \in Callers : lookupPc'[u] \in {"waiting", "got"} =>
         lookupPc[u] \in {"waiting", "got"} /\ call'[u] = call[u]
  BY <1>2
<1>5. CallsAreCurrent'
  BY <1>1, <1>4, CallsKept
<1>6. \A k : Using(k)' = Using(k)
  BY <1>1, TreeKept
<1>7. LocksCounted'
  BY <1>1, <1>2, <1>6, CountsKept
<1>8. \A u \in Callers : lookupPc'[u] = "moving" <=> lookupPc[u] = "moving"
  BY <1>1, <1>2
<1>9. MovesAreSound'
  BY <1>1, <1>8, MovesKept
<1> QED BY <1>1, <1>3, <1>5, <1>7, <1>9, TreeKept DEF LockInv

LEMMA AcquireStep ==
    ASSUME LockInv, NEW t \in Callers, Acquire(t)
    PROVE  LockInv'
<1>1. lookupPc[t] = "waiting" /\ call[t].locker \in Lockers
  BY CallFacts DEF Acquire
<1>2. PICK k \in Lockers : k = call[t].locker
  BY <1>1
<1>3. /\ ~shut[k] /\ owner[k] \in {None, t}
      /\ owner' = [owner EXCEPT ![k] = t] /\ depth' = [depth EXCEPT ![k] = depth[k] + 1]
      /\ lookupPc' = [lookupPc EXCEPT ![t] = "got"]
      /\ fProxy' = fProxy /\ fLocker' = fLocker /\ fLocksCount' = fLocksCount
      /\ made' = made /\ shut' = shut /\ call' = call /\ mine' = mine
      /\ move' = move /\ breached' = breached
  BY <1>2 DEF Acquire
<1>4. /\ owner' \in [Lockers -> Callers \cup {None}] /\ owner'[k] = t
      /\ \A j \in Lockers : j # k => owner'[j] = owner[j]
      /\ depth' \in [Lockers -> Nat] /\ depth'[k] = depth[k] + 1
      /\ \A j \in Lockers : j # k => depth'[j] = depth[j]
      /\ lookupPc' \in [Callers -> Places]
      /\ lookupPc'[t] = "got" /\ \A u \in Callers : u # t => lookupPc'[u] = lookupPc[u]
  BY <1>3, <1>2 DEF LockInv, LooperLockTypeOK, Places
<1>5. LooperLockTypeOK'
  BY <1>3, <1>4 DEF LockInv, LooperLockTypeOK, Places
<1>6. CallsAreCurrent'
  BY <1>1, <1>3, <1>4, CallsKept
<1>7. GotOn(k) = {} /\ Cardinality(GotOn(k)) = 0
  <2>1. t # None => lookupPc[t] # "got"
    BY <1>1
  <2> QED BY <1>3, <1>2, <2>1, NobodyGot
<1>8. GotOn(k)' = {t} /\ Cardinality(GotOn(k)') = 1
  <2>1. GotOn(k)' = {t}
    BY <1>3, <1>2, <1>4, <1>7 DEF GotOn
  <2> QED BY <2>1, FS_Singleton
<1>9. ASSUME NEW j \in Lockers, j # k PROVE GotOn(j)' = GotOn(j)
  BY <1>1, <1>3, <1>2, <1>4, <1>9 DEF GotOn
<1>10. ASSUME NEW j PROVE Locks(Using(j))' = LockSet(fLocksCount, Using(j))
  <2>1. Using(j)' = Using(j)
    BY <1>3, TreeKept
  <2> QED BY <1>3, <2>1 DEF Locks, LockSet
<1>11. ASSUME NEW j \in Lockers
       PROVE  /\ ~shut'[j] => depth'[j] = Cardinality(Locks(Using(j))') + Cardinality(GotOn(j)')
              /\ owner'[j] = None <=> depth'[j] = 0
  <2>1. CASE j = k
    <3>1. t # None
      BY LockFacts
    <3>2. /\ depth[k] = Cardinality(LockSet(fLocksCount, Using(k))) + 0
          /\ Cardinality(LockSet(fLocksCount, Using(k))) \in Nat
      BY <1>2, <1>3, <1>7, DepthIs
    <3>3. Cardinality(Locks(Using(k))') = Cardinality(LockSet(fLocksCount, Using(k)))
      BY <1>10
    <3>4. depth'[k] = Cardinality(Locks(Using(k))') + 1 /\ depth'[k] # 0
      BY <1>4, <3>2, <3>3
    <3> QED BY <1>4, <1>8, <2>1, <3>1, <3>4
  <2>2. CASE j # k
    BY <1>3, <1>4, <1>9, <1>10, <2>2, DepthIs
  <2> QED BY <2>1, <2>2
<1>12. ASSUME NEW u \in Callers, lookupPc'[u] = "got"
       PROVE  owner'[call'[u].locker] = u /\ ~shut'[call'[u].locker]
  <2>1. CASE u = t
    BY <1>3, <1>2, <1>4, <2>1
  <2>2. CASE u # t
    <3>1. lookupPc[u] = "got"
      BY <1>4, <1>12, <2>2
    <3>2. call[u].locker \in Lockers /\ owner[call[u].locker] = u /\ ~shut[call[u].locker]
      BY <3>1, GotFacts
    <3>3. u # None
      BY LockFacts
    <3>4. call[u].locker # k
      BY <1>3, <2>2, <3>2, <3>3
    <3> QED BY <1>3, <1>4, <3>2, <3>4
  <2> QED BY <2>1, <2>2
<1>13. ASSUME NEW u \in Callers, NEW l \in Loopers, mine'[u][l] > 0
       PROVE  mine'[u][l] = fLocksCount'[l] /\ owner'[fLocker'[l]] = u
  <2>1. /\ owner[fLocker[l]] = u /\ fLocker[l] \in Lockers /\ mine[u][l] = fLocksCount[l]
    BY <1>3, <1>13, MineFacts
  <2>2. u # None
    BY LockFacts
  <2> QED BY <1>3, <1>4, <2>1, <2>2
<1>14. LocksCounted'
  BY <1>3, <1>11, <1>12, <1>13 DEF LockInv, LocksCounted
<1>15. /\ \A u \in Callers : lookupPc'[u] = "moving" <=> lookupPc[u] = "moving"
       /\ \A u \in Callers, j \in Lockers :
            lookupPc[u] = "moving" /\ owner[j] = u => owner'[j] = u
  BY <1>1, <1>3, <1>4, LockFacts
<1>16. MovesAreSound'
  BY <1>3, <1>15, MovesKept
<1> QED BY <1>3, <1>5, <1>6, <1>14, <1>16, TreeKept DEF LockInv

\* unlock_locker by the owner.
LEMMA GivenBack ==
    ASSUME LockInv, NEW t \in Callers, NEW k \in Lockers,
           owner[k] = t, GiveBack(k, t)
    PROVE  /\ owner' \in [Lockers -> Callers \cup {None}]
           /\ owner'[k] = IF depth[k] = 1 THEN None ELSE t
           /\ \A j \in Lockers : j # k => owner'[j] = owner[j]
           /\ depth' \in [Lockers -> Nat] /\ depth[k] \in Nat /\ depth[k] > 0
           /\ depth'[k] = depth[k] - 1
           /\ \A j \in Lockers : j # k => depth'[j] = depth[j]
           /\ owner'[k] = None <=> depth'[k] = 0
<1>1. depth[k] \in Nat /\ depth[k] > 0 /\ t # None
  BY DepthIs, LockFacts
<1>2. /\ Unlocked(k, t, 1).owner = IF depth[k] = 1 THEN None ELSE t
      /\ Unlocked(k, t, 1).depth = depth[k] - 1
  BY <1>1 DEF Unlocked
<1>3. /\ owner' = [owner EXCEPT ![k] = IF depth[k] = 1 THEN None ELSE t]
      /\ depth' = [depth EXCEPT ![k] = depth[k] - 1]
  BY <1>2 DEF GiveBack
<1>4. /\ owner \in [Lockers -> Callers \cup {None}] /\ depth \in [Lockers -> Nat]
  BY DEF LockInv, LooperLockTypeOK
<1> QED BY <1>1, <1>3, <1>4

\* The thread t ends its lookup.
LEMMA CallEnded ==
    ASSUME LockInv, NEW t \in Callers, lookupPc[t] = "got",
           lookupPc' = [lookupPc EXCEPT ![t] = "idle"], call' = [call EXCEPT ![t] = NoCall],
           fProxy' = fProxy, fLocker' = fLocker, made' = made, shut' = shut, move' = move
    PROVE  /\ lookupPc' \in [Callers -> Places]
           /\ call' \in [Callers -> CallOf \cup {NoCall}]
           /\ lookupPc'[t] = "idle"
           /\ \A u \in Callers : u # t => lookupPc'[u] = lookupPc[u] /\ call'[u] = call[u]
           /\ \A u \in Callers : lookupPc'[u] = "moving" <=> lookupPc[u] = "moving"
           /\ CallsAreCurrent'
           /\ \A k \in Lockers : GotOn(k)' = GotOn(k) \ {t}
<1>1. /\ lookupPc' \in [Callers -> Places]
      /\ call' \in [Callers -> CallOf \cup {NoCall}]
      /\ lookupPc'[t] = "idle"
      /\ \A u \in Callers : u # t => lookupPc'[u] = lookupPc[u] /\ call'[u] = call[u]
  BY DEF LockInv, LooperLockTypeOK, CallOf, Places
<1>2. \A u \in Callers : lookupPc'[u] \in {"waiting", "got"} =>
         lookupPc[u] \in {"waiting", "got"} /\ call'[u] = call[u]
  BY <1>1
<1>3. CallsAreCurrent'
  BY <1>2, CallsKept
<1>4. ASSUME NEW k \in Lockers PROVE GotOn(k)' = GotOn(k) \ {t}
  BY <1>1 DEF GotOn
<1> QED BY <1>1, <1>3, <1>4

\* The lookup was in vain: the locker is given back.
LEMMA FinishInVain ==
    ASSUME LockInv, NEW t \in Callers, Finish(t), ~SameRoot(t)
    PROVE  LockInv'
<1>1. /\ lookupPc[t] = "got" /\ lookupPc' = [lookupPc EXCEPT ![t] = "idle"]
      /\ call' = [call EXCEPT ![t] = NoCall]
      /\ GiveBack(call[t].locker, t)
      /\ fLocksCount' = fLocksCount /\ mine' = mine /\ breached' = breached
      /\ fProxy' = fProxy /\ fLocker' = fLocker /\ made' = made /\ shut' = shut
      /\ move' = move
  BY DEF Finish
<1>2. call[t].locker \in Lockers
  BY <1>1, GotFacts
<1>3. PICK k \in Lockers : k = call[t].locker
  BY <1>2
<1>4. owner[k] = t /\ ~shut[k] /\ GotOn(k) = {t} /\ Cardinality(GotOn(k)) = 1
  BY <1>1, <1>3, GotFacts
<1>5. /\ owner' \in [Lockers -> Callers \cup {None}]
      /\ owner'[k] = IF depth[k] = 1 THEN None ELSE t
      /\ \A j \in Lockers : j # k => owner'[j] = owner[j]
      /\ depth' \in [Lockers -> Nat] /\ depth[k] \in Nat /\ depth[k] > 0
      /\ depth'[k] = depth[k] - 1
      /\ \A j \in Lockers : j # k => depth'[j] = depth[j]
      /\ owner'[k] = None <=> depth'[k] = 0
  BY <1>1, <1>3, <1>4, GivenBack
<1>6. /\ lookupPc' \in [Callers -> Places]
      /\ call' \in [Callers -> CallOf \cup {NoCall}]
      /\ lookupPc'[t] = "idle"
      /\ \A u \in Callers : u # t => lookupPc'[u] = lookupPc[u] /\ call'[u] = call[u]
      /\ \A u \in Callers : lookupPc'[u] = "moving" <=> lookupPc[u] = "moving"
      /\ CallsAreCurrent'
      /\ \A j \in Lockers : GotOn(j)' = GotOn(j) \ {t}
  BY <1>1, CallEnded
<1>7. LooperLockTypeOK'
  BY <1>1, <1>5, <1>6 DEF LockInv, LooperLockTypeOK, CallOf, Places
<1>8. ASSUME NEW j PROVE Locks(Using(j))' = LockSet(fLocksCount, Using(j))
  <2>1. Using(j)' = Using(j)
    BY <1>1, TreeKept
  <2> QED BY <1>1, <2>1 DEF Locks, LockSet
<1>9. ASSUME NEW j \in Lockers
      PROVE  /\ ~shut'[j] => depth'[j] = Cardinality(Locks(Using(j))') + Cardinality(GotOn(j)')
             /\ owner'[j] = None <=> depth'[j] = 0
  <2>1. CASE j = k
    <3>1. GotOn(j)' = {} /\ Cardinality(GotOn(j)') = 0
      BY <1>4, <1>6, <2>1, FS_EmptySet
    <3>2. /\ depth[j] = Cardinality(LockSet(fLocksCount, Using(j))) + 1
          /\ Cardinality(LockSet(fLocksCount, Using(j))) \in Nat
      BY <1>4, <2>1, DepthIs
    <3>3. depth'[j] = Cardinality(LockSet(fLocksCount, Using(j))) + 0
      BY <1>5, <2>1, <3>2
    <3> QED BY <1>5, <1>8, <2>1, <3>1, <3>3
  <2>2. CASE j # k
    <3>1. t \notin GotOn(j)
      BY <1>3, <2>2 DEF GotOn
    <3>2. GotOn(j)' = GotOn(j)
      BY <1>6, <3>1
    <3> QED BY <1>1, <1>5, <1>8, <2>2, <3>2, DepthIs
  <2> QED BY <2>1, <2>2
<1>10. ASSUME NEW u \in Callers, lookupPc'[u] = "got"
       PROVE  owner'[call'[u].locker] = u /\ ~shut'[call'[u].locker]
  <2>1. u # t /\ lookupPc[u] = "got" /\ call'[u] = call[u]
    BY <1>6, <1>10
  <2>2. call[u].locker \in Lockers /\ owner[call[u].locker] = u /\ ~shut[call[u].locker]
    BY <2>1, GotFacts
  <2> QED BY <1>1, <1>4, <1>5, <2>1, <2>2
<1>11. ASSUME NEW u \in Callers, NEW l \in Loopers, mine'[u][l] > 0
       PROVE  mine'[u][l] = fLocksCount'[l] /\ owner'[fLocker'[l]] = u
  <2>1. /\ owner[fLocker[l]] = u /\ fLocker[l] \in Lockers /\ mine[u][l] = fLocksCount[l]
        /\ Cardinality(LockSet(fLocksCount, Using(fLocker[l]))) > 0
    BY <1>1, <1>11, MineFacts
  <2>2. CASE fLocker[l] = k
    <3>1. /\ depth[k] = Cardinality(LockSet(fLocksCount, Using(k))) + 1
          /\ Cardinality(LockSet(fLocksCount, Using(k))) \in Nat
      BY <1>4, DepthIs
    <3>2. depth[k] # 1
      BY <2>1, <2>2, <3>1
    <3> QED BY <1>1, <1>4, <1>5, <2>1, <2>2, <3>2
  <2>3. CASE fLocker[l] # k
    BY <1>1, <1>5, <2>1, <2>3
  <2> QED BY <2>2, <2>3
<1>12. LocksCounted'
  BY <1>1, <1>9, <1>10, <1>11 DEF LockInv, LocksCounted
<1>13. \A u \in Callers, j \in Lockers :
          lookupPc[u] = "moving" /\ owner[j] = u => owner'[j] = u
  BY <1>1, <1>4, <1>5
<1>14. MovesAreSound'
  BY <1>1, <1>6, <1>13, MovesKept
<1> QED BY <1>1, <1>6, <1>7, <1>12, <1>14, TreeKept DEF LockInv

\* Nobody else has a lock on a looper whose locker belongs to t.
LEMMA OnlyOwner ==
    ASSUME LockInv, NEW t \in Callers, NEW l \in Loopers,
           owner[fLocker[l]] = t
    PROVE  /\ \A u \in Callers : u # t => mine[u][l] = 0
           /\ mine[t][l] = fLocksCount[l]
<1>1. \A u \in Callers : mine[u][l] \in Nat /\ fLocksCount[l] \in Nat
  BY DEF LockInv, LooperLockTypeOK
<1>2. \A u \in Callers : u # t => mine[u][l] = 0
  BY <1>1 DEF LockInv, LocksCounted
<1>3. CASE mine[t][l] = 0
  BY <1>1, <1>2, <1>3 DEF LockInv, LocksCounted
<1>4. CASE mine[t][l] > 0
  BY <1>2, <1>4, MineFacts
<1> QED BY <1>1, <1>2, <1>3, <1>4

\* The count of locks on l becomes n, and so does t's.
LEMMA CountsChanged ==
    ASSUME LockInv, NEW t \in Callers, NEW l \in Loopers,
           NEW n \in Nat,
           fLocksCount' \in [Loopers -> Nat], fLocksCount'[l] = n,
           \A d \in Loopers : d # l => fLocksCount'[d] = fLocksCount[d],
           mine' \in [Callers -> [Loopers -> Nat]], mine'[t][l] = n,
           \A u \in Callers, d \in Loopers : u # t \/ d # l => mine'[u][d] = mine[u][d],
           owner[fLocker[l]] = t
    PROVE  /\ \A u \in Callers, d \in Loopers :
                mine'[u][d] > 0 => mine'[u][d] = fLocksCount'[d] /\ owner[fLocker[d]] = u
           /\ \A d \in Loopers : fLocksCount'[d] > 0 => \E u \in Callers : mine'[u][d] > 0
<1>1. /\ \A u \in Callers : u # t => mine[u][l] = 0
      /\ mine[t][l] = fLocksCount[l]
  BY OnlyOwner
<1>2. ASSUME NEW u \in Callers, NEW d \in Loopers, mine'[u][d] > 0
      PROVE  mine'[u][d] = fLocksCount'[d] /\ owner[fLocker[d]] = u
  <2>1. CASE d = l
    <3>1. u = t
      BY <1>1, <1>2, <2>1
    <3> QED BY <2>1, <3>1
  <2>2. CASE d # l
    BY <1>2, <2>2 DEF LockInv, LocksCounted
  <2> QED BY <2>1, <2>2
<1>3. ASSUME NEW d \in Loopers, fLocksCount'[d] > 0
      PROVE  \E u \in Callers : mine'[u][d] > 0
  <2>1. CASE d = l
    BY <1>3, <2>1
  <2>2. CASE d # l
    BY <1>3, <2>2 DEF LockInv, LocksCounted
  <2> QED BY <2>1, <2>2
<1> QED BY <1>2, <1>3

\* The lookup was right, and not torn: the root is the same, so the locker is the
\* looper's.
LEMMA FinishFound ==
    ASSUME LockInv, NEW t \in Callers, Finish(t), SameRoot(t), ~call[t].torn
    PROVE  LockInv'
<1>1. /\ lookupPc[t] = "got" /\ lookupPc' = [lookupPc EXCEPT ![t] = "idle"]
      /\ call' = [call EXCEPT ![t] = NoCall]
      /\ fLocksCount' = [fLocksCount EXCEPT ![call[t].looper] = @ + 1]
      /\ mine' = [mine EXCEPT ![t][call[t].looper] = @ + 1]
      /\ owner' = owner /\ depth' = depth
      /\ fProxy' = fProxy /\ fLocker' = fLocker /\ made' = made /\ shut' = shut
      /\ move' = move /\ breached' = (breached \/ call[t].torn)
  BY DEF Finish
<1>2. /\ call[t].locker \in Lockers /\ call[t].looper \in Loopers
      /\ call[t].root \in Loopers /\ Current(call[t])
  BY <1>1, CallFacts
<1>3. PICK k \in Lockers : k = call[t].locker
  BY <1>2
<1>4. PICK l \in Loopers : l = call[t].looper
  BY <1>2
<1>5. owner[k] = t /\ ~shut[k] /\ GotOn(k) = {t} /\ Cardinality(GotOn(k)) = 1
  BY <1>1, <1>3, GotFacts
<1>6. fLocker[l] = k
  <2>1. PICK r \in Loopers : r = call[t].root
    BY <1>2
  <2>2. /\ Proxy(l) = r /\ r \in AndAbove(fProxy, l) /\ fProxy[r] = None /\ Proxy(r) = r
    BY <1>4, <2>1, LockFacts, RootFacts DEF SameRoot, Proxy
  <2>3. ASSUME NEW u \in Callers, move[u] # NoMove, move[u].looper = r, move[u].alone
        PROVE  FALSE
    <3>1. lookupPc[u] = "moving"
      BY <2>3, NotMoving
    <3>2. fProxy[r] # None
      BY <2>3, <3>1, MoveFacts DEF Moves
    <3> QED BY <2>2, <3>2
  <2>4. fLocker[r] = k /\ Settled(r)
    BY <1>2, <1>3, <1>5, <2>1, <2>3 DEF Current
  <2>5. Settled(l)
    <3> SUFFICES ASSUME NEW u \in Callers, l \in move[u].todo PROVE FALSE
      BY DEF Settled, HalfMoved
    <3>1. lookupPc[u] = "moving" /\ owner[fLocker[r]] = u
      BY <2>2, HalfOwned, TreeOwned
    <3> QED BY <1>1, <1>5, <2>4, <3>1
  <2> QED BY <2>2, <2>4, <2>5 DEF LockInv, SettledShareLockers
<1>7. /\ fLocksCount \in [Loopers -> Nat] /\ fLocksCount' \in [Loopers -> Nat]
      /\ fLocksCount'[l] = fLocksCount[l] + 1
      /\ \A d \in Loopers : d # l => fLocksCount'[d] = fLocksCount[d]
      /\ mine' \in [Callers -> [Loopers -> Nat]] /\ mine'[t][l] = mine[t][l] + 1
      /\ \A u \in Callers, d \in Loopers : u # t \/ d # l => mine'[u][d] = mine[u][d]
  BY <1>1, <1>4 DEF LockInv, LooperLockTypeOK
<1>8. mine'[t][l] = fLocksCount'[l] /\ fLocksCount'[l] \in Nat
  BY <1>5, <1>6, <1>7, OnlyOwner
<1>9. /\ lookupPc' \in [Callers -> Places]
      /\ call' \in [Callers -> CallOf \cup {NoCall}]
      /\ lookupPc'[t] = "idle"
      /\ \A u \in Callers : u # t => lookupPc'[u] = lookupPc[u] /\ call'[u] = call[u]
      /\ \A u \in Callers : lookupPc'[u] = "moving" <=> lookupPc[u] = "moving"
      /\ CallsAreCurrent'
      /\ \A j \in Lockers : GotOn(j)' = GotOn(j) \ {t}
  BY <1>1, CallEnded
<1>10. LooperLockTypeOK'
  <2>1. breached' \in BOOLEAN
    BY <1>1
  <2> QED BY <1>1, <1>7, <1>9, <2>1 DEF LockInv, LooperLockTypeOK, CallOf, Places
<1>11. ASSUME NEW j \in Lockers
       PROVE  Locks(Using(j))' = LockSet(fLocksCount', Using(j))
  <2>1. Using(j)' = Using(j)
    BY <1>1, TreeKept
  <2> QED BY <2>1 DEF Locks, LockSet
<1>12. ASSUME NEW j \in Lockers
       PROVE  Cardinality(Locks(Using(j))') =
                IF j = k THEN Cardinality(LockSet(fLocksCount, Using(j))) + 1
                ELSE Cardinality(LockSet(fLocksCount, Using(j)))
  <2>1. \A u \in Callers : move[u].looper # l
    BY <1>1, <1>5, <1>6, OwnedSettled
  <2>2. Using(j) \in SUBSET Loopers /\ (l \in Using(j) <=> j = k)
    BY <1>6, <2>1 DEF Using
  <2>3. Cardinality(LockSet(fLocksCount', Using(j))) =
          IF l \in Using(j) THEN Cardinality(LockSet(fLocksCount, Using(j))) + 1
          ELSE Cardinality(LockSet(fLocksCount, Using(j)))
    <3>1. PICK S \in SUBSET Loopers : S = Using(j)
      BY <2>2
    <3>2. PICK c \in [Loopers -> Nat] : c = fLocksCount
      BY <1>7
    <3>3. PICK e \in [Loopers -> Nat] : e = fLocksCount'
      BY <1>7
    <3>4. e[l] = c[l] + 1 /\ \A d \in Loopers : d # l => e[d] = c[d]
      BY <1>7, <3>2, <3>3
    <3>5. Cardinality(LockSet(e, S)) =
            IF l \in S THEN Cardinality(LockSet(c, S)) + 1 ELSE Cardinality(LockSet(c, S))
      BY <3>4, LockSetMore, LoopersFinite
    <3> QED BY <3>1, <3>2, <3>3, <3>5
  <2> QED BY <1>11, <2>2, <2>3
<1>13. ASSUME NEW j \in Lockers
       PROVE  /\ ~shut'[j] => depth'[j] = Cardinality(Locks(Using(j))') + Cardinality(GotOn(j)')
              /\ owner'[j] = None <=> depth'[j] = 0
  <2>1. CASE j = k
    <3>1. GotOn(j)' = {} /\ Cardinality(GotOn(j)') = 0
      BY <1>5, <1>9, <2>1, FS_EmptySet
    <3>2. /\ depth[j] = Cardinality(LockSet(fLocksCount, Using(j))) + 1
          /\ Cardinality(LockSet(fLocksCount, Using(j))) \in Nat
          /\ owner[j] = None <=> depth[j] = 0
      BY <1>5, <2>1, DepthIs
    <3>3. Cardinality(Locks(Using(j))') = Cardinality(LockSet(fLocksCount, Using(j))) + 1
      BY <1>12, <2>1
    <3> QED BY <1>1, <3>1, <3>2, <3>3
  <2>2. CASE j # k
    <3>1. t \notin GotOn(j)
      BY <1>3, <2>2 DEF GotOn
    <3>2. GotOn(j)' = GotOn(j)
      BY <1>9, <3>1
    <3> QED BY <1>1, <1>12, <2>2, <3>2, DepthIs
  <2> QED BY <2>1, <2>2
<1>14. ASSUME NEW u \in Callers, lookupPc'[u] = "got"
       PROVE  owner'[call'[u].locker] = u /\ ~shut'[call'[u].locker]
  <2>1. u # t /\ lookupPc[u] = "got" /\ call'[u] = call[u]
    BY <1>9, <1>14
  <2> QED BY <1>1, <2>1, GotFacts
<1>15. /\ \A u \in Callers, d \in Loopers :
            mine'[u][d] > 0 => mine'[u][d] = fLocksCount'[d] /\ owner[fLocker[d]] = u
       /\ \A d \in Loopers : fLocksCount'[d] > 0 => \E u \in Callers : mine'[u][d] > 0
  BY <1>5, <1>6, <1>7, <1>8, CountsChanged
<1>16. LocksCounted'
  BY <1>1, <1>13, <1>14, <1>15 DEF LocksCounted
<1>17. MovesAreSound'
  <2>1. \A u \in Callers, d \in Loopers :
          lookupPc[u] = "moving" /\ mine[u][d] > 0 => mine'[u][d] > 0
    BY <1>1, <1>7
  <2> QED BY <1>1, <1>9, <2>1, MovesKept
<1> QED BY <1>1, <1>9, <1>10, <1>16, <1>17, TreeKept DEF LockInv

LEMMA UnlockStep ==
    ASSUME LockInv, NEW t \in Callers, NEW l \in Loopers,
           Unlock(t, l)
    PROVE  LockInv'
<1>1. /\ lookupPc[t] = "idle" /\ mine[t][l] > 0
      /\ fLocksCount' = [fLocksCount EXCEPT ![l] = @ - 1]
      /\ GiveBack(fLocker[l], t)
      /\ mine' = [mine EXCEPT ![t][l] = @ - 1]
      /\ fProxy' = fProxy /\ fLocker' = fLocker /\ made' = made /\ shut' = shut
      /\ lookupPc' = lookupPc /\ call' = call /\ move' = move /\ breached' = breached
  BY DEF Unlock
<1>2. /\ owner[fLocker[l]] = t /\ fLocker[l] \in Lockers
      /\ mine[t][l] = fLocksCount[l] /\ fLocksCount[l] > 0
  BY <1>1, MineFacts
<1>3. PICK k \in Lockers : k = fLocker[l]
  BY <1>2
<1>4. GotOn(k) = {} /\ Cardinality(GotOn(k)) = 0 /\ ~shut[k]
  <2>1. ~shut[k]
    BY <1>1, <1>3, MineFacts
  <2> QED BY <1>1, <1>2, <1>3, <2>1, NobodyGot
<1>5. /\ owner' \in [Lockers -> Callers \cup {None}]
      /\ owner'[k] = IF depth[k] = 1 THEN None ELSE t
      /\ \A j \in Lockers : j # k => owner'[j] = owner[j]
      /\ depth' \in [Lockers -> Nat] /\ depth[k] \in Nat /\ depth[k] > 0
      /\ depth'[k] = depth[k] - 1
      /\ \A j \in Lockers : j # k => depth'[j] = depth[j]
      /\ owner'[k] = None <=> depth'[k] = 0
  BY <1>1, <1>2, <1>3, GivenBack
<1>6. /\ fLocksCount \in [Loopers -> Nat] /\ fLocksCount' \in [Loopers -> Nat]
      /\ fLocksCount[l] = fLocksCount'[l] + 1
      /\ \A d \in Loopers : d # l => fLocksCount[d] = fLocksCount'[d]
      /\ mine' \in [Callers -> [Loopers -> Nat]] /\ mine'[t][l] = fLocksCount'[l]
      /\ \A u \in Callers, d \in Loopers : u # t \/ d # l => mine'[u][d] = mine[u][d]
  <2>1. fLocksCount \in [Loopers -> Nat] /\ mine \in [Callers -> [Loopers -> Nat]]
    BY DEF LockInv, LooperLockTypeOK
  <2> QED BY <1>1, <1>2, <2>1
<1>7. LooperLockTypeOK'
  BY <1>1, <1>5, <1>6 DEF LockInv, LooperLockTypeOK
<1>8. CallsAreCurrent'
  BY <1>1, CallsKept
<1>9. ASSUME NEW j \in Lockers
      PROVE  Locks(Using(j))' = LockSet(fLocksCount', Using(j)) /\ GotOn(j)' = GotOn(j)
  <2>1. Using(j)' = Using(j)
    BY <1>1, TreeKept
  <2>2. Locks(Using(j))' = LockSet(fLocksCount', Using(j))
    BY <2>1 DEF Locks, LockSet
  <2> QED BY <1>1, <2>2 DEF GotOn
<1>10. ASSUME NEW j \in Lockers
       PROVE  /\ Cardinality(LockSet(fLocksCount, Using(j))) =
                   IF j = k THEN Cardinality(Locks(Using(j))') + 1
                   ELSE Cardinality(Locks(Using(j))')
              /\ Cardinality(Locks(Using(j))') \in Nat
  <2>1. \A u \in Callers : move[u].looper # l
    BY <1>1, <1>2, OwnedSettled
  <2>2. Using(j) \in SUBSET Loopers /\ (l \in Using(j) <=> j = k)
    BY <1>3, <2>1 DEF Using
  <2> QED BY <1>6, <1>9, <2>2, LockSetMore, LockSetFinite, LoopersFinite
<1>11. ASSUME NEW j \in Lockers
       PROVE  /\ ~shut'[j] => depth'[j] = Cardinality(Locks(Using(j))') + Cardinality(GotOn(j)')
              /\ owner'[j] = None <=> depth'[j] = 0
  <2>1. CASE j = k
    <3>1. Cardinality(GotOn(j)') = 0
      BY <1>4, <1>9, <2>1
    <3>2. depth[j] = Cardinality(LockSet(fLocksCount, Using(j))) + 0
      BY <1>4, <2>1, DepthIs
    <3>3. depth'[j] = Cardinality(Locks(Using(j))') + 0
      BY <1>5, <1>10, <2>1, <3>2
    <3> QED BY <1>5, <2>1, <3>1, <3>3
  <2>2. CASE j # k
    BY <1>1, <1>5, <1>9, <1>10, <2>2, DepthIs
  <2> QED BY <2>1, <2>2
<1>12. ASSUME NEW u \in Callers, lookupPc'[u] = "got"
       PROVE  owner'[call'[u].locker] = u /\ ~shut'[call'[u].locker]
  <2>1. /\ lookupPc[u] = "got" /\ call[u].locker \in Lockers
        /\ owner[call[u].locker] = u /\ ~shut[call[u].locker]
    BY <1>1, <1>12, GotFacts
  <2>2. call[u].locker # k
    BY <1>1, <1>2, <1>3, <2>1
  <2> QED BY <1>1, <1>5, <2>1, <2>2
<1>13. /\ \A u \in Callers, d \in Loopers :
            mine'[u][d] > 0 => mine'[u][d] = fLocksCount'[d] /\ owner[fLocker[d]] = u
       /\ \A d \in Loopers : fLocksCount'[d] > 0 => \E u \in Callers : mine'[u][d] > 0
  BY <1>2, <1>6, CountsChanged
<1>14. ASSUME NEW u \in Callers, NEW d \in Loopers, mine'[u][d] > 0
       PROVE  mine'[u][d] = fLocksCount'[d] /\ owner'[fLocker'[d]] = u
  <2>1. mine'[u][d] = fLocksCount'[d] /\ owner[fLocker[d]] = u /\ fLocker[d] \in Lockers
    BY <1>13, <1>14, LockFacts
  <2>2. CASE fLocker[d] = k
    <3>1. d \in Using(k) /\ Using(k) \in SUBSET Loopers /\ fLocksCount'[d] > 0
      BY <1>14, <2>1, <2>2 DEF Using
    <3>2. Cardinality(Locks(Using(k))') > 0
      BY <1>6, <1>9, <3>1, LockSetPositive, LoopersFinite
    <3>3. depth'[k] # 0
      <4>1. Cardinality(GotOn(k)') = 0 /\ Cardinality(Locks(Using(k))') \in Nat
        BY <1>4, <1>9, <1>10
      <4>2. depth'[k] = Cardinality(Locks(Using(k))') + 0
        BY <1>1, <1>4, <1>11, <4>1
      <4> QED BY <3>2, <4>1, <4>2
    <3> QED BY <1>1, <1>2, <1>3, <1>5, <2>1, <2>2, <3>3
  <2>3. CASE fLocker[d] # k
    BY <1>1, <1>5, <2>1, <2>3
  <2> QED BY <2>2, <2>3
<1>15. LocksCounted'
  BY <1>11, <1>12, <1>13, <1>14 DEF LocksCounted
<1>16. MovesAreSound'
  <2>1. \A u \in Callers, j \in Lockers :
          lookupPc[u] = "moving" /\ owner[j] = u => owner'[j] = u
    BY <1>1, <1>2, <1>3, <1>5
  <2>2. \A u \in Callers, d \in Loopers :
          lookupPc[u] = "moving" /\ mine[u][d] > 0 => mine'[u][d] > 0
    BY <1>1, <1>6
  <2> QED BY <1>1, <2>1, <2>2, MovesKept
<1> QED BY <1>1, <1>7, <1>8, <1>15, <1>16, TreeKept DEF LockInv

-----------------------------------------------------------------------------
(* ProxyBy *)

\* The looper gets its new proxy: whatever is under it has still to move, and
\* belongs to the thread, so that it was settled.
LEMMA BeginStep ==
    ASSUME LockInv, NEW t \in Callers, NEW l \in Loopers, NEW p \in Loopers \cup {None},
           lookupPc[t] = "idle", mine[t][l] > 0, BeginMove(t, l, p),
           p = None => fProxy[l] # None,
           p # None => mine[t][p] > 0 /\ Proxy(p) # Proxy(l)
    PROVE  LockInv'
<1> DEFINE m == [looper |-> l, old |-> fLocker[l], todo |-> Under(l), alone |-> fProxy[l] = None]
<1>1. /\ fProxy' = [fProxy EXCEPT ![l] = p] /\ move' = [move EXCEPT ![t] = m]
      /\ lookupPc' = [lookupPc EXCEPT ![t] = "moving"]
      /\ fLocker' = fLocker /\ fLocksCount' = fLocksCount /\ made' = made
      /\ owner' = owner /\ depth' = depth /\ shut' = shut /\ call' = call /\ mine' = mine
      /\ breached' = breached
  BY DEF BeginMove, lockers
<1>2. /\ owner[fLocker[l]] = t /\ fLocker[l] \in Lockers /\ fLocker[l] <= made
      /\ ~shut[fLocker[l]]
  BY MineFacts
<1>3. /\ \A d \in Under(l) : d \in Loopers /\ Settled(d) /\ fLocker[d] = fLocker[l]
      /\ Settled(l) /\ l \in Under(l) /\ Under(l) \in SUBSET Loopers
      /\ \A u \in Callers : move[u].looper # l
  BY <1>2, OwnedSettled
<1>4. /\ m \in MoveOf /\ m # NoMove
      /\ m.looper = l /\ m.old = fLocker[l] /\ m.todo = Under(l) /\ m.alone = (fProxy[l] = None)
  <2>1. l # None /\ (fProxy[l] = None) \in BOOLEAN
    BY LockFacts
  <2> QED BY <1>2, <1>3, <2>1 DEF MoveOf, NoMove
<1>5. move[t] = NoMove /\ move[t].todo = {}
  BY NotMoving
<1> HIDE DEF m
<1>6. /\ fProxy' \in Proxying /\ fProxy'[l] = p
      /\ \A d \in Loopers : d # l => fProxy'[d] = fProxy[d]
      /\ move' \in [Callers -> MoveOf \cup {NoMove}] /\ move'[t] = m
      /\ \A u \in Callers : u # t => move'[u] = move[u]
      /\ lookupPc' \in [Callers -> Places] /\ lookupPc'[t] = "moving"
      /\ \A u \in Callers : u # t => lookupPc'[u] = lookupPc[u]
  BY <1>1, <1>4 DEF LockInv, LooperLockTypeOK, Proxying, MoveOf, Places
<1>7. LooperLockTypeOK'
  BY <1>1, <1>6 DEF LockInv, LooperLockTypeOK, Proxying, MoveOf, Places
<1>8. ASSUME NEW d PROVE Settled(d)' <=> Settled(d) /\ d \notin Under(l)
  <2>1. ASSUME NEW u \in Callers
        PROVE  d \in move'[u].todo <=> d \in move[u].todo \/ (u = t /\ d \in Under(l))
    BY <1>4, <1>5, <1>6
  <2> QED BY <2>1 DEF Settled, HalfMoved
<1>9. /\ Rooted(fProxy')
      /\ \A d \in Loopers : d \notin Under(l) => Root(fProxy', d) = Root(fProxy, d)
  BY <1>6, LockFacts, MovedRoots DEF Proxy, Under
<1>10. SettledShareLockers'
  <2>1. \A d \in Loopers : Settled(d)' => Settled(d) /\ Proxy(d)' = Proxy(d)
    BY <1>8, <1>9 DEF Proxy
  <2> QED BY <1>1, <2>1 DEF LockInv, SettledShareLockers
<1>11. ASSUME NEW u \in Callers, u # t, lookupPc[u] = "moving" PROVE Moves(u)'
  <2>1. /\ Moves(u) /\ move[u].looper \in Loopers /\ move[u].old \in Lockers
        /\ move[u].todo \in SUBSET Loopers
    BY <1>11, MoveFacts
  <2>2. l \notin move[u].todo
    BY <1>3 DEF Settled, HalfMoved
  <2>3. ASSUME NEW q \in Loopers, Ready(u, q) PROVE Ready(u, q)'
    BY <1>1, <1>2, <1>3, <1>6, <1>8, <1>11, <2>3 DEF Ready
  <2>4. ASSUME NEW e \in Loopers, fProxy'[e] \in move[u].todo PROVE e \in move[u].todo
    <3>1. CASE e = l
      <4>1. p \in move[u].todo /\ p \in Loopers
        BY <1>6, <2>1, <2>4, <3>1
      <4>2. owner[fLocker[p]] = u /\ owner[fLocker[p]] = t
        BY <4>1, HalfOwned, MineFacts, LockFacts
      <4> QED BY <1>11, <4>2
    <3>2. CASE e # l
      BY <1>6, <2>1, <2>4, <3>2 DEF Moves
    <3> QED BY <3>1, <3>2
  <2>5. move[u].looper # l
    BY <1>3
  <2>6. ASSUME NEW d \in move[u].todo
        PROVE  /\ fLocker[d] = move[u].old
               /\ \/ d = move[u].looper /\ fProxy'[d] = None /\ ~move[u].alone
                  \/ Ready(u, fProxy[d])'
                  \/ d # move[u].looper /\ fProxy'[d] \in move[u].todo
    <3>1. d \in Loopers /\ d # l /\ fProxy'[d] = fProxy[d]
      BY <1>6, <2>1, <2>2
    <3>2. ASSUME Ready(u, fProxy[d]) PROVE Ready(u, fProxy[d])'
      <4>1. PICK q \in Loopers : q = fProxy[d]
        BY <3>2 DEF Ready
      <4>2. Ready(u, q)'
        BY <2>3, <3>2, <4>1
      <4> QED BY <3>1, <4>1, <4>2 DEF Ready
    <3> QED BY <2>1, <3>1, <3>2 DEF Moves
  <2>7. move[u].alone => /\ fProxy'[move[u].looper] # None
                         /\ \A d \in Loopers : fLocker[d] = move[u].old => d \in move[u].todo
    BY <1>6, <2>1, <2>5 DEF Moves
  <2> QED BY <1>1, <1>6, <1>11, <2>1, <2>4, <2>6, <2>7 DEF Moves
<1>12. Moves(t)'
  <2>1. ASSUME NEW d \in Under(l)
        PROVE  \/ d = l /\ fProxy'[d] = None /\ fProxy[l] # None
               \/ Ready(t, fProxy[d])'
               \/ d # l /\ fProxy'[d] \in Under(l)
    <3>1. CASE d = l /\ p = None
      BY <1>6, <3>1
    <3>2. CASE d = l /\ p # None
      <4>1. p \in Loopers /\ mine[t][p] > 0 /\ Proxy(p) # Proxy(l)
        BY <3>2
      <4>2. owner[fLocker[p]] = t /\ fLocker[p] \in Lockers
        BY <4>1, MineFacts
      <4>3. Settled(p)
        BY <4>1, <4>2, OwnedSettled
      <4>4. fLocker[p] # fLocker[l]
        BY <1>3, <4>1, <4>3 DEF LockInv, SettledShareLockers
      <4>5. p \notin Under(l)
        BY <1>3, <4>1, <4>4
      <4>6. Settled(p)' /\ fProxy'[d] = p /\ move'[t].old = fLocker[l]
        BY <1>4, <1>6, <1>8, <3>2, <4>3, <4>5
      <4>7. Ready(t, fProxy[d])'
        BY <1>1, <4>1, <4>2, <4>4, <4>6 DEF Ready
      <4> QED BY <4>7
    <3>3. CASE d # l
      <4>1. d \in Loopers /\ l \in AndAbove(fProxy, d) /\ fProxy'[d] = fProxy[d]
        BY <1>6, <3>3 DEF Under, AndUnder
      <4>2. fProxy[d] # None
        BY <3>3, <4>1, LockFacts, AboveRoot
      <4>3. fProxy[d] \in Loopers /\ l \in AndAbove(fProxy, fProxy[d])
        BY <3>3, <4>1, <4>2, LockFacts, AboveStep DEF Proxying
      <4> QED BY <3>3, <4>1, <4>3 DEF Under, AndUnder
    <3> QED BY <3>1, <3>2, <3>3
  <2>2. ASSUME NEW e \in Loopers, fProxy'[e] \in Under(l) PROVE e \in Under(l)
    <3>1. CASE e = l
      BY <1>3, <3>1
    <3>2. CASE e # l
      <4>1. fProxy[e] \in Loopers /\ l \in AndAbove(fProxy, fProxy[e]) /\ fProxy[e] # None
        BY <1>6, <2>2, <3>2, LockFacts DEF Under, AndUnder
      <4>2. l \in AndAbove(fProxy, e)
        BY <4>1, LockFacts, AboveStep
      <4> QED BY <4>2 DEF Under, AndUnder
    <3> QED BY <3>1, <3>2
  <2>3. ASSUME fProxy[l] = None
        PROVE  /\ fProxy'[l] # None
               /\ \A d \in Loopers : fLocker[d] = fLocker[l] => d \in Under(l)
    <3>1. ASSUME NEW d \in Loopers, fLocker[d] = fLocker[l] PROVE d \in Under(l)
      <4>1. Settled(d)
        BY <1>2, <3>1, OwnedSettled
      <4>2. Proxy(d) = Proxy(l) /\ Proxy(l) = l
        BY <1>3, <2>3, <3>1, <4>1, LockFacts, RootFacts DEF LockInv, SettledShareLockers, Proxy
      <4> QED BY <2>3, <4>2, LockFacts, UnderRoot DEF Under, Proxy
    <3> QED BY <1>6, <2>3, <3>1
  <2>4. /\ move'[t] # NoMove /\ move'[t].looper = l /\ move'[t].old = fLocker[l]
        /\ move'[t].todo = Under(l) /\ move'[t].alone = (fProxy[l] = None)
    BY <1>4, <1>6
  <2>5. /\ move'[t] # NoMove /\ move'[t].todo # {}
        /\ mine'[t][move'[t].looper] > 0
        /\ owner'[move'[t].old] = t /\ ~shut'[move'[t].old] /\ move'[t].old <= made'
    BY <1>1, <1>2, <1>3, <2>4
  <2>6. \A d \in move'[t].todo :
          /\ fLocker'[d] = move'[t].old
          /\ \/ d = move'[t].looper /\ fProxy'[d] = None /\ ~move'[t].alone
             \/ Ready(t, fProxy[d])'
             \/ d # move'[t].looper /\ fProxy'[d] \in move'[t].todo
    BY <1>1, <1>3, <2>1, <2>4
  <2>7. /\ \A e \in Loopers : fProxy'[e] \in move'[t].todo => e \in move'[t].todo
        /\ move'[t].looper \in move'[t].todo
    BY <1>3, <2>2, <2>4
  <2>8. move'[t].alone =>
          /\ fProxy'[move'[t].looper] # None
          /\ \A d \in Loopers : fLocker'[d] = move'[t].old => d \in move'[t].todo
    BY <1>1, <2>3, <2>4
  <2> QED BY <2>5, <2>6, <2>7, <2>8 DEF Moves
<1>13. MovesAreSound'
  <2>1. ASSUME NEW u \in Callers, u # t, lookupPc[u] # "moving" PROVE move'[u] = NoMove
    BY <1>6, <2>1, NotMoving
  <2> QED BY <1>6, <1>11, <1>12, <2>1 DEF MovesAreSound
<1>14. ASSUME NEW c \in CallOf, Current(c) PROVE Current(c)'
  <2>0. c.root \in Loopers
    BY DEF CallOf
  <2>1. CASE shut[c.locker]
    BY <1>1, <2>1 DEF Current
  <2>2. CASE fProxy[c.root] = None /\ fLocker[c.root] = c.locker /\ Settled(c.root)
    <3>1. CASE c.root = l
      <4>1. move'[t] # NoMove /\ move'[t].looper = c.root /\ move'[t].old = c.locker /\ move'[t].alone
        BY <1>4, <1>6, <2>2, <3>1
      <4> QED BY <4>1 DEF Current
    <3>2. CASE c.root # l
      <4>1. c.root \notin Under(l)
        BY <2>0, <2>2, <3>2, LockFacts, AboveRoot DEF Under, AndUnder
      <4> QED BY <1>1, <1>6, <1>8, <2>0, <2>2, <3>2, <4>1 DEF Current
    <3> QED BY <3>1, <3>2
  <2>3. ASSUME NEW u \in Callers, move[u] # NoMove, move[u].looper = c.root,
               move[u].old = c.locker, move[u].alone
        PROVE  Current(c)'
    <3>1. move'[u] = move[u]
      BY <1>5, <1>6, <2>3
    <3> QED BY <2>3, <3>1 DEF Current
  <2> QED BY <1>14, <2>1, <2>2, <2>3 DEF Current
<1>15. CallsAreCurrent'
  <2>1. ASSUME NEW u \in Callers, lookupPc'[u] \in {"waiting", "got"}
        PROVE  /\ call'[u] # NoCall
               /\ call'[u].locker <= made'
               /\ call'[u].torn \/ Current(call[u])'
    <3>1. u # t /\ lookupPc[u] \in {"waiting", "got"} /\ call'[u] = call[u]
      BY <1>1, <1>6, <2>1
    <3>2. call[u] \in CallOf /\ (call[u].torn \/ Current(call[u]))
      BY <3>1, CallFacts
    <3>3. ASSUME Current(call[u]) PROVE Current(call[u])'
      <4>1. PICK c \in CallOf : c = call[u]
        BY <3>2
      <4>2. Current(c)'
        BY <1>14, <3>3, <4>1
      <4> QED BY <3>1, <4>1, <4>2 DEF Current
    <3>4. call[u] # NoCall /\ call[u].locker <= made
      BY <3>1 DEF LockInv, CallsAreCurrent
    <3> QED BY <1>1, <3>1, <3>2, <3>3, <3>4
  <2> QED BY <2>1 DEF CallsAreCurrent
<1>16. ASSUME NEW k PROVE Using(k)' = Using(k)
  <2>1. ASSUME NEW d \in Loopers
        PROVE  (\E u \in Callers : move'[u].looper = d /\ move'[u].old = k)
                 <=> (d = l /\ fLocker[l] = k) \/ \E u \in Callers : move[u].looper = d /\ move[u].old = k
    <3>1. move[t].looper # d
      BY LockFacts, NotMoving
    <3> QED BY <1>4, <1>6, <3>1
  <2>2. ASSUME NEW d \in Loopers PROVE d \in Using(k)' <=> d \in Using(k)
    BY <1>1, <2>1 DEF Using
  <2>3. Using(k)' \subseteq Loopers /\ Using(k) \subseteq Loopers
    BY DEF Using
  <2> QED BY <2>2, <2>3
<1>17. LocksCounted'
  <2>1. /\ \A u \in Callers : lookupPc'[u] = "got" <=> lookupPc[u] = "got"
        /\ \A u \in Callers : lookupPc[u] = "got" => call'[u] = call[u]
    BY <1>1, <1>6
  <2> QED BY <1>1, <1>16, <2>1, CountsKept
<1> QED BY <1>7, <1>9, <1>10, <1>13, <1>15, <1>17 DEF LockInv

\* A locker that has not been made yet.
LEMMA FreshLocker ==
    ASSUME LockInv, NEW k \in Lockers, k > made
    PROVE  /\ Using(k) = {} /\ GotOn(k) = {} /\ ~shut[k] /\ owner[k] = None
           /\ \A d \in Loopers : fLocker[d] # k
<1>0. made \in Nat /\ Lockers \in SUBSET Nat
  BY DEF LockInv, LooperLockTypeOK, Lockers
<1>1. \A j \in Lockers : j <= made => j # k
  BY <1>0
<1>2. ~shut[k]
  BY <1>1 DEF LockInv, SettledShareLockers
<1>3. \A d \in Loopers : fLocker[d] # k
  BY <1>1, LockFacts DEF LockInv, SettledShareLockers
<1>4. ASSUME NEW d \in Loopers, NEW u \in Callers, move[u].looper = d PROVE move[u].old # k
  <2>1. lookupPc[u] = "moving"
    BY <1>4, NotMoving
  <2> QED BY <1>1, <2>1, MoveFacts DEF Moves
<1>5. Using(k) = {}
  BY <1>3, <1>4 DEF Using
<1>6. ASSUME NEW u \in GotOn(k) PROVE FALSE
  <2>1. u \in Callers /\ lookupPc[u] = "got" /\ call[u].locker = k
    BY DEF GotOn
  <2> QED BY <1>1, <2>1, CallFacts
<1>7. GotOn(k) = {}
  BY <1>6
<1>8. Cardinality(LockSet(fLocksCount, Using(k))) = 0 /\ Cardinality(GotOn(k)) = 0
  BY <1>5, <1>7, LockSetEmpty, FS_EmptySet
<1>9. depth[k] = 0 + 0
  BY <1>2, <1>8, DepthIs
<1> QED BY <1>2, <1>3, <1>5, <1>7, <1>9, DepthIs

\* The locks on one looper.
LEMMA LockSetOne ==
    ASSUME NEW c \in [Loopers -> Nat], NEW d \in Loopers
    PROVE  Cardinality(LockSet(c, {d})) = c[d]
<1>1. c[d] \in Nat
  OBVIOUS
<1>2. LockSet(c, {d}) = {d} \X (1..c[d])
  BY DEF LockSet
<1>3. IsFiniteSet({d}) /\ Cardinality({d}) = 1
  BY FS_Singleton
<1>4. IsFiniteSet(1..c[d]) /\ Cardinality(1..c[d]) = c[d]
  <2>1. 1 \in Int /\ c[d] \in Int
    BY <1>1
  <2>2. Cardinality(1..c[d]) = IF 1 > c[d] THEN 0 ELSE c[d] - 1 + 1
    BY <2>1, FS_Interval
  <2> QED BY <1>1, <2>1, <2>2, FS_Interval
<1>5. Cardinality({d} \X (1..c[d])) = 1 * c[d]
  <2>1. PICK S, T : S = {d} /\ T = 1..c[d]
    OBVIOUS
  <2>2. /\ IsFiniteSet(S) /\ Cardinality(S) = 1
        /\ IsFiniteSet(T) /\ Cardinality(T) = c[d]
    BY <1>3, <1>4, <2>1
  <2>3. Cardinality(S \X T) = Cardinality(S) * Cardinality(T)
    BY <2>2, FS_Product, Zenon
  <2>4. Cardinality(S \X T) = 1 * c[d]
    BY <2>2, <2>3, Zenon
  <2> QED BY <2>1, <2>4, Zenon
<1>6. \A n \in Nat : 1 * n = n
  OBVIOUS
<1> QED BY <1>1, <1>2, <1>5, <1>6

\* The new locker k of d: the thread's own, or nobody's, and that of the settled
\* loopers of d's tree.
LEMMA NewLockerFacts ==
    ASSUME LockInv, NEW t \in Callers, NEW d \in Loopers, Exchange(t, d),
           NEW k \in Lockers, k = NewLocker(d), NEW o \in Lockers, o = move[t].old
    PROVE  /\ k # o /\ ~shut[k] /\ GotOn(k) = {} /\ owner[k] \in {None, t}
           /\ made' \in 0..MaxLockers /\ made <= made' /\ k <= made'
           /\ fLocksCount[d] > 0 \/ owner[k] = t
           /\ \A e \in Loopers : Settled(e) => (fLocker[e] = k <=> Proxy(e) = Proxy(d))
           /\ fProxy[d] \notin move[t].todo
<1>1. /\ lookupPc[t] = "moving" /\ d \in move[t].todo
      /\ d = move[t].looper \/ fProxy[d] \notin move[t].todo
      /\ made' = IF fProxy[d] = None THEN k ELSE made
  BY DEF Exchange
<1>2. /\ Moves(t) /\ move[t].looper \in Loopers /\ move[t].todo \in SUBSET Loopers
      /\ mine[t][move[t].looper] > 0 /\ o <= made /\ made \in Nat /\ ~Settled(d)
      /\ MaxLockers \in Nat /\ made <= MaxLockers
  BY <1>1, MoveFacts, LooperLockAssumption
     DEF Moves, Settled, HalfMoved, LockInv, LooperLockTypeOK
<1>3. CASE d = move[t].looper /\ fProxy[d] = None
  <2>1. k = made + 1 /\ made' = k
    BY <1>1, <1>3 DEF NewLocker
  <2>2. k > made /\ k # o
    BY <1>2, <2>1
  <2>3. /\ GotOn(k) = {} /\ ~shut[k] /\ owner[k] = None
        /\ \A e \in Loopers : fLocker[e] # k
    BY <2>2, FreshLocker
  <2>4. fLocksCount[d] > 0
    BY <1>2, <1>3, MineFacts
  <2>5. ASSUME NEW e \in Loopers, Settled(e) PROVE Proxy(e) # Proxy(d)
    <3>1. Proxy(d) = d /\ Proxy(e) \in AndAbove(fProxy, e)
      BY <1>3, LockFacts, RootFacts DEF Proxy
    <3>2. Settled(Proxy(e))
      BY <2>5, <3>1, SettledUp
    <3> QED BY <1>2, <3>1, <3>2
  <2>6. made' \in 0..MaxLockers /\ made <= made' /\ k <= made'
    BY <1>2, <2>1 DEF Lockers
  <2>7. fProxy[d] \notin move[t].todo
    BY <1>2, <1>3, LockFacts
  <2> QED BY <2>2, <2>3, <2>4, <2>5, <2>6, <2>7
<1>4. CASE Ready(t, fProxy[d])
  <2>1. PICK q \in Loopers : q = fProxy[d]
    BY <1>4 DEF Ready
  <2>2. Settled(q) /\ owner[fLocker[q]] = t /\ fLocker[q] # o /\ q # None
    BY <1>4, <2>1, LockFacts DEF Ready
  <2>3. k = fLocker[q] /\ made' = made
    BY <1>1, <2>1, <2>2 DEF NewLocker
  <2>4. k <= made /\ ~shut[k]
    BY <2>3 DEF LockInv, SettledShareLockers
  <2>5. GotOn(k) = {}
    BY <1>1, <2>2, <2>3, NobodyGot
  <2>6. Proxy(d) = Proxy(q)
    <3>1. q \in AndAbove(fProxy, d)
      BY <2>1, <2>2, LockFacts, AboveClosed DEF Upwards
    <3> QED BY <3>1, LockFacts, RootFacts DEF Proxy
  <2>7. \A e \in Loopers : Settled(e) => (fLocker[e] = k <=> Proxy(e) = Proxy(d))
    BY <2>2, <2>3, <2>6 DEF LockInv, SettledShareLockers
  <2>8. fProxy[d] \notin move[t].todo
    BY <2>1, <2>2 DEF Settled, HalfMoved
  <2>9. made' \in 0..MaxLockers /\ made <= made' /\ k <= made'
    BY <1>2, <2>3, <2>4
  <2> QED BY <2>2, <2>3, <2>4, <2>5, <2>7, <2>8, <2>9
<1> QED BY <1>1, <1>2, <1>3, <1>4 DEF Moves

\* Where the locks of the mover go.
LEMMA Exchanged ==
    ASSUME LockInv, NEW t \in Callers, NEW d \in Loopers, Exchange(t, d),
           NEW k \in Lockers, k = NewLocker(d), NEW o \in Lockers, o = move[t].old
    PROVE  /\ owner' \in [Lockers -> Callers \cup {None}] /\ depth' \in [Lockers -> Nat]
           /\ fLocker' \in [Loopers -> Lockers] /\ fLocker'[d] = k
           /\ \A e \in Loopers : e # d => fLocker'[e] = fLocker[e]
           /\ \A j \in Lockers : j # k /\ j # o => owner'[j] = owner[j] /\ depth'[j] = depth[j]
           /\ owner'[k] = t /\ depth'[k] = depth[k] + fLocksCount[d]
           /\ Leaving(t, d) \subseteq Using(o)
           /\ depth'[o] = Cardinality(LockSet(fLocksCount, Using(o) \ Leaving(t, d)))
           /\ owner'[o] = IF depth'[o] = 0 THEN None ELSE t
<1> DEFINE L == Leaving(t, d)
           n == Cardinality(LockSet(fLocksCount, L))
           rest == Cardinality(LockSet(fLocksCount, Using(o) \ L))
<1>1. /\ lookupPc[t] = "moving" /\ d \in move[t].todo
  BY DEF Exchange
<1>2. /\ Moves(t) /\ move[t].looper \in Loopers /\ owner[o] = t /\ ~shut[o] /\ fLocker[d] = o
  BY <1>1, MoveFacts DEF Moves
<1>3. k # o /\ owner[k] \in {None, t} /\ (fLocksCount[d] > 0 \/ owner[k] = t)
  BY NewLockerFacts
<1>4. /\ fLocksCount \in [Loopers -> Nat] /\ fLocksCount[d] \in Nat /\ depth \in [Lockers -> Nat]
      /\ owner \in [Lockers -> Callers \cup {None}] /\ fLocker \in [Loopers -> Lockers]
  BY DEF LockInv, LooperLockTypeOK
<1>5. L \subseteq Using(o)
  BY <1>2 DEF Leaving, Using
<1>6. L \in SUBSET Loopers /\ Using(o) \in SUBSET Loopers
  BY <1>5 DEF Using
<1>7. n \in Nat /\ rest \in Nat
  BY <1>4, <1>6, LockSetFinite, LoopersFinite
<1>8. depth[o] = n + rest
  <2>1. GotOn(o) = {} /\ Cardinality(GotOn(o)) = 0
    BY <1>1, <1>2, NobodyGot
  <2>2. /\ depth[o] = Cardinality(LockSet(fLocksCount, Using(o))) + 0
        /\ Cardinality(LockSet(fLocksCount, Using(o))) \in Nat
    BY <1>2, <2>1, DepthIs
  <2>3. Using(o) = L \cup (Using(o) \ L) /\ L \cap (Using(o) \ L) = {}
    BY <1>5
  <2>4. PICK A \in SUBSET Loopers : A = L
    BY <1>6
  <2>5. PICK B \in SUBSET Loopers : B = Using(o) \ L
    BY <1>6
  <2>6. Cardinality(LockSet(fLocksCount, A \cup B)) =
          Cardinality(LockSet(fLocksCount, A)) + Cardinality(LockSet(fLocksCount, B))
    BY <1>4, <2>3, <2>4, <2>5, LockSetUnion, LoopersFinite
  <2> QED BY <2>2, <2>3, <2>4, <2>5, <2>6
<1>9. n = Cardinality(Locks(Leaving(t, d)))
  BY DEF Locks, LockSet
<1> HIDE DEF n, rest, L
<1>10. /\ Unlocked(o, t, n).owner = IF rest = 0 THEN None ELSE t
       /\ Unlocked(o, t, n).depth = rest
  BY <1>2, <1>7, <1>8 DEF Unlocked
<1>11. /\ fLocker' = [fLocker EXCEPT ![d] = k]
       /\ owner' = [owner EXCEPT ![k] = IF fLocksCount[d] > 0 THEN t ELSE owner[k],
                                 ![o] = Unlocked(o, t, n).owner]
       /\ depth' = [depth EXCEPT ![k] = depth[k] + fLocksCount[d],
                                 ![o] = Unlocked(o, t, n).depth]
  BY <1>9 DEF Exchange
<1>12. /\ fLocker' \in [Loopers -> Lockers] /\ fLocker'[d] = k
       /\ \A e \in Loopers : e # d => fLocker'[e] = fLocker[e]
  BY <1>4, <1>11
<1>13. /\ owner' \in [Lockers -> Callers \cup {None}] /\ owner'[k] = t
       /\ owner'[o] = IF rest = 0 THEN None ELSE t
       /\ \A j \in Lockers : j # k /\ j # o => owner'[j] = owner[j]
  BY <1>3, <1>4, <1>10, <1>11
<1>14. /\ depth' \in [Lockers -> Nat] /\ depth'[k] = depth[k] + fLocksCount[d]
       /\ depth'[o] = rest
       /\ \A j \in Lockers : j # k /\ j # o => depth'[j] = depth[j]
  BY <1>3, <1>4, <1>7, <1>10, <1>11
<1> QED BY <1>5, <1>12, <1>13, <1>14 DEF L, rest

\* Who uses which locker after a looper has got its new one.
LEMMA UsingExchanged ==
    ASSUME LockInv, NEW t \in Callers, NEW d \in Loopers, Exchange(t, d),
           NEW k \in Lockers, k = NewLocker(d), NEW o \in Lockers, o = move[t].old
    PROVE  /\ Using(k)' = Using(k) \cup {d} /\ d \notin Using(k)
           /\ ~(move[t].alone /\ move[t].todo = {d}) => Using(o)' = Using(o) \ Leaving(t, d)
           /\ \A j \in Lockers : j # k /\ j # o => Using(j)' = Using(j)
<1>1. /\ lookupPc[t] = "moving" /\ d \in move[t].todo
      /\ IF move[t].todo = {d} THEN move' = [move EXCEPT ![t] = NoMove]
         ELSE move' = [move EXCEPT ![t].todo = move[t].todo \ {d}]
  BY DEF Exchange
<1>2. /\ Moves(t) /\ move[t] \in MoveOf /\ move[t].looper \in Loopers /\ owner[o] = t
      /\ fLocker[d] = o /\ k # o
      /\ move[t].looper \notin move[t].todo => fLocker[move[t].looper] # o
  BY <1>1, MoveFacts, NewLockerFacts DEF Moves
<1>3. /\ fLocker'[d] = k /\ \A e \in Loopers : e # d => fLocker'[e] = fLocker[e]
  <2>1. fLocker' = [fLocker EXCEPT ![d] = k]
    BY DEF Exchange
  <2> QED BY <2>1 DEF LockInv, LooperLockTypeOK
<1>4. PICK m \in Loopers : m = move[t].looper
  BY <1>2
<1>5. move \in [Callers -> MoveOf \cup {NoMove}] /\ None \notin Loopers
  BY LockFacts DEF LockInv, LooperLockTypeOK, MoveOf
<1>6. /\ \A u \in Callers : u # t => move'[u] = move[u]
      /\ move[t].todo = {d} => move'[t].looper \notin Loopers
      /\ move[t].todo # {d} => move'[t].looper = m /\ move'[t].old = o
  BY <1>1, <1>2, <1>4, <1>5 DEF NoMove, MoveOf
<1>7. ASSUME NEW u \in Callers, u # t, NEW e \in Loopers, move[u].looper = e
      PROVE  move[u].old # o /\ e # d /\ move[u].old # k
  <2>1. lookupPc[u] = "moving"
    BY <1>7, NotMoving
  <2>2. /\ owner[move[u].old] = u /\ owner[fLocker[e]] = u /\ move[u].old \in Lockers /\ u # None
    BY <1>7, <2>1, MoveFacts, LockFacts DEF Moves
  <2>3. owner[k] \in {None, t}
    BY NewLockerFacts
  <2> QED BY <1>2, <1>7, <2>2, <2>3
<1>8. ASSUME NEW j \in Lockers, NEW e \in Loopers
      PROVE  /\ e \in Using(j) <=> \/ fLocker[e] = j
                                   \/ e = m /\ j = o
                                   \/ \E u \in Callers : u # t /\ move[u].looper = e /\ move[u].old = j
             /\ e \in Using(j)' <=> \/ fLocker'[e] = j
                                    \/ move[t].todo # {d} /\ e = m /\ j = o
                                    \/ \E u \in Callers : u # t /\ move[u].looper = e /\ move[u].old = j
  <2>1. e \in Using(j) <=> \/ fLocker[e] = j
                           \/ e = m /\ j = o
                           \/ \E u \in Callers : u # t /\ move[u].looper = e /\ move[u].old = j
    BY <1>4 DEF Using
  <2>2. e \in Using(j)' <=> \/ fLocker'[e] = j
                            \/ \E u \in Callers : move'[u].looper = e /\ move'[u].old = j
    BY DEF Using
  <2>3. (\E u \in Callers : move'[u].looper = e /\ move'[u].old = j) <=>
          \/ move[t].todo # {d} /\ e = m /\ j = o
          \/ \E u \in Callers : u # t /\ move[u].looper = e /\ move[u].old = j
    BY <1>6
  <2> QED BY <2>1, <2>2, <2>3
<1>9. \A j : Using(j) \subseteq Loopers /\ Using(j)' \subseteq Loopers
  BY DEF Using
<1>10. Using(k)' = Using(k) \cup {d} /\ d \notin Using(k)
  <2>1. d \notin Using(k)
    BY <1>2, <1>7, <1>8
  <2>2. \A e \in Loopers : e \in Using(k)' <=> e \in Using(k) \/ e = d
    BY <1>2, <1>3, <1>8
  <2> QED BY <1>9, <2>1, <2>2
<1>11. ASSUME ~(move[t].alone /\ move[t].todo = {d})
       PROVE  Using(o)' = Using(o) \ Leaving(t, d)
  <2>1. \A e \in Loopers :
          /\ e \in Using(o) <=> fLocker[e] = o \/ e = m
          /\ e \in Using(o)' <=> fLocker'[e] = o \/ (move[t].todo # {d} /\ e = m)
    BY <1>7, <1>8
  <2>2. \A e \in Loopers :
          e \in Leaving(t, d) <=> \/ e = d /\ d # m
                                  \/ (e = d \/ e = m) /\ move[t].todo = {d}
    BY <1>4, <1>11 DEF Leaving
  <2>3. move[t].todo = {d} /\ m # d => fLocker[m] # o
    BY <1>2, <1>4
  <2>4. \A e \in Loopers : e \in Using(o)' <=> e \in Using(o) /\ e \notin Leaving(t, d)
    BY <1>2, <1>3, <2>1, <2>2, <2>3
  <2> QED BY <1>9, <2>4
<1>12. ASSUME NEW j \in Lockers, j # k, j # o PROVE Using(j)' = Using(j)
  <2>1. \A e \in Loopers : e \in Using(j)' <=> e \in Using(j)
    BY <1>2, <1>3, <1>8, <1>12
  <2> QED BY <1>9, <2>1
<1> QED BY <1>10, <1>11, <1>12

LEMMA ExchangeStep ==
    ASSUME LockInv, NEW t \in Callers, NEW d \in Loopers, Exchange(t, d)
    PROVE  LockInv'
<1>1. /\ lookupPc[t] = "moving" /\ d \in move[t].todo /\ NewLocker(d) \in Lockers
      /\ IF move[t].todo = {d}
           THEN /\ shut' = Closed(t) /\ move' = [move EXCEPT ![t] = NoMove]
                /\ lookupPc' = [lookupPc EXCEPT ![t] = "idle"]
           ELSE /\ move' = [move EXCEPT ![t].todo = move[t].todo \ {d}]
                /\ shut' = shut /\ lookupPc' = lookupPc
      /\ fProxy' = fProxy /\ fLocksCount' = fLocksCount /\ call' = call /\ mine' = mine
      /\ breached' = breached
  BY DEF Exchange
<1>2. PICK k \in Lockers : k = NewLocker(d)
  BY <1>1
<1>3. /\ Moves(t) /\ move[t] \in MoveOf /\ move[t].looper \in Loopers /\ move[t].old \in Lockers
      /\ move[t].todo \in SUBSET Loopers /\ move[t].alone \in BOOLEAN
  BY <1>1, MoveFacts
<1>4. PICK o \in Lockers : o = move[t].old
  BY <1>3
<1>5. /\ k # o /\ ~shut[k] /\ GotOn(k) = {} /\ owner[k] \in {None, t}
      /\ made' \in 0..MaxLockers /\ made <= made' /\ k <= made'
      /\ \A e \in Loopers : Settled(e) => (fLocker[e] = k <=> Proxy(e) = Proxy(d))
      /\ fProxy[d] \notin move[t].todo
  BY <1>2, <1>4, NewLockerFacts
<1>6. /\ owner' \in [Lockers -> Callers \cup {None}] /\ depth' \in [Lockers -> Nat]
      /\ fLocker' \in [Loopers -> Lockers] /\ fLocker'[d] = k
      /\ \A e \in Loopers : e # d => fLocker'[e] = fLocker[e]
  <2>1. owner' \in [Lockers -> Callers \cup {None}]
    BY <1>2, <1>4, Exchanged
  <2>2. depth' \in [Lockers -> Nat]
    BY <1>2, <1>4, Exchanged
  <2>3. fLocker' = [fLocker EXCEPT ![d] = k]
    BY <1>2 DEF Exchange
  <2> QED BY <2>1, <2>2, <2>3 DEF LockInv, LooperLockTypeOK
<1>7. /\ \A j \in Lockers : j # k /\ j # o => owner'[j] = owner[j] /\ depth'[j] = depth[j]
      /\ owner'[k] = t /\ depth'[k] = depth[k] + fLocksCount[d]
      /\ depth'[o] = Cardinality(LockSet(fLocksCount, Using(o) \ Leaving(t, d)))
      /\ owner'[o] = IF depth'[o] = 0 THEN None ELSE t
  BY <1>2, <1>4, Exchanged
<1>8. /\ Using(k)' = Using(k) \cup {d} /\ d \notin Using(k)
      /\ ~(move[t].alone /\ move[t].todo = {d}) => Using(o)' = Using(o) \ Leaving(t, d)
      /\ \A j \in Lockers : j # k /\ j # o => Using(j)' = Using(j)
  BY <1>2, <1>4, UsingExchanged
<1>9. /\ owner[o] = t /\ ~shut[o] /\ o <= made /\ fLocker[d] = o /\ ~Settled(d)
      /\ mine[t][move[t].looper] > 0 /\ t # None /\ made \in Nat /\ Lockers \in SUBSET Nat
      /\ \A j \in Lockers : j <= made => j <= made'
  <2>1. owner[o] = t /\ ~shut[o] /\ o <= made /\ fLocker[d] = o /\ mine[t][move[t].looper] > 0
    BY <1>1, <1>3, <1>4 DEF Moves
  <2>2. ~Settled(d)
    BY <1>1 DEF Settled, HalfMoved
  <2>3. made \in Nat /\ made' \in Nat /\ Lockers \in SUBSET Nat
    BY <1>5, LooperLockAssumption DEF LockInv, LooperLockTypeOK, Lockers
  <2>4. ASSUME NEW j \in Lockers, j <= made PROVE j <= made'
    <3>1. j \in Nat
      BY <2>3
    <3> QED BY <1>5, <2>3, <2>4, <3>1
  <2> QED BY <2>1, <2>2, <2>3, <2>4, LockFacts
<1>10. /\ move' \in [Callers -> MoveOf \cup {NoMove}]
       /\ \A u \in Callers : u # t => move'[u] = move[u]
       /\ move[t].todo = {d} => move'[t] = NoMove
       /\ move[t].todo # {d} =>
            /\ move'[t] \in MoveOf /\ move'[t].looper = move[t].looper /\ move'[t].old = o
            /\ move'[t].alone = move[t].alone
       /\ move'[t].todo = move[t].todo \ {d}
  <2>1. move \in [Callers -> MoveOf \cup {NoMove}]
    BY DEF LockInv, LooperLockTypeOK, MoveOf
  <2>2. CASE move[t].todo = {d}
    <3>1. move' = [move EXCEPT ![t] = NoMove]
      BY <1>1, <2>2
    <3> QED BY <2>1, <2>2, <3>1 DEF NoMove
  <2>3. CASE move[t].todo # {d}
    <3>1. move' = [move EXCEPT ![t] = [move[t] EXCEPT !.todo = move[t].todo \ {d}]]
      BY <1>1, <2>3
    <3>2. PICK m \in MoveOf : m = [move[t] EXCEPT !.todo = move[t].todo \ {d}]
      BY <1>3 DEF MoveOf
    <3>3. /\ m.looper = move[t].looper /\ m.old = o /\ m.alone = move[t].alone
          /\ m.todo = move[t].todo \ {d}
      BY <1>3, <1>4, <3>2 DEF MoveOf
    <3>4. /\ move' \in [Callers -> MoveOf \cup {NoMove}] /\ move'[t] = m
          /\ \A u \in Callers : u # t => move'[u] = move[u]
      BY <2>1, <3>1, <3>2
    <3> QED BY <2>3, <3>3, <3>4
  <2> QED BY <2>2, <2>3
<1>11. /\ shut' \in [Lockers -> BOOLEAN]
       /\ \A j \in Lockers :
             shut'[j] <=> shut[j] \/ (move[t].todo = {d} /\ move[t].alone /\ j = o)
  <2>1. shut \in [Lockers -> BOOLEAN]
    BY DEF LockInv, LooperLockTypeOK
  <2>2. CASE move[t].todo = {d} /\ move[t].alone
    <3>1. shut' = [shut EXCEPT ![o] = TRUE]
      BY <1>1, <1>4, <2>2 DEF Closed
    <3> QED BY <2>1, <2>2, <3>1, Zenon
  <2>3. CASE ~(move[t].todo = {d} /\ move[t].alone)
    <3>1. shut' = shut
      BY <1>1, <2>3 DEF Closed
    <3> QED BY <2>1, <2>3, <3>1
  <2> QED BY <2>2, <2>3
<1>12. /\ lookupPc' \in [Callers -> Places]
       /\ \A u \in Callers : u # t => lookupPc'[u] = lookupPc[u]
       /\ lookupPc'[t] = IF move[t].todo = {d} THEN "idle" ELSE "moving"
  <2>1. lookupPc \in [Callers -> Places]
    BY DEF LockInv, LooperLockTypeOK, Places
  <2> QED BY <1>1, <2>1 DEF Places
<1>13. LooperLockTypeOK'
  BY <1>1, <1>5, <1>6, <1>10, <1>11, <1>12 DEF LockInv, LooperLockTypeOK, MoveOf, Places
<1>14. ASSUME NEW e PROVE Settled(e)' <=> Settled(e) \/ e = d
  <2>1. \A u \in Callers : d \in move[u].todo => u = t
    BY <1>1, HalfOwned
  <2>2. \A u \in Callers : e \in move'[u].todo <=> e \in move[u].todo /\ e # d
    BY <1>10, <2>1
  <2> QED BY <1>1, <2>2 DEF Settled, HalfMoved
<1>15. Rooted(fProxy)'
  BY <1>1 DEF LockInv
<1>16. SettledShareLockers'
  <2>1. \A e \in Loopers : Proxy(e)' = Proxy(e)
    BY <1>1 DEF Proxy
  <2>2. \A e \in Loopers : Settled(e) => e # d
    BY <1>9
  <2>3. \A e, m \in Loopers :
          Settled(e)' /\ Settled(m)' => (fLocker'[e] = fLocker'[m] <=> Proxy(e)' = Proxy(m)')
    <3>1. ASSUME NEW e \in Loopers, NEW m \in Loopers, Settled(e), Settled(m)
          PROVE  fLocker'[e] = fLocker'[m] <=> Proxy(e) = Proxy(m)
      BY <1>6, <2>2, <3>1 DEF LockInv, SettledShareLockers
    <3>2. ASSUME NEW e \in Loopers, Settled(e)
          PROVE  fLocker'[e] = fLocker'[d] <=> Proxy(e) = Proxy(d)
      BY <1>5, <1>6, <2>2, <3>2
    <3> QED BY <1>14, <2>1, <3>1, <3>2
  <2>4. ASSUME NEW e \in Loopers PROVE fLocker'[e] <= made' /\ ~shut'[fLocker'[e]]
    <3>1. CASE e = d
      BY <1>5, <1>6, <1>11, <3>1
    <3>2. CASE e # d
      <4>1. fLocker'[e] = fLocker[e] /\ fLocker[e] \in Lockers /\ fLocker[e] <= made
            /\ ~shut[fLocker[e]]
        BY <1>6, <3>2, LockFacts DEF LockInv, SettledShareLockers
      <4>2. fLocker[e] <= made'
        BY <1>9, <4>1
      <4>3. move[t].todo = {d} /\ move[t].alone => fLocker[e] # o
        BY <1>3, <1>4, <3>2 DEF Moves
      <4> QED BY <1>11, <4>1, <4>2, <4>3
    <3> QED BY <3>1, <3>2
  <2>5. ASSUME NEW j \in Lockers, shut'[j] PROVE j <= made'
    <3>1. j <= made
      BY <1>9, <1>11, <2>5 DEF LockInv, SettledShareLockers
    <3> QED BY <1>9, <3>1
  <2> QED BY <2>3, <2>4, <2>5 DEF SettledShareLockers
<1>17. ASSUME NEW j \in Lockers, NEW u \in Callers, u # t, owner[j] = u
       PROVE  j # o /\ j # k /\ owner'[j] = u
  <2>1. u # None
    BY LockFacts
  <2> QED BY <1>5, <1>7, <1>9, <1>17, <2>1
<1>18. ASSUME NEW u \in Callers, u # t, lookupPc[u] = "moving" PROVE Moves(u)'
  <2>1. /\ Moves(u) /\ move[u].looper \in Loopers /\ move[u].old \in Lockers
        /\ move[u].todo \in SUBSET Loopers /\ move'[u] = move[u] /\ d \notin move[u].todo
    BY <1>1, <1>10, <1>18, MoveFacts, HalfOwned
  <2>2. move[u].old # o /\ move[u].old # k /\ owner'[move[u].old] = u
    BY <1>17, <1>18, <2>1 DEF Moves
  <2>3. ASSUME NEW q \in Loopers, Ready(u, q) PROVE Ready(u, q)'
    <3>1. Settled(q) /\ q # d /\ owner[fLocker[q]] = u /\ fLocker[q] # move[u].old
          /\ fLocker[q] \in Lockers
      BY <1>9, <2>3, LockFacts DEF Ready
    <3>2. Settled(q)' /\ fLocker'[q] = fLocker[q] /\ owner'[fLocker[q]] = u
      BY <1>6, <1>14, <1>17, <1>18, <3>1
    <3> QED BY <2>1, <3>1, <3>2 DEF Ready
  <2>4. ASSUME NEW e \in move[u].todo
        PROVE  /\ fLocker'[e] = move[u].old
               /\ \/ e = move[u].looper /\ fProxy'[e] = None /\ ~move[u].alone
                  \/ Ready(u, fProxy[e])'
                  \/ e # move[u].looper /\ fProxy'[e] \in move[u].todo
    <3>1. e \in Loopers /\ e # d
      BY <2>1
    <3>2. ASSUME Ready(u, fProxy[e]) PROVE Ready(u, fProxy[e])'
      <4>1. PICK q \in Loopers : q = fProxy[e]
        BY <3>2 DEF Ready
      <4>2. Ready(u, q)'
        BY <2>3, <3>2, <4>1
      <4> QED BY <1>1, <4>1, <4>2 DEF Ready
    <3> QED BY <1>1, <1>6, <2>1, <3>1, <3>2 DEF Moves
  <2>5. /\ move'[u] # NoMove /\ move'[u].todo # {}
        /\ mine'[u][move'[u].looper] > 0
        /\ owner'[move'[u].old] = u
        /\ \A e \in Loopers : fProxy'[e] \in move'[u].todo => e \in move'[u].todo
        /\ move'[u].alone => fProxy'[move'[u].looper] # None
    BY <1>1, <2>1, <2>2 DEF Moves
  <2>6. ~shut'[move'[u].old] /\ move'[u].old <= made'
    <3>1. move[u].old <= made /\ ~shut[move[u].old]
      BY <2>1 DEF Moves
    <3> QED BY <1>9, <1>11, <2>1, <2>2, <3>1
  <2>7. /\ move'[u].alone => \A e \in Loopers : fLocker'[e] = move'[u].old => e \in move'[u].todo
        /\ move'[u].looper \notin move'[u].todo => fLocker'[move'[u].looper] # move'[u].old
    <3>1. \A e \in Loopers : fLocker'[e] = move[u].old => e # d /\ fLocker[e] = move[u].old
      BY <1>6, <2>2
    <3> QED BY <2>1, <3>1 DEF Moves
  <2> QED BY <2>1, <2>4, <2>5, <2>6, <2>7 DEF Moves
<1>19. ASSUME NEW e \in Using(o), e \notin Leaving(t, d), fLocksCount[e] > 0
       PROVE  depth'[o] # 0 /\ owner'[o] = t
  <2>1. PICK S \in SUBSET Loopers : S = Using(o) \ Leaving(t, d)
    BY DEF Using
  <2>2. e \in S /\ fLocksCount \in [Loopers -> Nat]
    BY <1>19, <2>1, LockFacts
  <2>3. Cardinality(LockSet(fLocksCount, S)) > 0
    BY <1>19, <2>2, LockSetPositive, LoopersFinite
  <2> QED BY <1>7, <2>1, <2>3
<1>20. ASSUME move[t].todo # {d} PROVE Moves(t)'
  <2>1. PICK m \in Loopers : m = move[t].looper
    BY <1>3
  <2>2. /\ move'[t].looper = m /\ move'[t].old = o /\ move'[t].alone = move[t].alone
        /\ move'[t].todo = move[t].todo \ {d} /\ move'[t] \in MoveOf
    BY <1>10, <1>20, <2>1
  <2>3. move'[t] # NoMove
    BY <2>1, <2>2, LockFacts DEF NoMove
  <2>4. owner'[o] = t
    <3>1. m \in Using(o) /\ fLocksCount[m] > 0
      BY <1>4, <1>9, <2>1, MineFacts DEF Using
    <3>2. m \notin Leaving(t, d)
      BY <1>20, <2>1 DEF Leaving
    <3> QED BY <1>19, <3>1, <3>2
  <2>5. /\ move'[t].todo # {} /\ mine'[t][move'[t].looper] > 0
        /\ owner'[move'[t].old] = t /\ ~shut'[move'[t].old] /\ move'[t].old <= made'
    <3>1. move[t].todo \ {d} # {}
      BY <1>1, <1>20
    <3>2. ~shut'[o] /\ o <= made'
      BY <1>9, <1>11, <1>20
    <3> QED BY <1>1, <1>9, <2>1, <2>2, <2>4, <3>1, <3>2
  <2>6. ASSUME NEW q \in Loopers, Ready(t, q) PROVE Ready(t, q)'
    <3>1. Settled(q) /\ q # d /\ owner[fLocker[q]] = t /\ fLocker[q] # o
          /\ fLocker[q] \in Lockers
      BY <1>4, <1>9, <2>6, LockFacts DEF Ready
    <3>2. Settled(q)' /\ fLocker'[q] = fLocker[q] /\ owner'[fLocker[q]] = t
      BY <1>6, <1>7, <1>14, <3>1
    <3> QED BY <2>2, <3>1, <3>2 DEF Ready
  <2>7. Ready(t, d)'
    <3>1. Settled(d)'
      BY <1>14
    <3> QED BY <1>5, <1>6, <1>7, <2>2, <3>1 DEF Ready
  <2>8. ASSUME NEW e \in move'[t].todo
        PROVE  /\ fLocker'[e] = move'[t].old
               /\ \/ e = move'[t].looper /\ fProxy'[e] = None /\ ~move'[t].alone
                  \/ Ready(t, fProxy[e])'
                  \/ e # move'[t].looper /\ fProxy'[e] \in move'[t].todo
    <3>1. e \in move[t].todo /\ e \in Loopers /\ e # d
      BY <1>3, <2>2
    <3>2. fLocker'[e] = o
      BY <1>3, <1>4, <1>6, <3>1 DEF Moves
    <3>3. CASE e = m /\ fProxy[e] = None /\ ~move[t].alone
      BY <1>1, <2>2, <3>2, <3>3
    <3>4. CASE Ready(t, fProxy[e])
      <4>1. PICK q \in Loopers : q = fProxy[e]
        BY <3>4 DEF Ready
      <4>2. Ready(t, q)'
        BY <2>6, <3>4, <4>1
      <4>3. Ready(t, fProxy[e])'
        BY <1>1, <4>1, <4>2 DEF Ready
      <4> QED BY <2>2, <3>2, <4>3
    <3>5. CASE e # m /\ fProxy[e] \in move[t].todo /\ fProxy[e] = d
      <4>1. Ready(t, fProxy[e])'
        BY <1>1, <2>7, <3>5 DEF Ready
      <4> QED BY <2>2, <3>2, <4>1
    <3>6. CASE e # m /\ fProxy[e] \in move[t].todo /\ fProxy[e] # d
      BY <1>1, <2>2, <3>2, <3>6
    <3> QED BY <1>3, <2>1, <3>1, <3>3, <3>4, <3>5, <3>6 DEF Moves
  <2>9. \A e \in Loopers : fProxy'[e] \in move'[t].todo => e \in move'[t].todo
    BY <1>1, <1>3, <1>5, <2>2 DEF Moves
  <2>10. move'[t].alone =>
           /\ fProxy'[move'[t].looper] # None
           /\ \A e \in Loopers : fLocker'[e] = move'[t].old => e \in move'[t].todo
    BY <1>1, <1>3, <1>4, <1>5, <1>6, <2>1, <2>2 DEF Moves
  <2>11. move'[t].looper \notin move'[t].todo => fLocker'[move'[t].looper] # move'[t].old
    BY <1>3, <1>4, <1>5, <1>6, <2>1, <2>2 DEF Moves
  <2> QED BY <2>3, <2>5, <2>8, <2>9, <2>10, <2>11 DEF Moves
<1>21. MovesAreSound'
  <2>1. ASSUME NEW u \in Callers
        PROVE  IF lookupPc'[u] = "moving" THEN Moves(u)' ELSE move'[u] = NoMove
    <3>1. CASE u = t
      BY <1>10, <1>12, <1>20, <3>1
    <3>2. CASE u # t /\ lookupPc[u] = "moving"
      BY <1>12, <1>18, <3>2
    <3>3. CASE u # t /\ lookupPc[u] # "moving"
      BY <1>10, <1>12, <3>3, NotMoving
    <3> QED BY <3>1, <3>2, <3>3
  <2> QED BY <2>1 DEF MovesAreSound
<1>22. ASSUME NEW c \in CallOf, Current(c) PROVE Current(c)'
  <2>0. c.root \in Loopers /\ c.locker \in Lockers
    BY DEF CallOf
  <2>1. CASE shut[c.locker]
    BY <1>11, <2>0, <2>1 DEF Current
  <2>2. CASE fProxy[c.root] = None /\ fLocker[c.root] = c.locker /\ Settled(c.root)
    BY <1>1, <1>6, <1>9, <1>14, <2>0, <2>2 DEF Current
  <2>3. ASSUME NEW u \in Callers, move[u] # NoMove, move[u].looper = c.root,
               move[u].old = c.locker, move[u].alone
        PROVE  Current(c)'
    <3>1. CASE u # t
      <4>1. move'[u] = move[u]
        BY <1>10, <3>1
      <4> QED BY <2>3, <4>1 DEF Current
    <3>2. CASE u = t /\ move[t].todo # {d}
      <4>1. move'[t] # NoMove
        BY <1>3, <1>10, <3>2, LockFacts DEF NoMove
      <4>2. move'[t].looper = c.root /\ move'[t].old = c.locker /\ move'[t].alone
        BY <1>4, <1>10, <2>3, <3>2
      <4> QED BY <4>1, <4>2 DEF Current
    <3>3. CASE u = t /\ move[t].todo = {d}
      <4>1. shut'[c.locker]
        BY <1>4, <1>11, <2>0, <2>3, <3>3
      <4> QED BY <4>1 DEF Current
    <3> QED BY <3>1, <3>2, <3>3
  <2> QED BY <1>22, <2>1, <2>2, <2>3 DEF Current
<1>23. CallsAreCurrent'
  <2>1. ASSUME NEW u \in Callers, lookupPc'[u] \in {"waiting", "got"}
        PROVE  /\ call'[u] # NoCall
               /\ call'[u].locker <= made'
               /\ call'[u].torn \/ Current(call[u])'
    <3>1. u # t /\ lookupPc[u] \in {"waiting", "got"} /\ call'[u] = call[u]
      BY <1>1, <1>12, <2>1
    <3>2. /\ call[u] \in CallOf /\ (call[u].torn \/ Current(call[u]))
          /\ call[u].locker <= made /\ call[u].locker \in Lockers
      BY <3>1, CallFacts
    <3>3. ASSUME Current(call[u]) PROVE Current(call[u])'
      <4>1. PICK c \in CallOf : c = call[u]
        BY <3>2
      <4>2. Current(c)'
        BY <1>22, <3>3, <4>1
      <4> QED BY <3>1, <4>1, <4>2 DEF Current
    <3>4. call[u] # NoCall
      BY <3>1 DEF LockInv, CallsAreCurrent
    <3>5. call[u].locker <= made'
      BY <1>9, <3>2
    <3> QED BY <3>1, <3>2, <3>3, <3>4, <3>5
  <2> QED BY <2>1 DEF CallsAreCurrent
<1>24. ASSUME NEW j \in Lockers
       PROVE  /\ Locks(Using(j))' = LockSet(fLocksCount, Using(j)') /\ GotOn(j)' = GotOn(j)
  <2>1. Locks(Using(j))' = LockSet(fLocksCount, Using(j)')
    BY <1>1 DEF Locks, LockSet
  <2>2. \A u \in Callers : lookupPc'[u] = "got" <=> lookupPc[u] = "got"
    BY <1>1, <1>12
  <2> QED BY <1>1, <2>1, <2>2 DEF GotOn
<1>25. ASSUME NEW j \in Lockers
       PROVE  /\ ~shut'[j] => depth'[j] = Cardinality(Locks(Using(j))') + Cardinality(GotOn(j)')
              /\ owner'[j] = None <=> depth'[j] = 0
  <2>1. CASE j = k
    <3>1. Cardinality(GotOn(k)) = 0 /\ fLocksCount \in [Loopers -> Nat]
      BY <1>5, FS_EmptySet, LockFacts
    <3>2. /\ depth[k] = Cardinality(LockSet(fLocksCount, Using(k))) + 0
          /\ Cardinality(LockSet(fLocksCount, Using(k))) \in Nat /\ depth[k] \in Nat
          /\ owner[k] = None <=> depth[k] = 0
      BY <1>5, <3>1, DepthIs
    <3>3. PICK S \in SUBSET Loopers : S = Using(k)
      BY DEF Using
    <3>4. Cardinality(LockSet(fLocksCount, S \cup {d})) =
            Cardinality(LockSet(fLocksCount, S)) + Cardinality(LockSet(fLocksCount, {d}))
      BY <1>8, <3>1, <3>3, LockSetUnion, LoopersFinite
    <3>5. Cardinality(LockSet(fLocksCount, {d})) = fLocksCount[d] /\ fLocksCount[d] \in Nat
      BY <3>1, LockSetOne
    <3>6. Cardinality(Locks(Using(k))') =
            Cardinality(LockSet(fLocksCount, Using(k))) + fLocksCount[d]
      BY <1>8, <1>24, <3>3, <3>4, <3>5
    <3>7. fLocksCount[d] > 0 \/ owner[k] = t
      BY <1>2, <1>4, NewLockerFacts
    <3>8. depth'[k] # 0
      <4>1. depth[k] > 0 \/ fLocksCount[d] > 0
        BY <1>9, <3>2, <3>7
      <4> QED BY <1>7, <3>2, <3>5, <4>1
    <3>9. Cardinality(GotOn(k)') = 0
      BY <1>24, <3>1
    <3>10. depth'[k] = Cardinality(Locks(Using(k))') + 0
      BY <1>7, <3>2, <3>5, <3>6
    <3> QED BY <1>7, <1>9, <2>1, <3>8, <3>9, <3>10
  <2>2. CASE j = o
    <3>1. owner'[o] = None <=> depth'[o] = 0
      BY <1>7, <1>9
    <3>2. ASSUME ~shut'[o]
          PROVE  depth'[o] = Cardinality(Locks(Using(o))') + Cardinality(GotOn(o)')
      <4>1. Using(o)' = Using(o) \ Leaving(t, d)
        BY <1>8, <1>11, <3>2
      <4>2. depth'[o] = Cardinality(Locks(Using(o))')
        BY <1>7, <1>24, <4>1
      <4>3. Cardinality(GotOn(o)') = 0
        BY <1>1, <1>9, <1>24, NobodyGot
      <4>4. depth'[o] \in Nat
        BY <1>6
      <4> QED BY <4>2, <4>3, <4>4
    <3> QED BY <2>2, <3>1, <3>2
  <2>3. CASE j # k /\ j # o
    <3>1. Using(j)' = Using(j) /\ depth'[j] = depth[j] /\ owner'[j] = owner[j]
      BY <1>7, <1>8, <2>3
    <3>2. shut'[j] <=> shut[j]
      BY <1>11, <2>3
    <3> QED BY <1>24, <3>1, <3>2, DepthIs
  <2> QED BY <2>1, <2>2, <2>3
<1>26. ASSUME NEW u \in Callers, lookupPc'[u] = "got"
       PROVE  owner'[call'[u].locker] = u /\ ~shut'[call'[u].locker]
  <2>1. u # t /\ lookupPc[u] = "got" /\ call'[u] = call[u]
    BY <1>1, <1>12, <1>26
  <2>2. call[u].locker \in Lockers /\ owner[call[u].locker] = u /\ ~shut[call[u].locker]
    BY <2>1, GotFacts
  <2>3. call[u].locker # o /\ owner'[call[u].locker] = u
    BY <1>17, <2>1, <2>2
  <2> QED BY <1>11, <2>1, <2>2, <2>3
<1>27. ASSUME NEW u \in Callers, NEW e \in Loopers, mine'[u][e] > 0
       PROVE  mine'[u][e] = fLocksCount'[e] /\ owner'[fLocker'[e]] = u
  <2>1. /\ mine[u][e] = fLocksCount[e] /\ owner[fLocker[e]] = u /\ u # None
        /\ fLocksCount[e] > 0 /\ fLocker[e] \in Lockers
    BY <1>1, <1>27, MineFacts, LockFacts
  <2>2. CASE e = d
    BY <1>1, <1>6, <1>7, <1>9, <2>1, <2>2
  <2>3. CASE e # d /\ fLocker[e] = o
    <3>1. e \in Using(o) /\ u = t
      BY <1>9, <2>1, <2>3 DEF Using
    <3>2. e \notin Leaving(t, d)
      BY <1>3, <1>4, <2>3 DEF Leaving, Moves
    <3> QED BY <1>1, <1>6, <1>19, <2>1, <2>3, <3>1, <3>2
  <2>4. CASE e # d /\ fLocker[e] # o
    BY <1>1, <1>5, <1>6, <1>7, <2>1, <2>4
  <2> QED BY <2>2, <2>3, <2>4
<1>28. \A e \in Loopers : fLocksCount'[e] > 0 => \E u \in Callers : mine'[u][e] > 0
  BY <1>1 DEF LockInv, LocksCounted
<1>29. LocksCounted'
  BY <1>25, <1>26, <1>27, <1>28 DEF LocksCounted
<1> QED BY <1>13, <1>15, <1>16, <1>21, <1>23, <1>29 DEF LockInv

-----------------------------------------------------------------------------
(* LooperLock's invariants *)

LEMMA LockInit ==
    ASSUME LooperLockInit
    PROVE  LockInv
<1>1. /\ Cardinality(Loopers) \in Nat /\ Cardinality(Loopers) <= MaxLockers
      /\ MaxLockers \in Nat /\ None \notin Loopers
  BY FS_CardinalityType, LooperLockAssumption
<1>2. PICK n \in Nat : n = Cardinality(Loopers)
  BY <1>1
<1>3. /\ fProxy = [l \in Loopers |-> None] /\ fLocker \in [Loopers -> 1..n]
      /\ \A l, m \in Loopers : fLocker[l] = fLocker[m] => l = m
      /\ fLocksCount = [l \in Loopers |-> 0] /\ made = n
      /\ owner = [k \in Lockers |-> None] /\ depth = [k \in Lockers |-> 0]
      /\ shut = [k \in Lockers |-> FALSE]
      /\ lookupPc = [t \in Callers |-> "idle"] /\ call = [t \in Callers |-> NoCall]
      /\ move = [t \in Callers |-> NoMove]
      /\ mine = [t \in Callers |-> [l \in Loopers |-> 0]] /\ breached = FALSE
  BY <1>2 DEF LooperLockInit
<1>4. n <= MaxLockers
  BY <1>1, <1>2
<1>5. \A l \in Loopers : fLocker[l] \in Lockers /\ fLocker[l] <= n
  <2>1. ASSUME NEW l \in Loopers PROVE fLocker[l] \in Lockers /\ fLocker[l] <= n
    <3>1. PICK j \in 1..n : j = fLocker[l]
      BY <1>3
    <3>2. j \in Lockers /\ j <= n
      BY <1>1, <1>4 DEF Lockers
    <3> QED BY <3>1, <3>2
  <2> QED BY <2>1
<1>6. LooperLockTypeOK
  <2>1. fLocker \in [Loopers -> Lockers]
    BY <1>3, <1>5
  <2>2. made \in 0..MaxLockers
    BY <1>1, <1>3, <1>4
  <2>3. shut \in [Lockers -> BOOLEAN]
    BY <1>3
  <2>4. call \in [Callers -> CallOf \cup {NoCall}] /\ move \in [Callers -> MoveOf \cup {NoMove}]
    BY <1>3
  <2>5. /\ fProxy \in [Loopers -> Loopers \cup {None}] /\ fLocksCount \in [Loopers -> Nat]
        /\ owner \in [Lockers -> Callers \cup {None}] /\ depth \in [Lockers -> Nat]
        /\ lookupPc \in [Callers -> Places] /\ mine \in [Callers -> [Loopers -> Nat]]
        /\ breached \in BOOLEAN
    BY <1>3 DEF Places
  <2> QED BY <2>1, <2>2, <2>3, <2>4, <2>5 DEF LooperLockTypeOK, CallOf, MoveOf, Places
<1>7. fProxy \in Proxying /\ \A l \in Loopers : fProxy[l] = None
  BY <1>3 DEF Proxying
<1>8. ASSUME NEW l \in Loopers PROVE l \in AndAbove(fProxy, l) /\ Proxy(l) = l
  <2>1. l \in AndAbove(fProxy, l)
    BY <1>1, <1>7, AboveClosed
  <2> QED BY <1>1, <1>7, <2>1, RootIs DEF Proxy
<1>9. Rooted(fProxy)
  BY <1>7, <1>8 DEF Rooted
<1>10. SettledShareLockers
  <2>1. \A l, m \in Loopers : fLocker[l] = fLocker[m] <=> Proxy(l) = Proxy(m)
    BY <1>3, <1>8
  <2>2. \A k \in Lockers : ~shut[k]
    BY <1>3
  <2> QED BY <1>3, <1>5, <2>1, <2>2 DEF SettledShareLockers
<1>11. CallsAreCurrent /\ MovesAreSound
  BY <1>3 DEF CallsAreCurrent, MovesAreSound
<1>12. ASSUME NEW k \in Lockers
       PROVE  /\ depth[k] = Cardinality(Locks(Using(k))) + Cardinality(GotOn(k))
              /\ owner[k] = None <=> depth[k] = 0
  <2>1. ASSUME NEW l \in Loopers PROVE 1..fLocksCount[l] = {}
    <3>1. fLocksCount[l] = 0
      BY <1>3
    <3>2. 1..0 = {}
      OBVIOUS
    <3> QED BY <3>1, <3>2
  <2>2. Using(k) \subseteq Loopers
    BY DEF Using
  <2>3. Locks(Using(k)) = {}
    BY <2>1, <2>2 DEF Locks
  <2>4. GotOn(k) = {}
    BY <1>3 DEF GotOn
  <2>5. Cardinality(Locks(Using(k))) = 0 /\ Cardinality(GotOn(k)) = 0
    BY <2>3, <2>4, FS_EmptySet
  <2> QED BY <1>3, <2>5
<1>13. LocksCounted
  BY <1>3, <1>12 DEF LocksCounted
<1> QED BY <1>6, <1>9, <1>10, <1>11, <1>13 DEF LockInv

\* A step keeps the invariant unless it takes a torn lookup for a current one.
LEMMA LockNext ==
    ASSUME LockInv, [LooperLockNext]_looperLockVars
    PROVE  breached' \/ LockInv'
<1>1. ASSUME NEW t \in Callers, Acquire(t) \/ Fail(t) PROVE LockInv'
  BY <1>1, AcquireStep, FailStep
<1>2. ASSUME NEW t \in Callers, Finish(t) PROVE breached' \/ LockInv'
  <2>1. CASE SameRoot(t) /\ call[t].torn
    BY <1>2, <2>1 DEF Finish
  <2>2. CASE SameRoot(t) /\ ~call[t].torn
    BY <1>2, <2>2, FinishFound
  <2>3. CASE ~SameRoot(t)
    BY <1>2, <2>3, FinishInVain
  <2> QED BY <2>1, <2>2, <2>3
<1>3. ASSUME NEW t \in Callers, NEW l \in Loopers, Lock(t, l) \/ Unlock(t, l) \/ Exchange(t, l)
      PROVE  LockInv'
  BY <1>3, LockStep, UnlockStep, ExchangeStep
<1>4. ASSUME NEW t \in Callers, NEW l \in Loopers, ProxyLockersByNone(t, l) PROVE LockInv'
  <2>1. lookupPc[t] = "idle" /\ mine[t][l] > 0 /\ Proxy(l) # l /\ BeginMove(t, l, None)
    BY <1>4 DEF ProxyLockersByNone
  <2>2. fProxy[l] # None
    BY <2>1, LockFacts, RootFacts DEF Proxy
  <2> QED BY <2>1, <2>2, BeginStep
<1>5. ASSUME NEW t \in Callers, NEW l \in Loopers, NEW p \in Loopers, ProxyLockersBy(t, l, p)
      PROVE  LockInv'
  <2>1. /\ lookupPc[t] = "idle" /\ mine[t][l] > 0 /\ mine[t][p] > 0 /\ Proxy(l) # Proxy(p)
        /\ BeginMove(t, l, p) /\ p # None
    BY <1>5, LockFacts DEF ProxyLockersBy
  <2> QED BY <2>1, BeginStep
<1>6. CASE UNCHANGED looperLockVars
  <2>1. /\ fProxy' = fProxy /\ fLocker' = fLocker /\ fLocksCount' = fLocksCount
        /\ made' = made /\ owner' = owner /\ depth' = depth /\ shut' = shut
        /\ lookupPc' = lookupPc /\ call' = call /\ move' = move /\ mine' = mine
        /\ breached' = breached
    BY <1>6 DEF looperLockVars, lockers
  <2>2. LooperLockTypeOK'
    BY <2>1 DEF LockInv, LooperLockTypeOK
  <2>3. CallsAreCurrent' /\ MovesAreSound'
    BY <2>1, CallsKept, MovesKept
  <2>4. \A k : Using(k)' = Using(k)
    BY <2>1, TreeKept
  <2>5. LocksCounted'
    BY <2>1, <2>4, CountsKept
  <2> QED BY <2>1, <2>2, <2>3, <2>5, TreeKept DEF LockInv
<1> QED BY <1>1, <1>2, <1>3, <1>4, <1>5, <1>6 DEF LooperLockNext

\* Once a torn lookup has passed, nothing is claimed any more.
LEMMA BreachStays ==
    ASSUME breached, [LooperLockNext]_looperLockVars
    PROVE  breached'
<1>1. ASSUME NEW t \in Callers, Finish(t) PROVE breached'
  BY <1>1 DEF Finish
<1> QED BY <1>1 DEF LooperLockNext, looperLockVars, Acquire, Fail, Lock, Unlock,
              ProxyLockersByNone, ProxyLockersBy, BeginMove, Exchange

LEMMA LockGuards ==
    ASSUME LockInv
    PROVE  LocksFollowLoopers
<1>1. \A l \in Loopers, t, u \in Callers : (mine[t][l] > 0 /\ mine[u][l] > 0) => t = u
  BY MineFacts
<1>2. \A k \in Lockers : ~shut[k] =>
        depth[k] = Cardinality(Locks(Using(k)))
                     + Cardinality({t \in Callers : lookupPc[t] = "got" /\ call[t].locker = k})
  BY DEF LockInv, LocksCounted, GotOn
<1>3. \A t \in Callers, l \in Loopers : mine[t][l] > 0 => owner[fLocker[l]] = t
  BY MineFacts
<1> QED BY <1>1, <1>2, <1>3 DEF LockInv, LocksFollowLoopers

LEMMA LockReleases ==
    ASSUME LockInv
    PROVE  NobodyWaitsForAbandoned
<1>1. ASSUME NEW k \in Lockers, Using(k) = {}, ~shut[k], owner[k] # None
      PROVE  lookupPc[owner[k]] = "got" /\ call[owner[k]].locker = k
  <2>1. Cardinality(LockSet(fLocksCount, Using(k))) = 0
    BY <1>1, LockSetEmpty
  <2>2. depth[k] # 0 /\ depth[k] = 0 + Cardinality(GotOn(k))
    BY <1>1, <2>1, DepthIs
  <2>3. GotOn(k) # {}
    BY <2>2, FS_EmptySet
  <2>4. PICK u : u \in GotOn(k)
    BY <2>3
  <2>5. u \in Callers /\ lookupPc[u] = "got" /\ call[u].locker = k
    BY <2>4 DEF GotOn
  <2>6. owner[k] = u
    BY <2>5, GotFacts
  <2> QED BY <2>5, <2>6
<1> QED BY <1>1 DEF NobodyWaitsForAbandoned

\* Until a torn lookup passes for a current one, two threads never both have a
\* looper's lock, although ProxyBy exchanges its locker between lookup and lock
\* and gives up the handlers' lock on the way; a locker's depth is what its
\* loopers count plus the lookups under way.
THEOREM LooperLocksFollow ==
    LooperLockSpec => []LocksFollowLoopers
<1>1. LooperLockInit => breached \/ LockInv
  BY LockInit
<1>2. (breached \/ LockInv) /\ [LooperLockNext]_looperLockVars => (breached \/ LockInv)'
  BY LockNext, BreachStays
<1>3. breached \/ LockInv => LocksFollowLoopers
  BY LockGuards DEF LocksFollowLoopers
<1> QED BY <1>1, <1>2, <1>3, PTL DEF LooperLockSpec

\* A locker that ProxyBy took away from all its loopers keeps no thread from
\* looking again: it is closed, free, or held by a thread about to give it back.
THEOREM LooperNobodyAbandoned ==
    LooperLockSpec => []NobodyWaitsForAbandoned
<1>1. LooperLockInit => breached \/ LockInv
  BY LockInit
<1>2. (breached \/ LockInv) /\ [LooperLockNext]_looperLockVars => (breached \/ LockInv)'
  BY LockNext, BreachStays
<1>3. breached \/ LockInv => NobodyWaitsForAbandoned
  BY LockReleases DEF NobodyWaitsForAbandoned
<1> QED BY <1>1, <1>2, <1>3, PTL DEF LooperLockSpec

-----------------------------------------------------------------------------
(* Looper: message loops of any number of loopers                            *)

-----------------------------------------------------------------------------
(* Trees that are cut or left alone *)

\* Some loopers leave their proxies.
LEMMA CutTree ==
    ASSUME NEW f \in Proxying, Rooted(f), NEW g \in Proxying,
           \A d \in Loopers : g[d] = None \/ g[d] = f[d], None \notin Loopers
    PROVE  /\ Rooted(g)
           /\ \A d \in Loopers :
                /\ AndAbove(g, d) \subseteq AndAbove(f, d)
                /\ AndUnder(g, d) \subseteq AndUnder(f, d)
                /\ Root(g, d) \in AndAbove(f, d)
                /\ Root(f, Root(g, d)) = Root(f, d)
<1>1. ASSUME NEW d \in Loopers PROVE AndAbove(g, d) \subseteq AndAbove(f, d)
  <2>1. /\ d \in AndAbove(f, d) /\ AndAbove(f, d) \in SUBSET Loopers
        /\ Upwards(f, AndAbove(f, d))
    BY AboveClosed
  <2>2. Upwards(g, AndAbove(f, d))
    BY <2>1 DEF Upwards
  <2> QED BY <2>1, <2>2, AboveIn
<1> DEFINE Bad == {d \in Loopers : \A r \in AndAbove(g, d) : g[r] # None}
<1>2. ASSUME NEW d \in Bad PROVE f[d] # None /\ f[d] \in Bad
  <2>1. d \in Loopers /\ d \in AndAbove(g, d)
    BY AboveClosed
  <2>2. g[d] # None /\ g[d] = f[d] /\ f[d] \in Loopers
    BY <2>1 DEF Proxying
  <2>3. AndAbove(g, d) = {d} \cup AndAbove(g, g[d])
    BY <2>1, <2>2, AboveStep
  <2> QED BY <2>2, <2>3
<1>3. ASSUME NEW d \in Bad PROVE FALSE
  <2>1. Upwards(f, Bad)
    BY <1>2 DEF Upwards
  <2>2. AndAbove(f, d) \subseteq Bad
    BY <2>1, AboveIn
  <2>3. PICK r \in AndAbove(f, d) : f[r] = None
    BY DEF Rooted
  <2> QED BY <1>2, <2>2, <2>3
<1>4. Rooted(g)
  BY <1>3 DEF Rooted
<1>5. ASSUME NEW d \in Loopers
      PROVE  /\ Root(g, d) \in AndAbove(f, d)
             /\ Root(f, Root(g, d)) = Root(f, d)
  BY <1>1, <1>4, RootFacts
<1>6. ASSUME NEW d \in Loopers PROVE AndUnder(g, d) \subseteq AndUnder(f, d)
  BY <1>1 DEF AndUnder
<1> QED BY <1>1, <1>4, <1>5, <1>6

\* No looper of the tree of r moves.
LEMMA TreeLeftAlone ==
    ASSUME NEW f \in Proxying, Rooted(f), NEW g \in Proxying, NEW r \in Loopers,
           \A d \in Loopers : Root(f, d) = r => g[d] = f[d], None \notin Loopers,
           NEW d \in Loopers, Root(f, d) = r
    PROVE  AndAbove(g, d) = AndAbove(f, d) /\ Root(g, d) = r
<1>1. /\ d \in AndAbove(f, d) /\ AndAbove(f, d) \in SUBSET Loopers
      /\ Upwards(f, AndAbove(f, d))
  BY AboveClosed
<1>2. \A a \in AndAbove(f, d) : g[a] = f[a]
  BY <1>1, RootFacts
<1>3. AndAbove(g, d) \subseteq AndAbove(f, d)
  <2>1. Upwards(g, AndAbove(f, d))
    BY <1>1, <1>2 DEF Upwards
  <2> QED BY <1>1, <2>1, AboveIn
<1>4. AndAbove(f, d) \subseteq AndAbove(g, d)
  <2>1. d \in AndAbove(g, d) /\ Upwards(g, AndAbove(g, d))
    BY AboveClosed
  <2>2. Upwards(f, AndAbove(g, d))
    BY <1>2, <1>3, <2>1 DEF Upwards
  <2> QED BY <1>1, <1>3, <2>1, <2>2, AboveIn
<1>5. r \in AndAbove(g, d) /\ g[r] = None
  BY <1>2, <1>3, <1>4, RootFacts
<1> QED BY <1>3, <1>4, <1>5, RootIs

-----------------------------------------------------------------------------
(* Counting messages *)

Lens(q) == [d \in Loopers |-> Len(q[d])]
Num(q, S) == Cardinality(LockSet(Lens(q), S))

Queues == [Loopers -> Seq(Whats)]

LEMMA LensType ==
    ASSUME NEW q \in Queues
    PROVE  Lens(q) \in [Loopers -> Nat] /\ \A d \in Loopers : Lens(q)[d] = Len(q[d])
<1>1. \A d \in Loopers : Len(q[d]) \in Nat
  BY LenProperties DEF Queues
<1> QED BY <1>1 DEF Lens

LEMMA NumType ==
    ASSUME NEW q \in Queues, NEW S \in SUBSET Loopers, IsFiniteSet(Loopers)
    PROVE  Num(q, S) \in Nat
  BY LensType, LockSetFinite DEF Num

\* Queues of S that are as long as before.
LEMMA NumSame ==
    ASSUME NEW q \in Queues, NEW e \in Queues, NEW S \in SUBSET Loopers,
           \A d \in S : Len(e[d]) = Len(q[d])
    PROVE  Num(e, S) = Num(q, S)
<1>1. \A d \in S : Lens(e)[d] = Lens(q)[d]
  BY LensType
<1>2. LockSet(Lens(e), S) = LockSet(Lens(q), S)
  BY <1>1 DEF LockSet
<1> QED BY <1>2 DEF Num

LEMMA NumUnion ==
    ASSUME NEW q \in Queues, NEW S \in SUBSET Loopers, NEW U \in SUBSET Loopers,
           S \cap U = {}, IsFiniteSet(Loopers)
    PROVE  Num(q, S \cup U) = Num(q, S) + Num(q, U)
  BY LensType, LockSetUnion DEF Num

\* Fewer loopers have fewer messages.
LEMMA NumLess ==
    ASSUME NEW q \in Queues, NEW S \in SUBSET Loopers, NEW U \in SUBSET S,
           IsFiniteSet(Loopers)
    PROVE  Num(q, U) <= Num(q, S) /\ Num(q, U) \in Nat /\ Num(q, S) \in Nat
<1>1. S = U \cup (S \ U) /\ U \cap (S \ U) = {} /\ U \in SUBSET Loopers
      /\ S \ U \in SUBSET Loopers
  OBVIOUS
<1>2. Num(q, U \cup (S \ U)) = Num(q, U) + Num(q, S \ U)
  BY <1>1, NumUnion
<1>3. Num(q, U) \in Nat /\ Num(q, S \ U) \in Nat /\ Num(q, S) \in Nat
  BY <1>1, NumType
<1>4. Num(q, S) = Num(q, U) + Num(q, S \ U)
  BY <1>1, <1>2
<1> QED BY <1>3, <1>4

\* Empty queues.
LEMMA NumZero ==
    ASSUME NEW q \in Queues, NEW S \in SUBSET Loopers, \A d \in S : q[d] = <<>>
    PROVE  Num(q, S) = 0
<1>1. \A d \in S : Lens(q)[d] = 0
  BY LensType
<1>2. 1..0 = {}
  OBVIOUS
<1>3. \A x : x \notin LockSet(Lens(q), S)
  BY <1>1, <1>2, InLockSet
<1>4. LockSet(Lens(q), S) = {}
  BY <1>3
<1> QED BY <1>4, FS_EmptySet DEF Num

LEMMA NumPositive ==
    ASSUME NEW q \in Queues, NEW S \in SUBSET Loopers, NEW d \in S, q[d] # <<>>,
           IsFiniteSet(Loopers)
    PROVE  Num(q, S) > 0
<1>1. Lens(q)[d] \in Nat /\ Lens(q)[d] = Len(q[d])
  BY LensType
<1>2. Lens(q)[d] > 0
  <2>1. q[d] \in Seq(Whats)
    BY DEF Queues
  <2>2. Len(q[d]) # 0
    BY <2>1, EmptySeq, LenProperties
  <2> QED BY <1>1, <2>2
<1> QED BY <1>2, LensType, LockSetPositive DEF Num

\* One message more in the queue of l.
LEMMA NumMore ==
    ASSUME NEW q \in Queues, NEW e \in Queues, NEW l \in Loopers,
           Len(e[l]) = Len(q[l]) + 1, \A d \in Loopers : d # l => e[d] = q[d],
           NEW S \in SUBSET Loopers, IsFiniteSet(Loopers)
    PROVE  Num(e, S) = IF l \in S THEN Num(q, S) + 1 ELSE Num(q, S)
<1>1. /\ Lens(e) \in [Loopers -> Nat] /\ Lens(q) \in [Loopers -> Nat]
      /\ Lens(e)[l] = Lens(q)[l] + 1
      /\ \A d \in Loopers : d # l => Lens(e)[d] = Lens(q)[d]
  BY LensType
<1> QED BY <1>1, LockSetMore DEF Num


-----------------------------------------------------------------------------
(* The invariant of Looper *)

Top(d) == Root(fProxy, d)
Below(l) == AndUnder(fProxy, l)
Among(s, x) == \E i \in 1..Len(s) : s[i] = x
Distinct(s) == \A i, j \in 1..Len(s) : s[i] = s[j] => i = j

\* fClients is the inverse of fProxy; a looper with a proxy has no thread.
ClientsAgree ==
    /\ \A l \in Loopers : Distinct(fClients[l])
    /\ \A l, d \in Loopers : Among(fClients[l], d) <=> fProxy[d] = l
    /\ \A l \in Loopers : fProxy[l] # None => alive[l] /\ alive[fProxy[l]] /\ ~fThread[l]

\* Deleted loopers have no messages, and a round is one of a thread.
ThreadsAgree ==
    /\ \A l \in Loopers : ~alive[l] => queue[l] = <<>> /\ ~fThread[l]
    /\ \A r \in Loopers :
         /\ taskPc[r] \in {"lock", "scan", "dispatch", "wait"} => fThread[r]
         /\ taskPc[r] = "exited" => ~alive[r]
         /\ taskPc[r] \in {"none", "lock", "wait"} => cur[r] = r
         /\ taskPc[r] \in {"scan", "dispatch"} => alive[cur[r]]
         /\ taskPc[r] = "scan" => Top(cur[r]) = r

\* The thread of r holds the locker of the root x; no two threads hold one locker.
Holds(r, x) == \/ taskPc[r] \in {"scan", "dispatch"} /\ x = r
               \/ taskPc[r] = "dispatch" /\ x = Top(cur[r])

LocksApart == \A q, r, x \in Loopers : Holds(q, x) /\ Holds(r, x) => q = r

\* The loopers of its tree that a round at l has yet to come to.
Behind(a) == {s \in Loopers : \E i, j \in 1..Len(fClients[fProxy[a]]) :
                 i < j /\ fClients[fProxy[a]][i] = a /\ fClients[fProxy[a]][j] = s}
Ahead(l) ==
    {x \in Loopers : \/ x \in Below(l) /\ x # l
                     \/ \E a \in AndAbove(fProxy, l) :
                            fProxy[a] # None /\ \E s \in Behind(a) : x \in Below(s)}
Passed(r) == Below(r) \ ({cur[r]} \cup Ahead(cur[r]))

\* A looper without a thread has not been run in the middle of ProxyBy(NULL).
EarsAgree == \A l \in Loopers : alive[l] /\ ~fThread[l] => hears[l] = l

\* There is a token for each message of a tree, but for the token that the thread
\* took when it woke up: that one is owed until the thread takes a message, or has
\* passed over every looper without finding one.
TokensSuffice ==
    \A r \in Loopers : fProxy[r] = None /\ OwnEars(r) =>
        /\ taskPc[r] \notin {"lock", "scan"} => Num(queue, Below(r)) <= sem[r]
        /\ taskPc[r] \in {"lock", "scan"} => Num(queue, Below(r)) <= sem[r] + 1
        /\ taskPc[r] = "scan" => \/ Num(queue, Below(r)) <= sem[r]
                                 \/ Num(queue, Passed(r)) <= sem[r]

LoopInv == /\ LooperTypeOK /\ Rooted(fProxy) /\ ClientsAgree /\ ThreadsAgree /\ LocksApart
           /\ EarsAgree /\ TokensSuffice

\* Looper's operators in these terms.
LEMMA LoopTree ==
    ASSUME NEW d
    PROVE  Proxy(d) = Top(d) /\ Under(d) = Below(d)
  BY DEF Proxy, Under, Top, Below

LEMMA LoopHolds ==
    ASSUME NEW r, NEW x
    PROVE  x \in HeldBy(r) <=> Holds(r, x)
<1>1. CASE taskPc[r] = "scan"
  BY <1>1 DEF HeldBy, Holds
<1>2. CASE taskPc[r] = "dispatch"
  BY <1>2, LoopTree DEF HeldBy, Holds
<1>3. CASE taskPc[r] # "scan" /\ taskPc[r] # "dispatch"
  BY <1>3 DEF HeldBy, Holds
<1> QED BY <1>1, <1>2, <1>3

LEMMA LoopCount ==
    ASSUME queue \in Queues, NEW l
    PROVE  CountMessages(l) = Num(queue, Below(l))
<1>1. \A d \in Below(l) : Lens(queue)[d] = Len(queue[d])
  BY LensType DEF Below, AndUnder
<1>2. LockSet(Lens(queue), Below(l)) = Messages(Below(l))
  BY <1>1 DEF LockSet, Messages
<1> QED BY <1>2, LoopTree DEF CountMessages, Num

LEMMA LoopFacts ==
    ASSUME LoopInv
    PROVE  /\ None \notin Loopers /\ IsFiniteSet(Loopers)
           /\ fProxy \in Proxying /\ Rooted(fProxy) /\ queue \in Queues
           /\ \A r \in Loopers : Top(r) \in Loopers /\ cur[r] \in Loopers /\ sem[r] \in Nat
           /\ \A r : Below(r) \in SUBSET Loopers /\ Passed(r) \in SUBSET Below(r)
           /\ \A r : Num(queue, Below(r)) \in Nat /\ Num(queue, Passed(r)) \in Nat
<1>1. /\ None \notin Loopers /\ IsFiniteSet(Loopers)
      /\ fProxy \in Proxying /\ Rooted(fProxy) /\ queue \in Queues
      /\ \A r \in Loopers : cur[r] \in Loopers /\ sem[r] \in Nat
  BY LooperAssumption DEF LoopInv, LooperTypeOK, Proxying, Queues
<1>2. \A r \in Loopers : Top(r) \in Loopers
  BY <1>1, RootFacts DEF Top
<1>3. \A r : Below(r) \in SUBSET Loopers /\ Passed(r) \in SUBSET Below(r)
             /\ Passed(r) \in SUBSET Loopers
  BY DEF Below, AndUnder, Passed
<1>4. \A r : Num(queue, Below(r)) \in Nat /\ Num(queue, Passed(r)) \in Nat
  BY <1>1, <1>3, NumType
<1> QED BY <1>1, <1>2, <1>3, <1>4

\* A root's tree.
LEMMA BelowRoot ==
    ASSUME LoopInv, NEW r \in Loopers, fProxy[r] = None,
           NEW d \in Loopers
    PROVE  d \in Below(r) <=> Top(d) = r
  BY LoopFacts, UnderRoot DEF Below, Top

\* A looper with a thread is a root.
LEMMA ThreadIsRoot ==
    ASSUME LoopInv, NEW r \in Loopers, fThread[r]
    PROVE  fProxy[r] = None /\ Top(r) = r /\ alive[r]
<1>1. fProxy[r] = None /\ alive[r]
  BY DEF LoopInv, ClientsAgree, ThreadsAgree
<1> QED BY <1>1, LoopFacts, RootFacts DEF Top

\* The invariants that the runs check.
LEMMA RoundInTree ==
    ASSUME LoopInv
    PROVE  RoundStaysInTree
<1>1. ASSUME NEW l \in Loopers PROVE fProxy[Proxy(l)] = None
  BY LoopFacts, LoopTree, RootFacts DEF Top
<1>2. ASSUME NEW l \in Loopers PROVE IsInjective(fClients[l])
  <2>1. fClients[l] \in Seq(Loopers)
    BY DEF LoopInv, LooperTypeOK
  <2>2. DOMAIN fClients[l] = 1..Len(fClients[l])
    BY <2>1
  <2> QED BY <2>2 DEF LoopInv, ClientsAgree, Distinct, IsInjective
<1>3. ASSUME NEW l \in Loopers, NEW d \in Loopers
      PROVE  (d \in Clients(l)) = (fProxy[d] = l)
  <2>1. fClients[l] \in Seq(Loopers)
    BY DEF LoopInv, LooperTypeOK
  <2>2. d \in Clients(l) <=> Among(fClients[l], d)
    BY <2>1 DEF Clients, ToSet, Among
  <2> QED BY <2>2 DEF LoopInv, ClientsAgree
<1>4. ProxiesFormTrees
  BY <1>1, <1>2, <1>3 DEF ProxiesFormTrees, LoopInv, ClientsAgree
<1>5. \A r \in Loopers : /\ taskPc[r] \in {"scan", "dispatch"} => alive[cur[r]]
                         /\ taskPc[r] = "scan" => Proxy(cur[r]) = r
  BY LoopTree DEF LoopInv, ThreadsAgree
<1> QED BY <1>4, <1>5 DEF LoopInv, RoundStaysInTree

LEMMA WakeupKept ==
    ASSUME LoopInv
    PROVE  LoopWakeupNotLost
<1>1. ASSUME NEW r \in Loopers, taskPc[r] = "wait", OwnEars(r),
             NEW l \in Ring(r), queue[l] # <<>>
      PROVE  sem[r] > 0
  <2>1. fProxy[r] = None /\ Top(r) = r
    BY <1>1, ThreadIsRoot DEF LoopInv, ThreadsAgree
  <2>2. l \in Loopers /\ Top(l) = r
    BY <2>1, LoopTree DEF Ring
  <2>3. l \in Below(r)
    BY <2>1, <2>2, BelowRoot
  <2>4. Num(queue, Below(r)) > 0
    BY <1>1, <2>3, LoopFacts, NumPositive
  <2>5. Num(queue, Below(r)) <= sem[r]
    BY <1>1, <2>1 DEF LoopInv, TokensSuffice
  <2> QED BY <2>4, <2>5, LoopFacts
<1> QED BY <1>1 DEF LoopWakeupNotLost


-----------------------------------------------------------------------------
(* _GetNextClient *)

LEMMA SiblingFacts ==
    ASSUME LoopInv, NEW a \in Loopers, fProxy[a] # None,
           NEW m, m = NextSibling(a)
    PROVE  /\ m = None => Behind(a) = {}
           /\ m # None => /\ m \in Loopers /\ fProxy[m] = fProxy[a]
                          /\ Behind(a) \subseteq {m} \cup Behind(m)
<1>1. PICK p \in Loopers : p = fProxy[a]
  BY LoopFacts DEF Proxying
<1>2. PICK s \in Seq(Loopers) : s = fClients[p]
  BY DEF LoopInv, LooperTypeOK
<1>3. PICK n \in Nat : n = Len(s)
  BY LenProperties
<1>4. Distinct(s) /\ Among(s, a)
  BY <1>1, <1>2 DEF LoopInv, ClientsAgree
<1>5. PICK k \in 1..n : k = IndexOf(s, a) /\ s[k] = a
  BY <1>3, <1>4 DEF Among, IndexOf
<1>6. m = IF k < n THEN s[k + 1] ELSE None
  BY <1>1, <1>2, <1>3, <1>5 DEF NextSibling
<1>7. ASSUME NEW x \in Behind(a)
      PROVE  \E j \in 1..n : k < j /\ s[j] = x
  <2>1. PICK i \in 1..n, j \in 1..n : i < j /\ s[i] = a /\ s[j] = x
    BY <1>1, <1>2, <1>3 DEF Behind
  <2>2. i = k
    BY <1>3, <1>4, <1>5, <2>1 DEF Distinct
  <2> QED BY <2>1, <2>2
<1>8. CASE k >= n
  <2>1. Behind(a) = {}
    BY <1>7, <1>8
  <2>2. m = None
    BY <1>6, <1>8
  <2> QED BY <2>1, <2>2
<1>9. CASE k < n
  <2>1. k + 1 \in 1..n /\ m = s[k + 1] /\ m \in Loopers
    BY <1>3, <1>6, <1>9
  <2>2. m # None
    BY <2>1, LoopFacts
  <2>3. Among(s, m)
    BY <1>3, <2>1 DEF Among
  <2>4. fProxy[m] = p
    BY <1>2, <2>1, <2>3 DEF LoopInv, ClientsAgree
  <2>5. ASSUME NEW x \in Behind(a) PROVE x = m \/ x \in Behind(m)
    <3>1. x \in Loopers
      BY DEF Behind
    <3>2. PICK j \in 1..n : k < j /\ s[j] = x
      BY <1>7
    <3>3. CASE j = k + 1
      BY <2>1, <3>2, <3>3
    <3>4. CASE j # k + 1
      <4>1. k + 1 < j
        BY <3>2, <3>4
      <4>2. x \in Behind(m)
        BY <1>2, <1>3, <2>1, <2>4, <3>1, <3>2, <4>1 DEF Behind
      <4> QED BY <4>2
    <3> QED BY <3>3, <3>4
  <2> QED BY <1>1, <2>1, <2>2, <2>4, <2>5
<1> QED BY <1>8, <1>9

\* Among the loopers above l that something follows there is a nearest one.
LEMMA NearestExists ==
    ASSUME NEW f \in Proxying, NEW l \in Loopers, NEW F \in SUBSET AndAbove(f, l),
           F # {}, None \notin Loopers
    PROVE  \E a \in F : F \subseteq AndAbove(f, a)
<1> DEFINE B == {x \in AndAbove(f, l) : F \subseteq AndAbove(f, x)}
<1>1. SUFFICES ASSUME \A a \in F : a \notin B PROVE FALSE
  OBVIOUS
<1>2. /\ l \in AndAbove(f, l) /\ AndAbove(f, l) \in SUBSET Loopers
      /\ Upwards(f, AndAbove(f, l))
  BY AboveClosed
<1>3. ASSUME NEW x \in B, f[x] # None PROVE f[x] \in B
  <2>1. x \in Loopers /\ f[x] \in AndAbove(f, l)
    BY <1>2, <1>3 DEF Upwards
  <2>2. AndAbove(f, x) = {x} \cup AndAbove(f, f[x])
    BY <1>3, <2>1, AboveStep
  <2>3. x \notin F
    BY <1>1
  <2> QED BY <2>1, <2>2, <2>3
<1>4. Upwards(f, B)
  BY <1>3 DEF Upwards
<1>5. AndAbove(f, l) \subseteq B
  <2>1. l \in B /\ B \in SUBSET Loopers
    BY <1>2
  <2> HIDE DEF B
  <2> QED BY <1>4, <2>1, AboveIn
<1> QED BY <1>1, <1>5

\* What lies under l lies under one of its clients, or is l.
LEMMA BelowClients ==
    ASSUME NEW f \in Proxying, NEW l \in Loopers, NEW x \in AndUnder(f, l), x # l,
           None \notin Loopers
    PROVE  \E c \in Loopers : f[c] = l /\ x \in AndUnder(f, c)
<1> DEFINE S == {d \in AndAbove(f, x) : d # l}
<1>1. x \in Loopers /\ l \in AndAbove(f, x)
  BY DEF AndUnder
<1>2. SUFFICES ASSUME \A c \in AndAbove(f, x) : f[c] # l PROVE FALSE
  <2>1. AndAbove(f, x) \in SUBSET Loopers
    BY <1>1, AboveClosed
  <2> QED BY <1>1, <2>1 DEF AndUnder
<1>3. /\ x \in AndAbove(f, x) /\ AndAbove(f, x) \in SUBSET Loopers
      /\ Upwards(f, AndAbove(f, x))
  BY <1>1, AboveClosed
<1>4. Upwards(f, S)
  BY <1>2, <1>3 DEF Upwards
<1>5. AndAbove(f, x) \subseteq S
  BY <1>3, <1>4, AboveIn
<1> QED BY <1>1, <1>5

\* The next looper of a round is one of the same tree, and the round leaves nobody
\* out: who was ahead is the next looper or still ahead.
LEMMA NextFacts ==
    ASSUME LoopInv, NEW l \in Loopers, NEW m, m = GetNextClient(l)
    PROVE  /\ m = None => Ahead(l) = {}
           /\ m # None => /\ m \in Loopers /\ alive[m] /\ Top(m) = Top(l)
                          /\ Ahead(l) \subseteq {m} \cup Ahead(m)
<1>1. PICK f \in Proxying : f = fProxy
  BY LoopFacts
<1>2. None \notin Loopers /\ Rooted(f)
  BY <1>1, LoopFacts
<1>3. fClients[l] \in Seq(Loopers)
  BY DEF LoopInv, LooperTypeOK
<1>4. /\ l \in AndAbove(f, l) /\ AndAbove(f, l) \in SUBSET Loopers
      /\ Upwards(f, AndAbove(f, l))
  BY <1>2, AboveClosed
<1>5. CASE fClients[l] # <<>>
  <2>1. m = Head(fClients[l])
    BY <1>5 DEF GetNextClient
  <2>2. m = fClients[l][1] /\ Len(fClients[l]) \in Nat /\ 1 \in 1..Len(fClients[l])
        /\ m \in Loopers
    BY <1>3, <1>5, <2>1
  <2>3. f[m] = l /\ m # None
    BY <1>1, <1>2, <2>2 DEF LoopInv, ClientsAgree, Among
  <2>4. alive[m]
    BY <1>1, <1>2, <2>2, <2>3 DEF LoopInv, ClientsAgree
  <2>5. AndAbove(f, m) = {m} \cup AndAbove(f, l)
    BY <1>2, <2>2, <2>3, AboveStep
  <2>6. Top(m) = Top(l)
    BY <1>1, <1>2, <1>4, <2>2, <2>5, RootFacts DEF Top
  <2>7. ASSUME NEW x \in Ahead(l) PROVE x = m \/ x \in Ahead(m)
    <3>1. x \in Loopers
      BY DEF Ahead
    <3>2. CASE x \in Below(l) /\ x # l
      <4>1. PICK c \in Loopers : f[c] = l /\ x \in AndUnder(f, c)
        BY <1>1, <1>2, <3>2, BelowClients DEF Below
      <4>2. CASE c = m
        BY <1>1, <3>1, <4>1, <4>2 DEF Ahead, Below
      <4>3. CASE c # m
        <5>1. PICK j \in 1..Len(fClients[l]) : fClients[l][j] = c
          BY <1>1, <4>1 DEF LoopInv, ClientsAgree, Among
        <5>2. 1 < j
          BY <2>2, <4>3, <5>1
        <5>3. c \in Behind(m)
          BY <1>1, <2>2, <2>3, <5>1, <5>2 DEF Behind
        <5>4. m \in AndAbove(fProxy, m) /\ fProxy[m] # None
          BY <1>1, <1>2, <1>4, <2>3, <2>5
        <5> QED BY <1>1, <3>1, <4>1, <5>3, <5>4 DEF Ahead, Below
      <4> QED BY <4>2, <4>3
    <3>3. CASE \E a \in AndAbove(fProxy, l) :
                   fProxy[a] # None /\ \E s \in Behind(a) : x \in Below(s)
      BY <1>1, <2>5, <3>1, <3>3 DEF Ahead
    <3> QED BY <3>2, <3>3 DEF Ahead
  <2> QED BY <2>2, <2>3, <2>4, <2>6, <2>7
<1>6. CASE fClients[l] = <<>>
  <2>1. ASSUME NEW x \in Below(l) PROVE x = l
    <3>1. SUFFICES ASSUME x # l PROVE FALSE
      OBVIOUS
    <3>2. PICK c \in Loopers : f[c] = l
      BY <1>1, <1>2, <3>1, BelowClients DEF Below
    <3>3. Len(fClients[l]) = 0
      BY <1>6
    <3> QED BY <1>1, <3>2, <3>3 DEF LoopInv, ClientsAgree, Among
  <2>2. PICK F \in SUBSET AndAbove(f, l) : F = Followed(l)
    BY <1>1 DEF Followed
  <2>3. ASSUME NEW a \in AndAbove(f, l), fProxy[a] # None, a \notin F
        PROVE  Behind(a) = {}
    <3>1. NextSibling(a) = None
      BY <1>1, <2>2, <2>3 DEF Followed
    <3> QED BY <1>4, <2>3, <3>1, SiblingFacts
  <2>4. ASSUME NEW x \in Ahead(l)
        PROVE  \E b \in F : fProxy[b] # None /\ \E s \in Behind(b) : x \in Below(s)
    <3>1. PICK b \in AndAbove(f, l) : fProxy[b] # None /\ \E s \in Behind(b) : x \in Below(s)
      BY <1>1, <2>1, <2>4 DEF Ahead
    <3> QED BY <2>3, <3>1
  <2>5. CASE F = {}
    <3>1. m = None
      BY <1>6, <2>2, <2>5 DEF GetNextClient
    <3>2. Ahead(l) = {}
      BY <2>4, <2>5
    <3> QED BY <3>1, <3>2
  <2>6. CASE F # {}
    <3>1. \E a \in F : F \subseteq AndAbove(f, a)
      BY <1>2, <2>6, NearestExists
    <3>2. m = NextSibling(CHOOSE a \in Followed(l) :
                                 Followed(l) \subseteq AndAbove(fProxy, a))
      BY <1>6, <2>2, <2>6 DEF GetNextClient
    <3>3. PICK a \in F : F \subseteq AndAbove(f, a) /\ m = NextSibling(a)
      BY <1>1, <2>2, <3>1, <3>2
    <3>4. a \in Loopers /\ fProxy[a] # None /\ NextSibling(a) # None
          /\ a \in AndAbove(f, l)
      BY <1>4, <2>2, <3>3 DEF Followed
    <3>5. /\ m # None /\ m \in Loopers /\ fProxy[m] = fProxy[a]
          /\ Behind(a) \subseteq {m} \cup Behind(m)
      BY <3>3, <3>4, SiblingFacts
    <3>6. alive[m]
      BY <3>4, <3>5 DEF LoopInv, ClientsAgree
    <3>7. /\ AndAbove(f, a) = {a} \cup AndAbove(f, f[a])
          /\ AndAbove(f, m) = {m} \cup AndAbove(f, f[a])
      BY <1>1, <1>2, <3>4, <3>5, AboveStep
    <3>8. Top(m) = Top(l)
      <4>1. f[a] \in Loopers
        BY <1>1, <3>4 DEF Proxying
      <4>2. f[a] \in AndAbove(f, f[a])
        BY <1>2, <4>1, AboveClosed
      <4>3. Root(f, f[a]) = Root(f, m) /\ Root(f, f[a]) = Root(f, a)
            /\ Root(f, a) = Root(f, l)
        BY <1>2, <3>4, <3>5, <3>7, <4>2, RootFacts
      <4> QED BY <1>1, <4>3 DEF Top
    <3>9. ASSUME NEW x \in Ahead(l) PROVE x = m \/ x \in Ahead(m)
      <4>1. x \in Loopers
        BY DEF Ahead
      <4>2. PICK b \in F : fProxy[b] # None /\ \E s \in Behind(b) : x \in Below(s)
        BY <2>4
      <4>3. PICK s \in Behind(b) : x \in Below(s)
        BY <4>2
      <4>4. CASE b # a
        <5>1. b \in AndAbove(f, m)
          BY <3>3, <3>7, <4>4
        <5> QED BY <1>1, <4>1, <4>2, <4>3, <5>1 DEF Ahead
      <4>5. CASE b = a /\ s = m
        BY <4>1, <4>3, <4>5 DEF Ahead
      <4>6. CASE b = a /\ s # m
        <5>1. s \in Behind(m)
          BY <3>5, <4>3, <4>6
        <5>2. m \in AndAbove(fProxy, m) /\ fProxy[m] # None
          BY <1>1, <3>4, <3>5, <3>7
        <5> QED BY <4>1, <4>3, <5>1, <5>2 DEF Ahead
      <4> QED BY <4>4, <4>5, <4>6
    <3> QED BY <3>5, <3>6, <3>8, <3>9
  <2> QED BY <2>5, <2>6
<1> QED BY <1>5, <1>6


-----------------------------------------------------------------------------
(* Steps that leave the trees alone *)

LEMMA TreeSame ==
    ASSUME LoopInv, fProxy' = fProxy, fClients' = fClients, alive' = alive,
           \A l \in Loopers : fThread'[l] => fThread[l] \/ fProxy[l] = None
    PROVE  /\ Rooted(fProxy') /\ ClientsAgree'
           /\ \A d : Top(d)' = Top(d) /\ Below(d)' = Below(d) /\ Ahead(d)' = Ahead(d)
<1>1. \A d : Top(d)' = Top(d) /\ Below(d)' = Below(d)
  BY DEF Top, Below
<1>2. \A d : Behind(d)' = Behind(d)
  BY DEF Behind
<1>3. \A d : Ahead(d)' = Ahead(d)
  BY <1>1, <1>2 DEF Ahead
<1>4. Rooted(fProxy')
  BY DEF LoopInv
<1>5. ClientsAgree'
  BY DEF LoopInv, ClientsAgree
<1> QED BY <1>1, <1>3, <1>4, <1>5

\* Nobody is run, and every thread waits where it did.
LEMMA EarsSame ==
    ASSUME LoopInv, alive' = alive, fThread' = fThread, hears' = hears
    PROVE  EarsAgree' /\ \A r \in Loopers : OwnEars(r)' => OwnEars(r)
  BY DEF LoopInv, EarsAgree, OwnEars

\* More tokens where there are more messages.
KeepsUp(q, s) ==
    \A r \in Loopers : fProxy[r] = None =>
        \A S \in SUBSET Below(r) :
            /\ Num(queue, S) <= sem[r] => Num(q, S) <= s[r]
            /\ Num(queue, S) <= sem[r] + 1 => Num(q, S) <= s[r] + 1

LEMMA TokensKept ==
    ASSUME LoopInv, fProxy' = fProxy,
           \A d : Below(d)' = Below(d) /\ Ahead(d)' = Ahead(d),
           \A r \in Loopers : OwnEars(r)' => OwnEars(r),
           KeepsUp(queue', sem'), queue' \in Queues, sem' \in [Loopers -> Nat],
           \A r \in Loopers : \/ taskPc'[r] = taskPc[r] /\ cur'[r] = cur[r]
                              \/ taskPc[r] \notin {"lock", "scan"}
    PROVE  TokensSuffice'
<1>1. ASSUME NEW r \in Loopers, fProxy'[r] = None, OwnEars(r)
      PROVE  /\ taskPc'[r] \notin {"lock", "scan"} => Num(queue', Below(r)') <= sem'[r]
             /\ taskPc'[r] \in {"lock", "scan"} => Num(queue', Below(r)') <= sem'[r] + 1
             /\ taskPc'[r] = "scan" => \/ Num(queue', Below(r)') <= sem'[r]
                                       \/ Num(queue', Passed(r)') <= sem'[r]
  <2>1. fProxy[r] = None /\ Below(r)' = Below(r) /\ Below(r) \in SUBSET Below(r)
        /\ Passed(r) \in SUBSET Below(r)
    BY <1>1, LoopFacts
  <2>2. /\ Num(queue, Below(r)) <= sem[r] => Num(queue', Below(r)') <= sem'[r]
        /\ Num(queue, Below(r)) <= sem[r] + 1 => Num(queue', Below(r)') <= sem'[r] + 1
        /\ Num(queue, Passed(r)) <= sem[r] => Num(queue', Passed(r)) <= sem'[r]
    BY <2>1 DEF KeepsUp
  <2>3. Num(queue', Below(r)') \in Nat /\ sem'[r] \in Nat
    BY <2>1, LoopFacts, NumType
  <2>4. CASE taskPc'[r] = taskPc[r] /\ cur'[r] = cur[r]
    <3>1. Passed(r)' = Passed(r)
      BY <2>1, <2>4 DEF Passed
    <3> QED BY <1>1, <2>1, <2>2, <2>4, <3>1 DEF LoopInv, TokensSuffice
  <2>5. CASE taskPc[r] \notin {"lock", "scan"}
    <3>1. Num(queue', Below(r)') <= sem'[r]
      BY <1>1, <2>1, <2>2, <2>5 DEF LoopInv, TokensSuffice
    <3> QED BY <2>3, <3>1
  <2> QED BY <2>4, <2>5
<1> QED BY <1>1 DEF TokensSuffice

LEMMA PutFacts ==
    ASSUME LoopInv, NEW l \in Loopers, NEW w \in Whats, Put(l, w)
    PROVE  /\ queue' \in Queues /\ sem' \in [Loopers -> Nat]
           /\ \A d \in Loopers : d # l => queue'[d] = queue[d]
           /\ KeepsUp(queue', sem')
<1>1. PICK t \in Loopers : t = Top(l)
  BY LoopFacts
<1>2. /\ queue' = [queue EXCEPT ![l] = Append(queue[l], w)]
      /\ sem' = [sem EXCEPT ![t] = sem[t] + 1]
  BY <1>1, LoopTree DEF Put
<1>3. queue \in Queues /\ queue[l] \in Seq(Whats) /\ sem \in [Loopers -> Nat]
  BY LoopFacts DEF LoopInv, LooperTypeOK, Queues
<1>4. /\ Append(queue[l], w) \in Seq(Whats)
      /\ Len(Append(queue[l], w)) = Len(queue[l]) + 1
  BY <1>3
<1>5. /\ queue' \in Queues /\ Len(queue'[l]) = Len(queue[l]) + 1
      /\ \A d \in Loopers : d # l => queue'[d] = queue[d]
  BY <1>2, <1>3, <1>4 DEF Queues
<1>6. /\ sem' \in [Loopers -> Nat] /\ sem'[t] = sem[t] + 1
      /\ \A d \in Loopers : d # t => sem'[d] = sem[d]
  BY <1>2, <1>3
<1>7. ASSUME NEW r \in Loopers, fProxy[r] = None, NEW S \in SUBSET Below(r)
      PROVE  /\ Num(queue, S) <= sem[r] => Num(queue', S) <= sem'[r]
             /\ Num(queue, S) <= sem[r] + 1 => Num(queue', S) <= sem'[r] + 1
  <2>1. S \in SUBSET Loopers /\ IsFiniteSet(Loopers)
    BY LoopFacts
  <2>2. Num(queue', S) = IF l \in S THEN Num(queue, S) + 1 ELSE Num(queue, S)
    BY <1>3, <1>5, <2>1, NumMore
  <2>3. Num(queue, S) \in Nat /\ sem[r] \in Nat
    BY <1>3, <2>1, NumType
  <2>4. CASE r = t
    BY <1>6, <2>2, <2>3, <2>4
  <2>5. CASE r # t
    <3>1. l \notin S
      BY <1>1, <1>7, <2>5, BelowRoot
    <3> QED BY <1>6, <2>2, <2>3, <2>5, <3>1
  <2> QED BY <2>4, <2>5
<1> QED BY <1>5, <1>6, <1>7 DEF KeepsUp

\* Steps in which no thread goes anywhere.
LEMMA RoundsKept ==
    ASSUME LoopInv, alive' = alive, fThread' = fThread, taskPc' = taskPc, cur' = cur,
           \A l \in Loopers : ~alive[l] => queue'[l] = queue[l],
           \A d : Top(d)' = Top(d)
    PROVE  ThreadsAgree' /\ LocksApart'
<1>1. ThreadsAgree'
  BY DEF LoopInv, ThreadsAgree
<1>2. \A q, x : Holds(q, x)' <=> Holds(q, x)
  BY DEF Holds
<1>3. LocksApart'
  BY <1>2 DEF LoopInv, LocksApart
<1> QED BY <1>1, <1>3

LEMMA LoopPost ==
    ASSUME LoopInv, NEW l \in Loopers, NEW w \in Whats,
           PostMessage(l, w)
    PROVE  LoopInv'
<1>1. /\ alive[l] /\ Put(l, w) /\ posts < MaxPosts /\ posts' = posts + 1
      /\ fProxy' = fProxy /\ fClients' = fClients /\ alive' = alive /\ fThread' = fThread
      /\ fDeconstructing' = fDeconstructing /\ taskPc' = taskPc /\ cur' = cur /\ msg' = msg
      /\ moves' = moves /\ hears' = hears /\ strays' = strays
  BY DEF PostMessage, tree, loop, ears
<1>2. /\ queue' \in Queues /\ sem' \in [Loopers -> Nat]
      /\ \A d \in Loopers : d # l => queue'[d] = queue[d]
      /\ KeepsUp(queue', sem')
  BY <1>1, PutFacts
<1>3. /\ Rooted(fProxy') /\ ClientsAgree'
      /\ \A d : Top(d)' = Top(d) /\ Below(d)' = Below(d) /\ Ahead(d)' = Ahead(d)
  BY <1>1, TreeSame
<1>4. LooperTypeOK'
  <2>1. posts' \in 0..MaxPosts
    BY <1>1, LooperAssumption DEF LoopInv, LooperTypeOK
  <2> QED BY <1>1, <1>2, <2>1 DEF LoopInv, LooperTypeOK, Queues
<1>5. ThreadsAgree' /\ LocksApart'
  BY <1>1, <1>2, <1>3, RoundsKept
<1>6. EarsAgree' /\ \A r \in Loopers : OwnEars(r)' => OwnEars(r)
  BY <1>1, EarsSame
<1>7. TokensSuffice'
  BY <1>1, <1>2, <1>3, <1>6, TokensKept
<1> QED BY <1>3, <1>4, <1>5, <1>6, <1>7 DEF LoopInv

LEMMA LoopPending ==
    ASSUME LoopInv, NEW l \in Loopers, PostEventsPending(l)
    PROVE  LoopInv'
<1>1. /\ sem' = [sem EXCEPT ![Proxy(l)] = sem[Proxy(l)] + 1]
      /\ posts < MaxPosts /\ posts' = posts + 1
      /\ fProxy' = fProxy /\ fClients' = fClients /\ alive' = alive /\ fThread' = fThread
      /\ fDeconstructing' = fDeconstructing /\ taskPc' = taskPc /\ cur' = cur /\ msg' = msg
      /\ moves' = moves /\ hears' = hears /\ strays' = strays
      /\ queue' = queue
  BY DEF PostEventsPending, tree, loop, ears
<1>2. sem \in [Loopers -> Nat] /\ queue \in Queues
  BY LoopFacts DEF LoopInv, LooperTypeOK
<1>3. sem' \in [Loopers -> Nat] /\ \A r \in Loopers : sem[r] <= sem'[r]
  <2>1. PICK t \in Loopers : t = Proxy(l)
    BY LoopFacts, LoopTree
  <2>2. sem' = [sem EXCEPT ![t] = sem[t] + 1]
    BY <1>1, <2>1
  <2> QED BY <1>2, <2>2
<1>4. KeepsUp(queue', sem')
  <2>1. ASSUME NEW r \in Loopers, NEW S \in SUBSET Below(r)
        PROVE  /\ Num(queue, S) <= sem[r] => Num(queue, S) <= sem'[r]
               /\ Num(queue, S) <= sem[r] + 1 => Num(queue, S) <= sem'[r] + 1
    <3>1. Num(queue, S) \in Nat /\ sem[r] \in Nat /\ sem'[r] \in Nat
      BY <1>2, <1>3, LoopFacts, NumType
    <3> QED BY <1>3, <3>1
  <2> QED BY <1>1, <2>1 DEF KeepsUp
<1>5. /\ Rooted(fProxy') /\ ClientsAgree'
      /\ \A d : Top(d)' = Top(d) /\ Below(d)' = Below(d) /\ Ahead(d)' = Ahead(d)
  BY <1>1, TreeSame
<1>6. LooperTypeOK'
  <2>1. posts' \in 0..MaxPosts
    BY <1>1, LooperAssumption DEF LoopInv, LooperTypeOK
  <2> QED BY <1>1, <1>3, <2>1 DEF LoopInv, LooperTypeOK
<1>7. ThreadsAgree' /\ LocksApart'
  BY <1>1, <1>5, RoundsKept
<1>8. EarsAgree' /\ \A r \in Loopers : OwnEars(r)' => OwnEars(r)
  BY <1>1, EarsSame
<1>9. TokensSuffice'
  BY <1>1, <1>2, <1>3, <1>4, <1>5, <1>8, TokensKept
<1> QED BY <1>5, <1>6, <1>7, <1>8, <1>9 DEF LoopInv

\* Steps without messages: neither queues nor tokens change.
LEMMA NothingMoved == KeepsUp(queue, sem)
  BY DEF KeepsUp

LEMMA LoopRun ==
    ASSUME LoopInv, NEW l \in Loopers, Run(l)
    PROVE  LoopInv'
<1>1. /\ alive[l] /\ fProxy[l] = None /\ ~fThread[l]
      /\ fThread' = [d \in Loopers |-> d \in {l} \/ fThread[d]]
      /\ taskPc' = [d \in Loopers |-> IF d \in {l} THEN "lock" ELSE taskPc[d]]
      /\ hears' = hears /\ strays' = strays
      /\ fProxy' = fProxy /\ fClients' = fClients /\ alive' = alive
      /\ fDeconstructing' = fDeconstructing /\ cur' = cur /\ msg' = msg
      /\ moves' = moves /\ queue' = queue /\ sem' = sem /\ posts' = posts
  BY DEF Run, Start, Started, tree, ears
<1>2. /\ fThread \in [Loopers -> BOOLEAN] /\ queue \in Queues /\ sem \in [Loopers -> Nat]
      /\ taskPc \in [Loopers -> {"none", "lock", "scan", "dispatch", "wait", "exited"}]
  BY LoopFacts DEF LoopInv, LooperTypeOK
<1>3. /\ fThread' \in [Loopers -> BOOLEAN]
      /\ fThread'[l] /\ \A d \in Loopers : d # l => fThread'[d] = fThread[d]
  BY <1>1, <1>2
<1>4. /\ taskPc' \in [Loopers -> {"none", "lock", "scan", "dispatch", "wait", "exited"}]
      /\ taskPc'[l] = "lock" /\ \A d \in Loopers : d # l => taskPc'[d] = taskPc[d]
  BY <1>1, <1>2
<1>5. /\ Rooted(fProxy') /\ ClientsAgree'
      /\ \A d : Top(d)' = Top(d) /\ Below(d)' = Below(d) /\ Ahead(d)' = Ahead(d)
  BY <1>1, <1>3, TreeSame
<1>6. LooperTypeOK'
  BY <1>1, <1>3, <1>4 DEF LoopInv, LooperTypeOK
<1>7. taskPc[l] = "none"
  <2>1. taskPc[l] \notin {"lock", "scan", "dispatch", "wait", "exited"}
    BY <1>1 DEF LoopInv, ThreadsAgree
  <2> QED BY <1>2, <2>1
<1>8. cur[l] = l
  BY <1>7 DEF LoopInv, ThreadsAgree
<1>9. ThreadsAgree'
  BY <1>1, <1>3, <1>4, <1>5, <1>8 DEF LoopInv, ThreadsAgree
<1>10. LocksApart'
  <2>1. \A q \in Loopers : \A x : Holds(q, x)' => Holds(q, x)
    BY <1>1, <1>4, <1>5 DEF Holds
  <2> QED BY <2>1 DEF LoopInv, LocksApart
<1>11. EarsAgree' /\ \A r \in Loopers : OwnEars(r)' => OwnEars(r)
  BY <1>1, <1>3 DEF LoopInv, EarsAgree, OwnEars
<1>12. TokensSuffice'
  <2>1. KeepsUp(queue', sem')
    BY <1>1, NothingMoved
  <2>2. \A r \in Loopers : \/ taskPc'[r] = taskPc[r] /\ cur'[r] = cur[r]
                           \/ taskPc[r] \notin {"lock", "scan"}
    BY <1>1, <1>4, <1>7
  <2> QED BY <1>1, <1>2, <1>5, <1>11, <2>1, <2>2, TokensKept
<1> QED BY <1>5, <1>6, <1>9, <1>10, <1>11, <1>12 DEF LoopInv

LEMMA LoopStutter ==
    ASSUME LoopInv, UNCHANGED looperVars
    PROVE  LoopInv'
<1>1. /\ fProxy' = fProxy /\ fClients' = fClients /\ alive' = alive /\ fThread' = fThread
      /\ fDeconstructing' = fDeconstructing /\ taskPc' = taskPc /\ cur' = cur /\ msg' = msg
      /\ moves' = moves /\ hears' = hears /\ strays' = strays
      /\ queue' = queue /\ sem' = sem /\ posts' = posts
  BY DEF looperVars, tree, loop, ears
<1>2. /\ Rooted(fProxy') /\ ClientsAgree'
      /\ \A d : Top(d)' = Top(d) /\ Below(d)' = Below(d) /\ Ahead(d)' = Ahead(d)
  BY <1>1, TreeSame
<1>3. LooperTypeOK'
  BY <1>1 DEF LoopInv, LooperTypeOK
<1>4. ThreadsAgree' /\ LocksApart'
  BY <1>1, <1>2, RoundsKept
<1>5. EarsAgree' /\ \A r \in Loopers : OwnEars(r)' => OwnEars(r)
  BY <1>1, EarsSame
<1>6. queue' \in Queues /\ sem' \in [Loopers -> Nat]
  BY <1>1, LoopFacts DEF LoopInv, LooperTypeOK
<1>7. TokensSuffice'
  <2>1. KeepsUp(queue', sem')
    BY <1>1, NothingMoved
  <2> QED BY <1>1, <1>2, <1>5, <1>6, <2>1, TokensKept
<1> QED BY <1>2, <1>3, <1>4, <1>5, <1>7 DEF LoopInv


-----------------------------------------------------------------------------
(* Steps of _taskLooper *)

\* Only the thread of r and the messages of its tree are concerned.
LEMMA TokensOf ==
    ASSUME LoopInv, NEW r \in Loopers, fProxy' = fProxy,
           \A d : Below(d)' = Below(d) /\ Ahead(d)' = Ahead(d),
           \A q \in Loopers : q # r => taskPc'[q] = taskPc[q] /\ cur'[q] = cur[q],
           \A q \in Loopers : OwnEars(q)' => OwnEars(q),
           \A q \in Loopers : q # r /\ OwnEars(q) => sem'[q] = sem[q],
           \A q \in Loopers : q # r /\ fProxy[q] = None =>
               \A S \in SUBSET Below(q) : Num(queue', S) = Num(queue, S),
           OwnEars(r) =>
             /\ taskPc'[r] \notin {"lock", "scan"} => Num(queue', Below(r)) <= sem'[r]
             /\ taskPc'[r] \in {"lock", "scan"} => Num(queue', Below(r)) <= sem'[r] + 1
             /\ taskPc'[r] = "scan" => \/ Num(queue', Below(r)) <= sem'[r]
                                       \/ Num(queue', Passed(r)') <= sem'[r]
    PROVE  TokensSuffice'
<1>1. ASSUME NEW q \in Loopers, q # r, fProxy[q] = None, OwnEars(q)
      PROVE  /\ taskPc'[q] \notin {"lock", "scan"} => Num(queue', Below(q)') <= sem'[q]
             /\ taskPc'[q] \in {"lock", "scan"} => Num(queue', Below(q)') <= sem'[q] + 1
             /\ taskPc'[q] = "scan" => \/ Num(queue', Below(q)') <= sem'[q]
                                       \/ Num(queue', Passed(q)') <= sem'[q]
  <2>1. Passed(q)' = Passed(q) /\ Passed(q) \in SUBSET Below(q)
    BY <1>1 DEF Passed
  <2>2. Num(queue', Passed(q)) = Num(queue, Passed(q))
        /\ Num(queue', Below(q)) = Num(queue, Below(q))
    BY <1>1, <2>1
  <2> QED BY <1>1, <2>1, <2>2 DEF LoopInv, TokensSuffice
<1>2. Below(r)' = Below(r)
  OBVIOUS
<1> QED BY <1>1, <1>2 DEF TokensSuffice

LEMMA LoopBegin ==
    ASSUME LoopInv, NEW r \in Loopers, Begin(r)
    PROVE  LoopInv'
<1>1. /\ taskPc[r] = "lock" /\ LockFree(r) /\ taskPc' = [taskPc EXCEPT ![r] = "scan"]
      /\ fProxy' = fProxy /\ fClients' = fClients /\ alive' = alive /\ fThread' = fThread
      /\ fDeconstructing' = fDeconstructing /\ cur' = cur /\ msg' = msg
      /\ moves' = moves /\ hears' = hears /\ strays' = strays
      /\ queue' = queue /\ sem' = sem /\ posts' = posts
  BY DEF Begin, tree, ears
<1>2. /\ taskPc' \in [Loopers -> {"none", "lock", "scan", "dispatch", "wait", "exited"}]
      /\ taskPc'[r] = "scan" /\ \A q \in Loopers : q # r => taskPc'[q] = taskPc[q]
  BY <1>1 DEF LoopInv, LooperTypeOK
<1>3. fThread[r] /\ cur[r] = r
  BY <1>1 DEF LoopInv, ThreadsAgree
<1>4. Top(r) = r /\ alive[r] /\ fProxy[r] = None
  BY <1>3, ThreadIsRoot
<1>5. /\ Rooted(fProxy') /\ ClientsAgree'
      /\ \A d : Top(d)' = Top(d) /\ Below(d)' = Below(d) /\ Ahead(d)' = Ahead(d)
  BY <1>1, TreeSame
<1>6. LooperTypeOK'
  BY <1>1, <1>2 DEF LoopInv, LooperTypeOK
<1>7. ThreadsAgree'
  BY <1>1, <1>2, <1>3, <1>4, <1>5 DEF LoopInv, ThreadsAgree
<1>8. EarsAgree' /\ \A q \in Loopers : OwnEars(q)' => OwnEars(q)
  BY <1>1, EarsSame
<1>9. LocksApart'
  <2>1. \A q \in Loopers : ~Holds(q, r)
    BY <1>1, <1>4, LoopTree, LoopHolds DEF LockFree
  <2>2. \A q \in Loopers : \A x : Holds(q, x)' => Holds(q, x) \/ (q = r /\ x = r)
    BY <1>1, <1>2, <1>5 DEF Holds
  <2> QED BY <2>1, <2>2 DEF LoopInv, LocksApart
<1>10. TokensSuffice'
  <2>1. OwnEars(r) => Num(queue, Below(r)) <= sem[r] + 1
    BY <1>1, <1>4 DEF LoopInv, TokensSuffice
  <2>2. Passed(r)' = {}
    BY <1>1, <1>3, <1>5 DEF Passed, Ahead, Below, AndUnder
  <2>3. Num(queue, {}) = 0
    BY LoopFacts, NumZero
  <2>4. Num(queue', Passed(r)') <= sem'[r]
    BY <1>1, <2>2, <2>3, LoopFacts
  <2> QED BY <1>1, <1>2, <1>5, <1>8, <2>1, <2>4, TokensOf
<1> QED BY <1>5, <1>6, <1>7, <1>8, <1>9, <1>10 DEF LoopInv

LEMMA LoopTake ==
    ASSUME LoopInv, NEW r \in Loopers, TakeMessage(r)
    PROVE  LoopInv'
<1>1. PICK c \in Loopers : c = cur[r]
  BY LoopFacts
<1>2. /\ taskPc[r] = "scan" /\ queue[c] # <<>>
      /\ queue' = [queue EXCEPT ![c] = Tail(queue[c])]
      /\ \/ /\ msg' = [msg EXCEPT ![r] = Head(queue[c])]
            /\ taskPc' = [taskPc EXCEPT ![r] = "dispatch"]
         \/ msg' = msg /\ taskPc' = taskPc
      /\ fProxy' = fProxy /\ fClients' = fClients /\ alive' = alive /\ fThread' = fThread
      /\ fDeconstructing' = fDeconstructing /\ cur' = cur
      /\ moves' = moves /\ hears' = hears /\ strays' = strays /\ sem' = sem /\ posts' = posts
  BY <1>1 DEF TakeMessage, tree, ears
<1>3. queue[c] \in Seq(Whats) /\ queue \in Queues
  BY LoopFacts DEF Queues
<1>4. /\ Tail(queue[c]) \in Seq(Whats) /\ Head(queue[c]) \in Whats
      /\ Len(queue[c]) = Len(Tail(queue[c])) + 1
  BY <1>2, <1>3
<1>5. /\ queue' \in Queues /\ Len(queue[c]) = Len(queue'[c]) + 1
      /\ \A d \in Loopers : d # c => queue[d] = queue'[d]
  BY <1>2, <1>3, <1>4 DEF Queues
<1>6. /\ taskPc' \in [Loopers -> {"none", "lock", "scan", "dispatch", "wait", "exited"}]
      /\ taskPc'[r] \in {"scan", "dispatch"}
      /\ \A q \in Loopers : q # r => taskPc'[q] = taskPc[q]
      /\ msg' \in [Loopers -> Whats]
  <2>1. /\ taskPc \in [Loopers -> {"none", "lock", "scan", "dispatch", "wait", "exited"}]
        /\ msg \in [Loopers -> Whats]
    BY DEF LoopInv, LooperTypeOK
  <2>2. CASE /\ msg' = [msg EXCEPT ![r] = Head(queue[c])]
             /\ taskPc' = [taskPc EXCEPT ![r] = "dispatch"]
    <3>1. msg' \in [Loopers -> Whats]
      BY <1>4, <2>1, <2>2
    <3>2. /\ taskPc' \in [Loopers -> {"none", "lock", "scan", "dispatch", "wait", "exited"}]
          /\ taskPc'[r] = "dispatch" /\ \A q \in Loopers : q # r => taskPc'[q] = taskPc[q]
      BY <2>1, <2>2
    <3> QED BY <3>1, <3>2
  <2>3. CASE msg' = msg /\ taskPc' = taskPc
    BY <1>2, <2>1, <2>3
  <2> QED BY <1>2, <2>2, <2>3
<1>7. fThread[r] /\ alive[c] /\ Top(c) = r
  BY <1>1, <1>2 DEF LoopInv, ThreadsAgree
<1>8. fProxy[r] = None
  BY <1>7, ThreadIsRoot
<1>9. /\ Rooted(fProxy') /\ ClientsAgree'
      /\ \A d : Top(d)' = Top(d) /\ Below(d)' = Below(d) /\ Ahead(d)' = Ahead(d)
  BY <1>2, TreeSame
<1>10. LooperTypeOK'
  BY <1>2, <1>5, <1>6 DEF LoopInv, LooperTypeOK, Queues
<1>11. ThreadsAgree'
  BY <1>1, <1>2, <1>5, <1>6, <1>7, <1>9 DEF LoopInv, ThreadsAgree
<1>12. EarsAgree' /\ \A q \in Loopers : OwnEars(q)' => OwnEars(q)
  BY <1>2, EarsSame
<1>13. LocksApart'
  <2>1. \A q \in Loopers : \A x : Holds(q, x)' => Holds(q, x)
    BY <1>1, <1>2, <1>6, <1>7, <1>9 DEF Holds
  <2> QED BY <2>1 DEF LoopInv, LocksApart
<1>14. TokensSuffice'
  <2>1. OwnEars(r) => Num(queue, Below(r)) <= sem[r] + 1
    BY <1>2, <1>8 DEF LoopInv, TokensSuffice
  <2>2. c \in Below(r)
    BY <1>7, <1>8, BelowRoot
  <2>3. ASSUME NEW S \in SUBSET Loopers
        PROVE  Num(queue, S) = IF c \in S THEN Num(queue', S) + 1 ELSE Num(queue', S)
    BY <1>3, <1>5, LoopFacts, NumMore
  <2>4. Num(queue', Below(r)) \in Nat /\ sem[r] \in Nat
    BY <1>5, LoopFacts, NumType
  <2>5. OwnEars(r) => Num(queue', Below(r)) <= sem'[r]
    <3>1. Num(queue, Below(r)) = Num(queue', Below(r)) + 1
      BY <2>2, <2>3, LoopFacts
    <3> QED BY <1>2, <2>1, <2>4, <3>1
  <2>6. ASSUME NEW q \in Loopers, q # r, fProxy[q] = None, NEW S \in SUBSET Below(q)
        PROVE  Num(queue', S) = Num(queue, S)
    <3>1. c \notin S
      BY <1>7, <2>6, BelowRoot
    <3>2. S \in SUBSET Loopers
      BY LoopFacts
    <3> QED BY <2>3, <3>1, <3>2
  <2>7. OwnEars(r) => Num(queue', Below(r)) <= sem'[r] + 1
    BY <1>2, <2>4, <2>5
  <2> QED BY <1>2, <1>6, <1>9, <1>12, <2>5, <2>6, <2>7, TokensOf
<1> QED BY <1>9, <1>10, <1>11, <1>12, <1>13, <1>14 DEF LoopInv

LEMMA LoopPass ==
    ASSUME LoopInv, NEW r \in Loopers, PassOver(r)
    PROVE  LoopInv'
<1>1. PICK c \in Loopers : c = cur[r]
  BY LoopFacts
<1>2. PICK m : m = GetNextClient(c)
  OBVIOUS
<1>3. /\ taskPc[r] = "scan" /\ queue[c] = <<>>
      /\ IF m = None
           THEN taskPc' = [taskPc EXCEPT ![r] = "wait"] /\ cur' = [cur EXCEPT ![r] = r]
           ELSE taskPc' = taskPc /\ cur' = [cur EXCEPT ![r] = m]
      /\ fProxy' = fProxy /\ fClients' = fClients /\ alive' = alive /\ fThread' = fThread
      /\ fDeconstructing' = fDeconstructing /\ msg' = msg
      /\ moves' = moves /\ hears' = hears /\ strays' = strays
      /\ queue' = queue /\ sem' = sem /\ posts' = posts
  <2>1. taskPc[r] = "scan"
    BY DEF PassOver
  <2>2. Proxy(c) = r
    BY <1>1, <2>1, LoopTree DEF LoopInv, ThreadsAgree
  <2> QED BY <1>1, <1>2, <2>2 DEF PassOver, WalkEnds, GoTo, tree, ears
<1>4. fThread[r] /\ alive[c] /\ Top(c) = r
  BY <1>1, <1>3 DEF LoopInv, ThreadsAgree
<1>5. fProxy[r] = None
  BY <1>4, ThreadIsRoot
<1>6. /\ m = None => Ahead(c) = {}
      /\ m # None => /\ m \in Loopers /\ alive[m] /\ Top(m) = r
                     /\ Ahead(c) \subseteq {m} \cup Ahead(m)
  BY <1>2, <1>4, NextFacts
<1>7. /\ taskPc' \in [Loopers -> {"none", "lock", "scan", "dispatch", "wait", "exited"}]
      /\ taskPc'[r] = IF m = None THEN "wait" ELSE "scan"
      /\ \A q \in Loopers : q # r => taskPc'[q] = taskPc[q]
      /\ cur' \in [Loopers -> Loopers] /\ cur'[r] = IF m = None THEN r ELSE m
      /\ \A q \in Loopers : q # r => cur'[q] = cur[q]
  <2>1. /\ taskPc \in [Loopers -> {"none", "lock", "scan", "dispatch", "wait", "exited"}]
        /\ cur \in [Loopers -> Loopers]
    BY DEF LoopInv, LooperTypeOK
  <2>2. CASE m = None
    <3>1. /\ taskPc' \in [Loopers -> {"none", "lock", "scan", "dispatch", "wait", "exited"}]
          /\ taskPc'[r] = "wait" /\ \A q \in Loopers : q # r => taskPc'[q] = taskPc[q]
      BY <1>3, <2>1, <2>2
    <3>2. /\ cur' \in [Loopers -> Loopers] /\ cur'[r] = r
          /\ \A q \in Loopers : q # r => cur'[q] = cur[q]
      BY <1>3, <2>1, <2>2
    <3> QED BY <2>2, <3>1, <3>2
  <2>3. CASE m # None
    <3>1. /\ cur' \in [Loopers -> Loopers] /\ cur'[r] = m
          /\ \A q \in Loopers : q # r => cur'[q] = cur[q]
      BY <1>3, <1>6, <2>1, <2>3
    <3> QED BY <1>3, <2>1, <2>3, <3>1
  <2> QED BY <2>2, <2>3
<1>8. /\ Rooted(fProxy') /\ ClientsAgree'
      /\ \A d : Top(d)' = Top(d) /\ Below(d)' = Below(d) /\ Ahead(d)' = Ahead(d)
  BY <1>3, TreeSame
<1>9. LooperTypeOK'
  BY <1>3, <1>7 DEF LoopInv, LooperTypeOK
<1>10. ThreadsAgree'
  BY <1>3, <1>4, <1>6, <1>7, <1>8 DEF LoopInv, ThreadsAgree
<1>11. EarsAgree' /\ \A q \in Loopers : OwnEars(q)' => OwnEars(q)
  BY <1>3, EarsSame
<1>12. LocksApart'
  <2>1. \A q \in Loopers : \A x : Holds(q, x)' => Holds(q, x)
    BY <1>3, <1>7, <1>8 DEF Holds
  <2> QED BY <2>1 DEF LoopInv, LocksApart
<1>13. TokensSuffice'
  <2>1. OwnEars(r) => /\ Num(queue, Below(r)) <= sem[r] + 1
                      /\ \/ Num(queue, Below(r)) <= sem[r]
                         \/ Num(queue, Passed(r)) <= sem[r]
    BY <1>3, <1>5 DEF LoopInv, TokensSuffice
  <2>2. /\ Passed(r) \cup {c} \in SUBSET Loopers /\ c \in Below(r)
        /\ Passed(r) \in SUBSET Loopers /\ {c} \in SUBSET Loopers /\ Passed(r) \cap {c} = {}
        /\ IsFiniteSet(Loopers) /\ queue \in Queues
    BY <1>1, <1>4, <1>5, BelowRoot, LoopFacts DEF Passed
  <2>3. Num(queue, Passed(r) \cup {c}) = Num(queue, Passed(r)) + Num(queue, {c})
    BY <2>2, NumUnion
  <2>4. Num(queue, {c}) = 0
    BY <1>3, <2>2, NumZero
  <2>5. Num(queue, Passed(r)) \in Nat
    BY LoopFacts
  <2>6. Num(queue, Passed(r) \cup {c}) = Num(queue, Passed(r))
    BY <2>3, <2>4, <2>5
  <2>7. CASE m = None
    <3>1. Below(r) = Passed(r) \cup {c}
      BY <1>1, <1>6, <2>2, <2>7 DEF Passed
    <3>2. OwnEars(r) => Num(queue, Below(r)) <= sem[r]
      BY <2>1, <2>6, <3>1
    <3>3. taskPc'[r] = "wait"
      BY <1>7, <2>7
    <3> QED BY <1>3, <1>7, <1>8, <1>11, <3>2, <3>3, TokensOf
  <2>8. CASE m # None
    <3>1. Passed(r)' = Below(r) \ ({m} \cup Ahead(m))
      BY <1>7, <1>8, <2>8 DEF Passed
    <3>2. Passed(r)' \in SUBSET (Passed(r) \cup {c})
      BY <1>1, <1>6, <2>8, <3>1 DEF Passed
    <3>3. PICK S \in SUBSET (Passed(r) \cup {c}) : S = Passed(r)'
      BY <3>2
    <3>4. Num(queue, S) <= Num(queue, Passed(r) \cup {c}) /\ Num(queue, S) \in Nat
      BY <2>2, NumLess
    <3>5. OwnEars(r) => Num(queue, Below(r)) <= sem[r] \/ Num(queue, S) <= sem[r]
      <4>1. sem[r] \in Nat
        BY LoopFacts
      <4> QED BY <2>1, <2>5, <2>6, <3>4, <4>1
    <3>6. OwnEars(r) => \/ Num(queue', Below(r)) <= sem'[r]
                        \/ Num(queue', Passed(r)') <= sem'[r]
      BY <1>3, <3>3, <3>5
    <3>7. taskPc'[r] = "scan"
      BY <1>7, <2>8
    <3> QED BY <1>3, <1>7, <1>8, <1>11, <2>1, <3>6, <3>7, TokensOf
  <2> QED BY <2>7, <2>8
<1> QED BY <1>8, <1>9, <1>10, <1>11, <1>12, <1>13 DEF LoopInv


LEMMA LoopDispatch ==
    ASSUME LoopInv, NEW r \in Loopers, Dispatch(r)
    PROVE  LoopInv'
<1>1. PICK c \in Loopers : c = cur[r]
  BY LoopFacts
<1>2. PICK p \in {"scan", "lock"} : p = IF Top(c) = r THEN "scan" ELSE "lock"
  OBVIOUS
<1>3. /\ taskPc[r] = "dispatch" /\ msg' = [msg EXCEPT ![r] = "message"]
      /\ Put(c, "_QUIT_") \/ (queue' = queue /\ sem' = sem)
      /\ taskPc' = [taskPc EXCEPT ![r] = p]
      /\ cur' = [cur EXCEPT ![r] = IF p = "scan" THEN c ELSE r]
      /\ fProxy' = fProxy /\ fClients' = fClients /\ alive' = alive /\ fThread' = fThread
      /\ fDeconstructing' = fDeconstructing
      /\ moves' = moves /\ hears' = hears /\ strays' = strays /\ posts' = posts
  BY <1>1, <1>2, LoopTree DEF Dispatch, AfterDispatch, GoTo, tree, ears
<1>4. /\ taskPc' \in [Loopers -> {"none", "lock", "scan", "dispatch", "wait", "exited"}]
      /\ taskPc'[r] = p /\ \A q \in Loopers : q # r => taskPc'[q] = taskPc[q]
  BY <1>2, <1>3 DEF LoopInv, LooperTypeOK
<1>5. /\ cur' \in [Loopers -> Loopers] /\ cur'[r] = IF p = "scan" THEN c ELSE r
      /\ \A q \in Loopers : q # r => cur'[q] = cur[q]
  BY <1>3 DEF LoopInv, LooperTypeOK
<1>6. msg' \in [Loopers -> Whats]
  BY <1>3 DEF LoopInv, LooperTypeOK, Whats
<1>7. fThread[r] /\ alive[c]
  BY <1>1, <1>3 DEF LoopInv, ThreadsAgree
<1>8. /\ queue' \in Queues /\ sem' \in [Loopers -> Nat]
      /\ \A d \in Loopers : d # c => queue'[d] = queue[d]
      /\ KeepsUp(queue', sem')
  <2>1. CASE Put(c, "_QUIT_")
    <3>1. "_QUIT_" \in Whats
      BY DEF Whats
    <3> QED BY <2>1, <3>1, PutFacts
  <2>2. CASE queue' = queue /\ sem' = sem
    BY <2>2, LoopFacts, NothingMoved DEF LoopInv, LooperTypeOK
  <2> QED BY <1>3, <2>1, <2>2
<1>9. /\ Rooted(fProxy') /\ ClientsAgree'
      /\ \A d : Top(d)' = Top(d) /\ Below(d)' = Below(d) /\ Ahead(d)' = Ahead(d)
  BY <1>3, TreeSame
<1>10. LooperTypeOK'
  BY <1>3, <1>4, <1>5, <1>6, <1>8 DEF LoopInv, LooperTypeOK, Queues
<1>11. ThreadsAgree'
  <2>1. ASSUME NEW q \in Loopers, q # r
        PROVE  /\ taskPc'[q] \in {"lock", "scan", "dispatch", "wait"} => fThread'[q]
               /\ taskPc'[q] = "exited" => ~alive'[q]
               /\ taskPc'[q] \in {"none", "lock", "wait"} => cur'[q] = q
               /\ taskPc'[q] \in {"scan", "dispatch"} => alive'[cur'[q]]
               /\ taskPc'[q] = "scan" => Top(cur[q])' = q
    BY <1>3, <1>4, <1>5, <1>9, <2>1 DEF LoopInv, ThreadsAgree
  <2>2. taskPc'[r] = "scan" => Top(c)' = r /\ cur'[r] = c
    BY <1>2, <1>4, <1>5, <1>9
  <2>3. taskPc'[r] = "lock" => cur'[r] = r
    BY <1>2, <1>4, <1>5
  <2>4. \A l \in Loopers : ~alive'[l] => queue'[l] = <<>> /\ ~fThread'[l]
    BY <1>3, <1>7, <1>8 DEF LoopInv, ThreadsAgree
  <2> QED BY <1>2, <1>3, <1>4, <1>5, <1>7, <1>9, <2>1, <2>2, <2>3, <2>4 DEF ThreadsAgree
<1>12. EarsAgree' /\ \A q \in Loopers : OwnEars(q)' => OwnEars(q)
  BY <1>3, EarsSame
<1>13. LocksApart'
  <2>1. \A q \in Loopers : \A x : Holds(q, x)' => Holds(q, x)
    BY <1>2, <1>3, <1>4, <1>5, <1>9 DEF Holds
  <2> QED BY <2>1 DEF LoopInv, LocksApart
<1>14. TokensSuffice'
  <2>1. \A q \in Loopers : \/ taskPc'[q] = taskPc[q] /\ cur'[q] = cur[q]
                           \/ taskPc[q] \notin {"lock", "scan"}
    BY <1>3, <1>4, <1>5
  <2> QED BY <1>3, <1>8, <1>9, <1>12, <2>1, TokensKept
<1> QED BY <1>9, <1>10, <1>11, <1>12, <1>13, <1>14 DEF LoopInv

LEMMA LoopAcquire ==
    ASSUME LoopInv, NEW r \in Loopers, AcquireSem(r)
    PROVE  LoopInv'
<1>1. /\ taskPc[r] = "wait" /\ taskPc' = [taskPc EXCEPT ![r] = "lock"]
      /\ \/ hears[r] = None /\ strays > 0 /\ strays' = strays - 1 /\ sem' = sem
         \/ /\ hears[r] # None /\ sem[hears[r]] > 0 /\ strays' = strays
            /\ sem' = [sem EXCEPT ![hears[r]] = sem[hears[r]] - 1]
      /\ fProxy' = fProxy /\ fClients' = fClients /\ alive' = alive /\ fThread' = fThread
      /\ fDeconstructing' = fDeconstructing /\ cur' = cur /\ msg' = msg
      /\ moves' = moves /\ queue' = queue /\ posts' = posts /\ hears' = hears
  BY DEF AcquireSem, tree
<1>2. /\ taskPc' \in [Loopers -> {"none", "lock", "scan", "dispatch", "wait", "exited"}]
      /\ taskPc'[r] = "lock" /\ \A q \in Loopers : q # r => taskPc'[q] = taskPc[q]
  BY <1>1 DEF LoopInv, LooperTypeOK
<1>3. /\ sem' \in [Loopers -> Nat] /\ strays' \in Nat
      /\ OwnEars(r) => sem[r] > 0 /\ sem'[r] = sem[r] - 1
      /\ \A q \in Loopers : q # r /\ OwnEars(q) => sem'[q] = sem[q]
  <2>1. /\ sem \in [Loopers -> Nat] /\ strays \in Nat /\ None \notin Loopers
        /\ hears[r] \in Loopers \cup {None}
    BY LoopFacts DEF LoopInv, LooperTypeOK
  <2>2. CASE hears[r] = None /\ strays > 0 /\ strays' = strays - 1 /\ sem' = sem
    <3>1. ~OwnEars(r)
      BY <2>1, <2>2 DEF OwnEars
    <3>2. strays' \in Nat
      BY <2>1, <2>2
    <3> QED BY <2>1, <2>2, <3>1, <3>2
  <2>3. CASE /\ hears[r] # None /\ sem[hears[r]] > 0 /\ strays' = strays
             /\ sem' = [sem EXCEPT ![hears[r]] = sem[hears[r]] - 1]
    <3>1. PICK z \in Loopers : z = hears[r]
      BY <2>1, <2>3
    <3>2. sem[z] - 1 \in Nat /\ sem[z] > 0
      BY <2>1, <2>3, <3>1
    <3>3. /\ sem' \in [Loopers -> Nat] /\ sem'[z] = sem[z] - 1
          /\ \A q \in Loopers : q # z => sem'[q] = sem[q]
      BY <2>1, <2>3, <3>1, <3>2
    <3>4. OwnEars(r) => z = r
      BY <3>1 DEF OwnEars
    <3>5. ASSUME NEW q \in Loopers, q # r, OwnEars(q) PROVE q # z
      BY <3>1, <3>5 DEF OwnEars
    <3> QED BY <2>1, <2>3, <3>2, <3>3, <3>4, <3>5
  <2> QED BY <1>1, <2>2, <2>3
<1>4. fThread[r] /\ cur[r] = r
  BY <1>1 DEF LoopInv, ThreadsAgree
<1>5. fProxy[r] = None
  BY <1>4, ThreadIsRoot
<1>6. /\ Rooted(fProxy') /\ ClientsAgree'
      /\ \A d : Top(d)' = Top(d) /\ Below(d)' = Below(d) /\ Ahead(d)' = Ahead(d)
  BY <1>1, TreeSame
<1>7. LooperTypeOK'
  BY <1>1, <1>2, <1>3 DEF LoopInv, LooperTypeOK
<1>8. ThreadsAgree'
  BY <1>1, <1>2, <1>4, <1>6 DEF LoopInv, ThreadsAgree
<1>9. LocksApart'
  <2>1. \A q \in Loopers : \A x : Holds(q, x)' => Holds(q, x)
    BY <1>1, <1>2, <1>6 DEF Holds
  <2> QED BY <2>1 DEF LoopInv, LocksApart
<1>10. EarsAgree' /\ \A q \in Loopers : OwnEars(q)' => OwnEars(q)
  BY <1>1, EarsSame
<1>11. TokensSuffice'
  <2>1. OwnEars(r) => Num(queue, Below(r)) <= sem[r]
    BY <1>1, <1>5 DEF LoopInv, TokensSuffice
  <2>2. OwnEars(r) => Num(queue', Below(r)) <= sem'[r] + 1
    <3>1. Num(queue, Below(r)) \in Nat /\ sem[r] \in Nat
      BY LoopFacts
    <3> QED BY <1>1, <1>3, <2>1, <3>1
  <2> QED BY <1>1, <1>2, <1>3, <1>6, <1>10, <2>2, TokensOf
<1> QED BY <1>6, <1>7, <1>8, <1>9, <1>10, <1>11 DEF LoopInv

LEMMA LoopQuitThread ==
    ASSUME LoopInv, NEW l \in Loopers, Quit(l), fThread[l]
    PROVE  LoopInv'
<1>1. /\ alive[l] /\ Put(l, "_QUIT_")
      /\ fDeconstructing' = [fDeconstructing EXCEPT ![l] = TRUE]
      /\ fProxy' = fProxy /\ fClients' = fClients /\ alive' = alive /\ fThread' = fThread
      /\ taskPc' = taskPc /\ cur' = cur /\ msg' = msg
      /\ moves' = moves /\ hears' = hears /\ strays' = strays /\ posts' = posts
  BY DEF Quit, tree, loop, ears
<1>2. /\ queue' \in Queues /\ sem' \in [Loopers -> Nat]
      /\ \A d \in Loopers : d # l => queue'[d] = queue[d]
      /\ KeepsUp(queue', sem')
  <2>1. "_QUIT_" \in Whats
    BY DEF Whats
  <2> QED BY <1>1, <2>1, PutFacts
<1>3. /\ Rooted(fProxy') /\ ClientsAgree'
      /\ \A d : Top(d)' = Top(d) /\ Below(d)' = Below(d) /\ Ahead(d)' = Ahead(d)
  BY <1>1, TreeSame
<1>4. LooperTypeOK'
  <2>1. fDeconstructing' \in [Loopers -> BOOLEAN]
    BY <1>1 DEF LoopInv, LooperTypeOK
  <2> QED BY <1>1, <1>2, <2>1 DEF LoopInv, LooperTypeOK, Queues
<1>5. ThreadsAgree' /\ LocksApart'
  BY <1>1, <1>2, <1>3, RoundsKept
<1>6. EarsAgree' /\ \A r \in Loopers : OwnEars(r)' => OwnEars(r)
  BY <1>1, EarsSame
<1>7. TokensSuffice'
  BY <1>1, <1>2, <1>3, <1>6, TokensKept
<1> QED BY <1>3, <1>4, <1>5, <1>6, <1>7 DEF LoopInv


-----------------------------------------------------------------------------
(* Steps that change the trees *)

LEMMA RemovedFacts ==
    ASSUME NEW s \in Seq(Loopers), Distinct(s), NEW k \in 1..Len(s),
           NEW t, t = RemoveAt(s, k)
    PROVE  /\ t \in Seq(Loopers) /\ Distinct(t)
           /\ \A d \in Loopers : Among(t, d) <=> Among(s, d) /\ d # s[k]
<1>1. PICK n \in Nat : n = Len(s)
  BY LenProperties
<1>2. k \in 1..n /\ \A i \in 1..n : s[i] \in Loopers
  BY <1>1
<1>3. PICK a \in Seq(Loopers) : /\ a = SubSeq(s, 1, k - 1) /\ Len(a) = k - 1
                                /\ \A i \in 1..(k - 1) : a[i] = s[i]
  <2>1. /\ SubSeq(s, 1, k - 1) \in Seq(Loopers) /\ Len(SubSeq(s, 1, k - 1)) = k - 1
        /\ \A i \in 1..(k - 1) : SubSeq(s, 1, k - 1)[i] = s[i]
    BY <1>1, <1>2
  <2> QED BY <2>1
<1>4. PICK b \in Seq(Loopers) : /\ b = SubSeq(s, k + 1, n) /\ Len(b) = n - k
                                /\ \A i \in 1..(n - k) : b[i] = s[k + i]
  <2>1. /\ SubSeq(s, k + 1, n) \in Seq(Loopers) /\ Len(SubSeq(s, k + 1, n)) = n - k
        /\ \A i \in 1..(n - k) : SubSeq(s, k + 1, n)[i] = s[k + i]
    BY <1>1, <1>2
  <2> QED BY <2>1
<1>5. t = a \o b
  BY <1>1, <1>3, <1>4 DEF RemoveAt
<1>6. t \in Seq(Loopers) /\ Len(t) = n - 1
  <2>1. t \in Seq(Loopers) /\ Len(t) = Len(a) + Len(b)
    BY <1>5
  <2> QED BY <1>2, <1>3, <1>4, <2>1
<1>7. \A i \in 1..(n - 1) : t[i] = IF i < k THEN s[i] ELSE s[i + 1]
  <2>1. ASSUME NEW i \in 1..(n - 1), i < k PROVE t[i] = s[i]
    <3>1. i \in 1..Len(a) /\ i \in 1..(k - 1)
      BY <1>2, <1>3, <2>1
    <3>2. t[i] = a[i]
      BY <1>5, <3>1
    <3> QED BY <1>3, <3>1, <3>2
  <2>2. ASSUME NEW i \in 1..(n - 1), ~(i < k) PROVE t[i] = s[i + 1]
    <3>1. PICK j \in 1..(n - k) : j = i - (k - 1) /\ k + j = i + 1
      BY <1>2, <2>2
    <3>2. i \in 1..(Len(a) + Len(b)) /\ ~(i <= Len(a)) /\ i - Len(a) = j
      BY <1>2, <1>3, <1>4, <2>2, <3>1
    <3>3. t[i] = b[j]
      BY <1>5, <3>2, ConcatProperties
    <3> QED BY <1>4, <3>1, <3>3
  <2> QED BY <2>1, <2>2
<1>8. ASSUME NEW i \in 1..n, NEW j \in 1..n, s[i] = s[j] PROVE i = j
  BY <1>1, <1>8 DEF Distinct
<1>9. Distinct(t)
  <2>1. ASSUME NEW i \in 1..(n - 1), NEW j \in 1..(n - 1), t[i] = t[j] PROVE i = j
    <3> DEFINE u(x) == IF x < k THEN x ELSE x + 1
    <3>1. u(i) \in 1..n /\ u(j) \in 1..n /\ s[u(i)] = s[u(j)]
      BY <1>2, <1>7, <2>1
    <3>2. u(i) = u(j)
      BY <1>8, <3>1
    <3> QED BY <1>2, <3>2
  <2> QED BY <1>6, <2>1 DEF Distinct
<1>10. ASSUME NEW d \in Loopers, Among(t, d) PROVE Among(s, d) /\ d # s[k]
  <2>1. PICK i \in 1..(n - 1) : t[i] = d
    BY <1>6, <1>10 DEF Among
  <2>2. PICK j \in 1..n : j # k /\ s[j] = d
    <3>1. CASE i < k
      <4>1. i \in 1..n /\ i # k /\ s[i] = d
        BY <1>2, <1>7, <2>1, <3>1
      <4> QED BY <4>1
    <3>2. CASE ~(i < k)
      <4>1. i + 1 \in 1..n /\ i + 1 # k /\ s[i + 1] = d
        BY <1>2, <1>7, <2>1, <3>2
      <4> QED BY <4>1
    <3> QED BY <3>1, <3>2
  <2> QED BY <1>1, <1>2, <1>8, <2>2 DEF Among
<1>11. ASSUME NEW d \in Loopers, Among(s, d), d # s[k] PROVE Among(t, d)
  <2>1. PICK j \in 1..n : s[j] = d
    BY <1>1, <1>11 DEF Among
  <2>2. j # k
    BY <1>11, <2>1
  <2>3. CASE j < k
    <3>1. j \in 1..(n - 1) /\ t[j] = d
      BY <1>2, <1>7, <2>1, <2>3
    <3> QED BY <1>6, <3>1 DEF Among
  <2>4. CASE j > k
    <3>1. j - 1 \in 1..(n - 1) /\ ~(j - 1 < k) /\ (j - 1) + 1 = j
      BY <1>2, <2>4
    <3>2. t[j - 1] = d
      BY <1>7, <2>1, <3>1
    <3> QED BY <1>6, <3>1, <3>2 DEF Among
  <2> QED BY <1>2, <2>2, <2>3, <2>4
<1> QED BY <1>6, <1>9, <1>10, <1>11

\* The clients once l has left its proxy.
LEMMA WithoutFacts ==
    ASSUME LoopInv, NEW l \in Loopers, NEW w, w = Without(l)
    PROVE  /\ w \in [Loopers -> Seq(Loopers)]
           /\ \A m \in Loopers : Distinct(w[m])
           /\ \A m, d \in Loopers : Among(w[m], d) <=> (fProxy[d] = m /\ d # l)
           /\ \A m \in Loopers : m # fProxy[l] => w[m] = fClients[m]
<1>1. /\ fClients \in [Loopers -> Seq(Loopers)]
      /\ \A m \in Loopers : Distinct(fClients[m])
      /\ \A m, d \in Loopers : Among(fClients[m], d) <=> fProxy[d] = m
  BY DEF LoopInv, LooperTypeOK, ClientsAgree
<1>2. CASE fProxy[l] = None
  <2>1. w = fClients
    BY <1>2 DEF Without
  <2>2. ASSUME NEW m \in Loopers PROVE fProxy[l] # m
    BY <1>2, LoopFacts
  <2> QED BY <1>1, <2>1, <2>2
<1>3. CASE fProxy[l] # None
  <2>1. PICK p \in Loopers : p = fProxy[l]
    BY <1>3, LoopFacts DEF Proxying
  <2>2. PICK s \in Seq(Loopers) : s = fClients[p]
    BY <1>1
  <2>3. Distinct(s) /\ Among(s, l)
    BY <1>1, <2>1, <2>2
  <2>4. PICK k \in 1..Len(s) : k = IndexOf(s, l) /\ s[k] = l
    BY <2>3 DEF Among, IndexOf
  <2>5. PICK t : t = RemoveAt(s, k)
    OBVIOUS
  <2>6. /\ t \in Seq(Loopers) /\ Distinct(t)
        /\ \A d \in Loopers : Among(t, d) <=> Among(s, d) /\ d # l
    BY <2>3, <2>4, <2>5, RemovedFacts
  <2>7. w = [fClients EXCEPT ![p] = t]
    BY <1>3, <2>1, <2>2, <2>4, <2>5 DEF Without
  <2>8. w \in [Loopers -> Seq(Loopers)] /\ w[p] = t
        /\ \A m \in Loopers : m # p => w[m] = fClients[m]
    BY <1>1, <2>6, <2>7
  <2>9. ASSUME NEW m \in Loopers, NEW d \in Loopers
        PROVE  Distinct(w[m]) /\ (Among(w[m], d) <=> (fProxy[d] = m /\ d # l))
    <3>1. CASE m = p
      BY <1>1, <2>2, <2>6, <2>8, <3>1
    <3>2. CASE m # p
      BY <1>1, <2>1, <2>8, <3>2
    <3> QED BY <3>1, <3>2
  <2> QED BY <2>1, <2>8, <2>9
<1> QED BY <1>2, <1>3

LEMMA AppendedFacts ==
    ASSUME NEW s \in Seq(Loopers), Distinct(s), NEW l \in Loopers, ~Among(s, l),
           NEW t, t = Append(s, l)
    PROVE  /\ t \in Seq(Loopers) /\ Distinct(t)
           /\ \A d \in Loopers : Among(t, d) <=> Among(s, d) \/ d = l
<1>1. PICK n \in Nat : n = Len(s)
  BY LenProperties
<1>2. /\ t \in Seq(Loopers) /\ Len(t) = n + 1 /\ t[n + 1] = l
      /\ \A i \in 1..n : t[i] = s[i]
  BY <1>1
<1>3. \A i \in 1..n : s[i] # l
  BY <1>1 DEF Among
<1>4. \A i \in 1..n, j \in 1..n : s[i] = s[j] => i = j
  BY <1>1 DEF Distinct
<1>5. Distinct(t)
  <2>1. ASSUME NEW i \in 1..(n + 1), NEW j \in 1..(n + 1), t[i] = t[j] PROVE i = j
    <3>1. i = n + 1 \/ i \in 1..n
      OBVIOUS
    <3>2. j = n + 1 \/ j \in 1..n
      OBVIOUS
    <3> QED BY <1>2, <1>3, <1>4, <2>1, <3>1, <3>2
  <2> QED BY <1>2, <2>1 DEF Distinct
<1>6. ASSUME NEW d \in Loopers, Among(t, d) PROVE Among(s, d) \/ d = l
  <2>1. PICK i \in 1..(n + 1) : t[i] = d
    BY <1>2, <1>6 DEF Among
  <2>2. i = n + 1 \/ i \in 1..n
    OBVIOUS
  <2> QED BY <1>1, <1>2, <2>1, <2>2 DEF Among
<1>7. ASSUME NEW d \in Loopers, Among(s, d) \/ d = l PROVE Among(t, d)
  <2>1. CASE d = l
    <3>1. n + 1 \in 1..(n + 1)
      OBVIOUS
    <3> QED BY <1>2, <2>1, <3>1 DEF Among
  <2>2. CASE Among(s, d)
    <3>1. PICK i \in 1..n : s[i] = d
      BY <1>1, <2>2 DEF Among
    <3>2. i \in 1..(n + 1) /\ t[i] = d
      BY <1>2, <3>1
    <3> QED BY <1>2, <3>2 DEF Among
  <2> QED BY <1>7, <2>1, <2>2
<1> QED BY <1>2, <1>5, <1>6, <1>7


\* Whoever holds a locker that a step takes is the thread that takes the step, in a
\* handler.
LEMMA CanLockFacts ==
    ASSUME LoopInv, NEW S \in SUBSET Loopers, CanLock(S)
    PROVE  \E h : \A l \in S : \A q \in Loopers :
               Holds(q, Top(l)) => q = h /\ taskPc[q] = "dispatch"
<1>1. CASE \A l \in S : LockFree(l)
  BY <1>1, LoopTree, LoopHolds DEF LockFree
<1>2. ASSUME NEW h \in Loopers, HandlerCanLock(h, S)
      PROVE  \A l \in S : \A q \in Loopers :
                 Holds(q, Top(l)) => q = h /\ taskPc[q] = "dispatch"
  <2>1. ASSUME NEW l \in S, NEW q \in Loopers, Holds(q, Top(l))
        PROVE  q = h /\ taskPc[q] = "dispatch"
    <3>1. taskPc[h] = "dispatch" /\ (LockFree(l) \/ Proxy(l) \in HeldBy(h))
      BY <1>2 DEF HandlerCanLock
    <3>2. ~LockFree(l)
      BY <2>1, LoopTree, LoopHolds DEF LockFree
    <3>3. Holds(h, Top(l))
      BY <3>1, <3>2, LoopTree, LoopHolds
    <3>4. PICK x \in Loopers : x = Top(l)
      BY LoopFacts
    <3>5. q = h
      BY <2>1, <3>3, <3>4 DEF LoopInv, LocksApart
    <3> QED BY <3>1, <3>5
  <2> QED BY <2>1
<1> QED BY <1>1, <1>2 DEF CanLock

\* Fewer loopers, and some of them without their messages.
LEMMA NumFewer ==
    ASSUME NEW q \in Queues, NEW e \in Queues, NEW S \in SUBSET Loopers, NEW U \in SUBSET S,
           \A d \in U : e[d] = q[d] \/ e[d] = <<>>, IsFiniteSet(Loopers)
    PROVE  Num(e, U) <= Num(q, S) /\ Num(e, U) \in Nat /\ Num(q, S) \in Nat
<1>1. \A d \in U : Lens(e)[d] = Lens(q)[d] \/ Lens(e)[d] = 0
  BY LensType
<1>2. 1..0 = {}
  OBVIOUS
<1>3. \A x : x \in LockSet(Lens(e), U) => x \in LockSet(Lens(q), S)
  BY <1>1, <1>2, InLockSet
<1>4. LockSet(Lens(e), U) \in SUBSET LockSet(Lens(q), S)
  BY <1>3
<1>5. IsFiniteSet(LockSet(Lens(q), S))
  BY LensType, LockSetFinite
<1>6. Cardinality(LockSet(Lens(e), U)) <= Cardinality(LockSet(Lens(q), S))
  BY <1>4, <1>5, FS_Subset
<1>7. U \in SUBSET Loopers
  OBVIOUS
<1> QED BY <1>6, <1>7, NumType DEF Num

\* A round in a tree that no looper leaves and no looper joins.
LEMMA RoundLeftAlone ==
    ASSUME LoopInv, NEW q \in Loopers, fProxy[q] = None,
           Top(cur[q]) = q, cur'[q] = cur[q], fProxy' \in Proxying, Rooted(fProxy'),
           \A d \in Loopers : Top(d) = q => fProxy'[d] = fProxy[d] /\ fClients'[d] = fClients[d],
           \A d \in Loopers : Top(d)' = q => Top(d) = q
    PROVE  /\ Below(q)' \in SUBSET Below(q) /\ Passed(q)' \in SUBSET Passed(q)
           /\ Top(cur[q])' = q
<1>1. PICK f \in Proxying : f = fProxy
  BY LoopFacts
<1>2. PICK g \in Proxying : g = fProxy'
  OBVIOUS
<1>3. PICK c \in Loopers : c = cur[q]
  BY LoopFacts
<1>4. None \notin Loopers /\ Rooted(f) /\ Rooted(g) /\ f[q] = None /\ Root(f, c) = q
  BY <1>1, <1>2, <1>3, LoopFacts DEF Top
<1>5. \A d \in Loopers : Root(f, d) = q => g[d] = f[d] /\ fClients'[d] = fClients[d]
  BY <1>1, <1>2 DEF Top
<1>6. \A d \in Loopers : Root(g, d) = q => Root(f, d) = q
  BY <1>1, <1>2 DEF Top
<1>7. ASSUME NEW d \in Loopers, Root(f, d) = q
      PROVE  AndAbove(g, d) = AndAbove(f, d) /\ Root(g, d) = q
  BY <1>4, <1>5, <1>7, TreeLeftAlone
<1>8. g[q] = None
  <2>1. Root(f, q) = q
    BY <1>4, RootFacts
  <2> QED BY <1>4, <1>5, <2>1
<1>9. ASSUME NEW d \in AndUnder(g, q) PROVE d \in AndUnder(f, q)
  <2>1. d \in Loopers
    BY DEF AndUnder
  <2> QED BY <1>4, <1>6, <1>8, <2>1, UnderRoot
<1>10. ASSUME NEW a \in Loopers, Root(f, a) = q, NEW x \in AndUnder(f, a)
       PROVE  Root(f, x) = q /\ x \in AndUnder(g, a)
  <2>1. x \in Loopers /\ a \in AndAbove(f, x)
    BY DEF AndUnder
  <2>2. Root(f, x) = q
    BY <1>4, <1>10, <2>1, RootFacts
  <2> QED BY <1>7, <2>1, <2>2 DEF AndUnder
<1>11. ASSUME NEW x \in Ahead(c) PROVE x \in Ahead(c)'
  <2>1. x \in Loopers
    BY DEF Ahead
  <2>2. CASE x \in Below(c) /\ x # c
    BY <1>1, <1>2, <1>4, <1>10, <2>1, <2>2 DEF Ahead, Below
  <2>3. ASSUME NEW a \in AndAbove(f, c), f[a] # None, NEW s \in Behind(a), x \in Below(s)
        PROVE  x \in Ahead(c)'
    <3>1. a \in Loopers /\ Root(f, a) = q /\ f[a] \in AndAbove(f, c)
          /\ f[a] \in Loopers
      BY <1>4, <2>3, AboveClosed, RootFacts DEF Upwards
    <3>2. Root(f, f[a]) = q
      BY <1>4, <3>1, RootFacts
    <3>3. g[a] = f[a] /\ fClients'[f[a]] = fClients[f[a]] /\ a \in AndAbove(g, c)
      BY <1>4, <1>5, <1>7, <3>1, <3>2
    <3>4. s \in Behind(a)'
      BY <1>1, <1>2, <3>3 DEF Behind
    <3>5. s \in Loopers /\ f[s] = f[a]
      BY <1>1, <3>1 DEF Behind, LoopInv, ClientsAgree, Among
    <3>6. Root(f, s) = q
      <4>1. f[s] \in AndAbove(f, s)
        BY <1>4, <2>3, <3>5, AboveClosed DEF Upwards
      <4> QED BY <1>4, <3>2, <3>5, <4>1, RootFacts
    <3>7. x \in AndUnder(g, s)
      BY <1>1, <1>10, <2>3, <3>5, <3>6 DEF Below
    <3> QED BY <1>2, <2>1, <2>3, <3>3, <3>4, <3>7 DEF Ahead, Below
  <2> QED BY <1>1, <2>2, <2>3 DEF Ahead
<1>12. Below(q)' \in SUBSET Below(q)
  BY <1>1, <1>2, <1>9 DEF Below
<1>13. Passed(q)' \in SUBSET Passed(q)
  BY <1>3, <1>11, <1>12 DEF Passed
<1>14. Top(cur[q])' = q
  BY <1>2, <1>3, <1>4, <1>7 DEF Top
<1> QED BY <1>12, <1>13, <1>14

\* What is to be shown of each root, one that was a root before or one with tokens
\* for all of its messages.
LEMMA TokensMoved ==
    ASSUME LoopInv, sem' \in [Loopers -> Nat],
           \A x \in Loopers : fProxy'[x] = None /\ OwnEars(x)' =>
             /\ Num(queue', Below(x)') \in Nat
             /\ \/ Num(queue', Below(x)') <= sem'[x]
                \/ /\ fProxy[x] = None /\ OwnEars(x)
                   /\ Num(queue, Below(x)) <= sem[x] => Num(queue', Below(x)') <= sem'[x]
                   /\ Num(queue, Below(x)) <= sem[x] + 1 =>
                        Num(queue', Below(x)') <= sem'[x] + 1
                   /\ \/ taskPc'[x] = taskPc[x]
                      \/ taskPc[x] = "scan" /\ taskPc'[x] = "lock"
                   /\ taskPc'[x] = "scan" => (Num(queue, Passed(x)) <= sem[x] =>
                                                 Num(queue', Passed(x)') <= sem'[x])
    PROVE  TokensSuffice'
<1>1. ASSUME NEW x \in Loopers, fProxy'[x] = None, OwnEars(x)'
      PROVE  /\ taskPc'[x] \notin {"lock", "scan"} => Num(queue', Below(x)') <= sem'[x]
             /\ taskPc'[x] \in {"lock", "scan"} => Num(queue', Below(x)') <= sem'[x] + 1
             /\ taskPc'[x] = "scan" => \/ Num(queue', Below(x)') <= sem'[x]
                                       \/ Num(queue', Passed(x)') <= sem'[x]
  <2>1. CASE Num(queue', Below(x)') <= sem'[x]
    <3>1. Num(queue', Below(x)') \in Nat /\ sem'[x] \in Nat
      BY <1>1
    <3> QED BY <2>1, <3>1
  <2>2. CASE ~(Num(queue', Below(x)') <= sem'[x])
    <3>1. /\ fProxy[x] = None /\ OwnEars(x)
          /\ Num(queue, Below(x)) <= sem[x] => Num(queue', Below(x)') <= sem'[x]
          /\ Num(queue, Below(x)) <= sem[x] + 1 => Num(queue', Below(x)') <= sem'[x] + 1
          /\ \/ taskPc'[x] = taskPc[x]
             \/ taskPc[x] = "scan" /\ taskPc'[x] = "lock"
          /\ taskPc'[x] = "scan" => (Num(queue, Passed(x)) <= sem[x] =>
                                        Num(queue', Passed(x)') <= sem'[x])
      BY <1>1, <2>2
    <3> QED BY <2>2, <3>1 DEF LoopInv, TokensSuffice
  <2> QED BY <2>1, <2>2
<1> QED BY <1>1 DEF TokensSuffice

\* Loopers that leave share their lockers with nobody new.
LEMMA LocksCut ==
    ASSUME LoopInv, fProxy' \in Proxying,
           \A d \in Loopers : fProxy'[d] = None \/ fProxy'[d] = fProxy[d],
           \A q \in Loopers : taskPc'[q] \in {"scan", "dispatch"} =>
               taskPc'[q] = taskPc[q] /\ cur'[q] = cur[q]
    PROVE  LocksApart'
<1>1. PICK f \in Proxying : f = fProxy
  BY LoopFacts
<1>2. PICK g \in Proxying : g = fProxy'
  OBVIOUS
<1>3. None \notin Loopers /\ Rooted(f)
  BY <1>1, LoopFacts
<1>4. \A d \in Loopers : g[d] = None \/ g[d] = f[d]
  BY <1>1, <1>2
<1>5. \A d \in Loopers : Root(f, Root(g, d)) = Root(f, d)
  BY <1>3, <1>4, CutTree
<1>6. ASSUME NEW q \in Loopers, NEW x \in Loopers, Holds(q, x)' PROVE Holds(q, Top(x))
  <2>1. taskPc[q] = taskPc'[q] /\ cur'[q] = cur[q] /\ taskPc[q] \in {"scan", "dispatch"}
    BY <1>6 DEF Holds
  <2>2. Top(q) = q
    BY <2>1, ThreadIsRoot DEF LoopInv, ThreadsAgree
  <2>3. CASE x = q
    BY <2>1, <2>2, <2>3 DEF Holds
  <2>4. CASE taskPc'[q] = "dispatch" /\ x = Top(cur[q])'
    <3>1. PICK c \in Loopers : c = cur[q]
      BY LoopFacts
    <3>2. x = Root(g, c)
      BY <1>2, <2>1, <2>4, <3>1 DEF Top
    <3>3. Top(x) = Top(c)
      BY <1>1, <1>5, <3>2 DEF Top
    <3> QED BY <2>1, <2>4, <3>1, <3>3 DEF Holds
  <2> QED BY <1>6, <2>3, <2>4 DEF Holds
<1>7. \A x \in Loopers : Top(x) \in Loopers
  BY LoopFacts
<1> QED BY <1>6, <1>7 DEF LoopInv, LocksApart


\* Loopers of the tree of t leave their proxies.
LEMMA CutStep ==
    ASSUME LoopInv, NEW t \in Loopers, fProxy' \in Proxying,
           \A d \in Loopers : fProxy'[d] = None \/ fProxy'[d] = fProxy[d],
           \A d \in Loopers : Top(d) # t => fProxy'[d] = fProxy[d] /\ fClients'[d] = fClients[d],
           queue' \in Queues, \A d \in Loopers : queue'[d] = queue[d] \/ queue'[d] = <<>>,
           sem' \in [Loopers -> Nat],
           \A x \in Loopers : fProxy'[x] = None /\ OwnEars(x)' =>
               \/ Num(queue', Below(x)') <= sem'[x]
               \/ /\ fProxy[x] = None /\ OwnEars(x) /\ sem'[x] = sem[x]
                  /\ \/ taskPc'[x] = taskPc[x]
                     \/ taskPc[x] = "scan" /\ taskPc'[x] = "lock",
           \A q \in Loopers : taskPc'[q] \in {"scan", "dispatch"} =>
               /\ taskPc'[q] = taskPc[q] /\ cur'[q] = cur[q]
               /\ taskPc[q] = "scan" => q # t
    PROVE  /\ Rooted(fProxy') /\ LocksApart' /\ TokensSuffice'
           /\ \A q \in Loopers : taskPc'[q] = "scan" => Top(cur[q])' = q
           /\ \A x \in Loopers : Num(queue', Below(x)') <= Num(queue, Below(x))
<1>1. PICK f \in Proxying : f = fProxy
  BY LoopFacts
<1>2. PICK g \in Proxying : g = fProxy'
  OBVIOUS
<1>3. None \notin Loopers /\ Rooted(f) /\ IsFiniteSet(Loopers) /\ queue \in Queues
  BY <1>1, LoopFacts
<1>4. \A d \in Loopers : g[d] = None \/ g[d] = f[d]
  BY <1>1, <1>2
<1>5. /\ Rooted(g)
      /\ \A d \in Loopers : /\ AndUnder(g, d) \subseteq AndUnder(f, d)
                            /\ Root(g, d) \in AndAbove(f, d)
                            /\ Root(f, Root(g, d)) = Root(f, d)
  BY <1>3, <1>4, CutTree
<1>6. Rooted(fProxy')
  BY <1>2, <1>5
<1>7. LocksApart'
  BY LocksCut
<1>8. ASSUME NEW x \in Loopers
      PROVE  /\ Num(queue', Below(x)') <= Num(queue, Below(x))
             /\ Num(queue', Below(x)') \in Nat /\ Num(queue, Below(x)) \in Nat
  <2>1. Below(x)' \in SUBSET Below(x) /\ Below(x) \in SUBSET Loopers
    BY <1>1, <1>2, <1>5, LoopFacts DEF Below
  <2> QED BY <1>3, <2>1, NumFewer
<1>9. ASSUME NEW q \in Loopers, taskPc'[q] = "scan"
      PROVE  /\ fProxy[q] = None /\ Top(cur[q])' = q
             /\ Num(queue', Passed(q)') <= Num(queue, Passed(q))
             /\ Num(queue', Passed(q)') \in Nat /\ Num(queue, Passed(q)) \in Nat
  <2>1. taskPc[q] = "scan" /\ cur'[q] = cur[q] /\ q # t
    BY <1>9
  <2>2. fProxy[q] = None /\ Top(q) = q /\ Top(cur[q]) = q
    BY <2>1, ThreadIsRoot DEF LoopInv, ThreadsAgree
  <2>3. ASSUME NEW d \in Loopers, Top(d) = q
        PROVE  fProxy'[d] = fProxy[d] /\ fClients'[d] = fClients[d]
    BY <2>1, <2>3
  <2>4. ASSUME NEW d \in Loopers, Top(d)' = q PROVE Top(d) = q
    <3>1. Root(g, d) = q
      BY <1>2, <2>4 DEF Top
    <3>2. Root(f, q) = q
      BY <1>1, <2>2 DEF Top
    <3>3. Root(f, d) = q
      BY <1>5, <3>1, <3>2
    <3> QED BY <1>1, <3>3 DEF Top
  <2>5. Passed(q)' \in SUBSET Passed(q) /\ Top(cur[q])' = q
    BY <1>6, <2>1, <2>2, <2>3, <2>4, RoundLeftAlone
  <2>6. Passed(q) \in SUBSET Loopers
    BY LoopFacts
  <2> QED BY <1>3, <2>2, <2>5, <2>6, NumFewer
<1>10. ASSUME NEW x \in Loopers, fProxy'[x] = None, OwnEars(x)'
       PROVE  /\ Num(queue', Below(x)') \in Nat
              /\ \/ Num(queue', Below(x)') <= sem'[x]
                 \/ /\ fProxy[x] = None /\ OwnEars(x)
                    /\ Num(queue, Below(x)) <= sem[x] => Num(queue', Below(x)') <= sem'[x]
                    /\ Num(queue, Below(x)) <= sem[x] + 1 =>
                         Num(queue', Below(x)') <= sem'[x] + 1
                    /\ \/ taskPc'[x] = taskPc[x]
                       \/ taskPc[x] = "scan" /\ taskPc'[x] = "lock"
                    /\ taskPc'[x] = "scan" => (Num(queue, Passed(x)) <= sem[x] =>
                                                  Num(queue', Passed(x)') <= sem'[x])
  <2>1. Num(queue', Below(x)') \in Nat /\ Num(queue, Below(x)) \in Nat
        /\ Num(queue', Below(x)') <= Num(queue, Below(x)) /\ sem[x] \in Nat
    BY <1>8, LoopFacts
  <2>2. CASE Num(queue', Below(x)') <= sem'[x]
    BY <2>1, <2>2
  <2>3. CASE ~(Num(queue', Below(x)') <= sem'[x])
    <3>1. /\ fProxy[x] = None /\ OwnEars(x) /\ sem'[x] = sem[x]
          /\ \/ taskPc'[x] = taskPc[x]
             \/ taskPc[x] = "scan" /\ taskPc'[x] = "lock"
      BY <1>10, <2>3
    <3>2. taskPc'[x] = "scan" => (Num(queue, Passed(x)) <= sem[x] =>
                                     Num(queue', Passed(x)') <= sem'[x])
      BY <1>9, <2>1, <3>1
    <3>3. /\ Num(queue, Below(x)) <= sem[x] => Num(queue', Below(x)') <= sem'[x]
          /\ Num(queue, Below(x)) <= sem[x] + 1 => Num(queue', Below(x)') <= sem'[x] + 1
      BY <2>1, <3>1
    <3> QED BY <2>1, <3>1, <3>2, <3>3
  <2> QED BY <2>2, <2>3
<1>11. TokensSuffice'
  BY <1>10, TokensMoved
<1> QED BY <1>6, <1>7, <1>8, <1>9, <1>11

\* A client has its proxy's root.
LEMMA ClientTop ==
    ASSUME LoopInv, NEW d \in Loopers, fProxy[d] # None
    PROVE  fProxy[d] \in Loopers /\ Top(fProxy[d]) = Top(d)
<1>1. PICK f \in Proxying : f = fProxy
  BY LoopFacts
<1>2. None \notin Loopers /\ Rooted(f)
  BY <1>1, LoopFacts
<1>3. f[d] \in Loopers /\ f[d] \in AndAbove(f, d)
  BY <1>1, <1>2, AboveClosed DEF Upwards, Proxying
<1> QED BY <1>1, <1>2, <1>3, RootFacts DEF Top

\* A looper without a thread has none that is anywhere.
LEMMA Threadless ==
    ASSUME LoopInv, NEW l \in Loopers, ~fThread[l]
    PROVE  taskPc[l] \in {"none", "exited"}
<1>1. taskPc[l] \in {"none", "lock", "scan", "dispatch", "wait", "exited"}
  BY DEF LoopInv, LooperTypeOK
<1> QED BY <1>1 DEF LoopInv, ThreadsAgree

LEMMA LoopLeave ==
    ASSUME LoopInv, NEW l \in Loopers, ProxyByNoneAlone(l) \/ ProxyByNoneRun(l)
    PROVE  LoopInv'
<1>1. PICK w : w = Without(l)
  OBVIOUS
<1>2. PICK n \in Nat : n = Num(queue, Below(l))
  BY LoopFacts
<1>3. /\ fProxy[l] # None /\ CanLock({l}) /\ moves < MaxMoves /\ moves' = moves + 1
      /\ fProxy' = [fProxy EXCEPT ![l] = None] /\ fClients' = w
      /\ sem' = [sem EXCEPT ![l] = n]
      /\ alive' = alive /\ fDeconstructing' = fDeconstructing /\ strays' = strays
      /\ queue' = queue /\ cur' = cur /\ msg' = msg /\ posts' = posts
  <2>1. ProxyByNone(l)
    BY DEF ProxyByNoneAlone, ProxyByNoneRun
  <2> QED BY <1>1, <1>2, <2>1, LoopFacts, LoopCount DEF ProxyByNone, Leave
<1>4. PICK t \in Loopers : t = Top(l)
  BY LoopFacts
<1>5. /\ l # t /\ fProxy[t] = None /\ alive[l] /\ ~fThread[l] /\ hears[l] = l
      /\ taskPc[l] \in {"none", "exited"}
  <2>1. alive[l] /\ ~fThread[l]
    BY <1>3 DEF LoopInv, ClientsAgree
  <2>2. fProxy[t] = None
    BY <1>4, LoopFacts, RootFacts DEF Top
  <2> QED BY <1>3, <2>1, <2>2, Threadless DEF LoopInv, EarsAgree
<1>6. /\ fThread' \in [Loopers -> BOOLEAN]
      /\ taskPc' \in [Loopers -> {"none", "lock", "scan", "dispatch", "wait", "exited"}]
      /\ hears' \in [Loopers -> Loopers \cup {None}]
      /\ \A d \in Loopers : d # l =>
           fThread'[d] = fThread[d] /\ taskPc'[d] = taskPc[d] /\ hears'[d] = hears[d]
      /\ \/ fThread'[l] = fThread[l] /\ taskPc'[l] = taskPc[l] /\ hears'[l] = hears[l]
         \/ fThread'[l] /\ taskPc'[l] = "lock" /\ hears'[l] = t
  <2>1. /\ fThread \in [Loopers -> BOOLEAN] /\ hears \in [Loopers -> Loopers \cup {None}]
        /\ taskPc \in [Loopers -> {"none", "lock", "scan", "dispatch", "wait", "exited"}]
    BY DEF LoopInv, LooperTypeOK
  <2>2. CASE ProxyByNoneAlone(l)
    BY <2>1, <2>2 DEF ProxyByNoneAlone
  <2>3. CASE ProxyByNoneRun(l)
    <3>1. /\ fThread' = [d \in Loopers |-> d \in {l} \/ fThread[d]]
          /\ taskPc' = [d \in Loopers |-> IF d \in {l} THEN "lock" ELSE taskPc[d]]
          /\ hears' = [hears EXCEPT ![l] = t]
      BY <1>4, <2>3, LoopTree DEF ProxyByNoneRun, Start, Started
    <3>2. /\ fThread' \in [Loopers -> BOOLEAN] /\ fThread'[l]
          /\ \A d \in Loopers : d # l => fThread'[d] = fThread[d]
      BY <2>1, <3>1
    <3>3. /\ taskPc' \in [Loopers -> {"none", "lock", "scan", "dispatch", "wait", "exited"}]
          /\ taskPc'[l] = "lock" /\ \A d \in Loopers : d # l => taskPc'[d] = taskPc[d]
      BY <2>1, <3>1
    <3>4. /\ hears' \in [Loopers -> Loopers \cup {None}] /\ hears'[l] = t
          /\ \A d \in Loopers : d # l => hears'[d] = hears[d]
      BY <2>1, <3>1
    <3> QED BY <3>2, <3>3, <3>4
  <2> QED BY <2>2, <2>3
<1>7. /\ EarsAgree'
      /\ \A x \in Loopers : x # l /\ OwnEars(x)' => OwnEars(x)
  <2>1. ASSUME NEW x \in Loopers, x # l, OwnEars(x)' PROVE OwnEars(x)
    <3>1. ASSUME NEW d \in Loopers PROVE (hears[d] = x) = (d = x)
      BY <1>5, <1>6, <2>1 DEF OwnEars
    <3> QED BY <3>1 DEF OwnEars
  <2>2. EarsAgree'
    BY <1>3, <1>5, <1>6 DEF LoopInv, EarsAgree
  <2> QED BY <2>1, <2>2
<1>8. /\ w \in [Loopers -> Seq(Loopers)]
      /\ \A m \in Loopers : Distinct(w[m])
      /\ \A m, d \in Loopers : Among(w[m], d) <=> (fProxy[d] = m /\ d # l)
      /\ \A m \in Loopers : m # fProxy[l] => w[m] = fClients[m]
  BY <1>1, WithoutFacts
<1>9. /\ fProxy' \in Proxying /\ fProxy'[l] = None
      /\ \A d \in Loopers : d # l => fProxy'[d] = fProxy[d]
  BY <1>3, LoopFacts DEF Proxying
<1>10. /\ sem' \in [Loopers -> Nat] /\ sem'[l] = n
       /\ \A d \in Loopers : d # l => sem'[d] = sem[d]
  BY <1>3 DEF LoopInv, LooperTypeOK
<1>11. LooperTypeOK'
  <2>1. moves' \in 0..MaxMoves
    BY <1>3, LooperAssumption DEF LoopInv, LooperTypeOK
  <2> QED BY <1>3, <1>6, <1>8, <1>9, <1>10, <2>1 DEF LoopInv, LooperTypeOK, Proxying
<1>12. ClientsAgree'
  <2>1. ASSUME NEW m \in Loopers, NEW d \in Loopers
        PROVE  Among(w[m], d) <=> fProxy'[d] = m
    <3>1. m # None
      BY LoopFacts
    <3> QED BY <1>8, <1>9, <3>1
  <2>2. ASSUME NEW d \in Loopers, fProxy'[d] # None
        PROVE  alive'[d] /\ alive'[fProxy'[d]] /\ ~fThread'[d]
    BY <1>3, <1>6, <1>9, <2>2 DEF LoopInv, ClientsAgree
  <2> QED BY <1>3, <1>8, <2>1, <2>2 DEF ClientsAgree
<1>13. ASSUME NEW q \in Loopers, taskPc[q] = "scan" PROVE q # t
  <2>1. PICK h : \A k \in {l} : \A p \in Loopers :
                     Holds(p, Top(k)) => p = h /\ taskPc[p] = "dispatch"
    BY <1>3, CanLockFacts
  <2> QED BY <1>4, <1>13, <2>1 DEF Holds
<1>14. ASSUME NEW d \in Loopers, Top(d) # t
       PROVE  fProxy'[d] = fProxy[d] /\ fClients'[d] = fClients[d]
  BY <1>3, <1>4, <1>8, <1>9, <1>14, ClientTop
<1>15. ASSUME NEW x \in Loopers, fProxy'[x] = None, OwnEars(x)'
       PROVE  \/ Num(queue', Below(x)') <= sem'[x]
              \/ /\ fProxy[x] = None /\ OwnEars(x) /\ sem'[x] = sem[x]
                 /\ taskPc'[x] = taskPc[x]
  <2>1. CASE x # l
    BY <1>6, <1>7, <1>9, <1>10, <1>15, <2>1
  <2>2. CASE x = l
    <3>1. Below(l)' \in SUBSET Below(l)
      <4>1. PICK f \in Proxying : f = fProxy
        BY LoopFacts
      <4>2. PICK g \in Proxying : g = fProxy'
        BY <1>9
      <4>3. \A d \in Loopers : g[d] = None \/ g[d] = f[d]
        BY <1>9, <4>1, <4>2
      <4>4. AndUnder(g, l) \subseteq AndUnder(f, l)
        BY <4>1, <4>3, CutTree, LoopFacts
      <4> QED BY <4>1, <4>2, <4>4 DEF Below
    <3>2. Num(queue, Below(l)') <= Num(queue, Below(l))
      BY <3>1, LoopFacts, NumLess
    <3> QED BY <1>2, <1>3, <1>10, <2>2, <3>2
  <2> QED BY <2>1, <2>2
<1>16. /\ Rooted(fProxy') /\ LocksApart' /\ TokensSuffice'
       /\ \A q \in Loopers : taskPc'[q] = "scan" => Top(cur[q])' = q
  <2>1. queue' \in Queues /\ \A d \in Loopers : queue'[d] = queue[d] \/ queue'[d] = <<>>
    BY <1>3, LoopFacts
  <2>2. \A d \in Loopers : fProxy'[d] = None \/ fProxy'[d] = fProxy[d]
    BY <1>9
  <2>3. \A q \in Loopers : taskPc'[q] \in {"scan", "dispatch"} =>
               /\ taskPc'[q] = taskPc[q] /\ cur'[q] = cur[q]
               /\ taskPc[q] = "scan" => q # t
    BY <1>3, <1>5, <1>6, <1>13
  <2> QED BY <1>9, <1>10, <1>14, <1>15, <2>1, <2>2, <2>3, CutStep
<1>17. ThreadsAgree'
  BY <1>3, <1>5, <1>6, <1>16 DEF LoopInv, ThreadsAgree
<1> QED BY <1>7, <1>11, <1>12, <1>16, <1>17 DEF LoopInv


LEMMA ClientsAre ==
    ASSUME LoopInv, NEW l \in Loopers, NEW d \in Loopers
    PROVE  d \in Clients(l) <=> fProxy[d] = l
<1>1. fClients[l] \in Seq(Loopers)
  BY DEF LoopInv, LooperTypeOK
<1>2. d \in Clients(l) <=> Among(fClients[l], d)
  BY <1>1 DEF Clients, ToSet, Among
<1> QED BY <1>2 DEF LoopInv, ClientsAgree

LEMMA DeleteFacts ==
    ASSUME LoopInv, NEW l \in Loopers, NEW S \in Startable(l), Delete(l, S)
    PROVE  /\ alive' \in [Loopers -> BOOLEAN] /\ fThread' \in [Loopers -> BOOLEAN]
           /\ ~alive'[l] /\ ~fThread'[l]
           /\ \A d \in Loopers : d # l => alive'[d] = alive[d]
           /\ \A d \in Loopers : d # l => fThread'[d] = (d \in S \/ fThread[d])
           /\ \A d \in S : d \in Loopers /\ fProxy[d] = l /\ d # l
           /\ fProxy' \in Proxying
           /\ \A d \in Loopers : fProxy'[d] = IF d = l \/ fProxy[d] = l THEN None ELSE fProxy[d]
           /\ fClients' \in [Loopers -> Seq(Loopers)]
           /\ \A d \in Loopers : d # l /\ d # fProxy[l] => fClients'[d] = fClients[d]
           /\ queue' \in Queues /\ queue'[l] = <<>>
           /\ \A d \in Loopers : d # l => queue'[d] = queue[d]
           /\ sem' \in [Loopers -> Nat]
           /\ \A d \in Loopers : d # l => sem'[d] = IF fProxy[d] = l THEN Num(queue, Below(d))
                                                    ELSE sem[d]
           /\ ClientsAgree'
<1>1. PICK w : w = Without(l)
  OBVIOUS
<1>2. /\ alive' = [alive EXCEPT ![l] = FALSE]
      /\ fThread' = [d \in Loopers |-> d # l /\ (d \in S \/ fThread[d])]
      /\ fProxy' = [d \in Loopers |-> IF d = l \/ fProxy[d] = l THEN None ELSE fProxy[d]]
      /\ fClients' = [w EXCEPT ![l] = <<>>] /\ queue' = [queue EXCEPT ![l] = <<>>]
      /\ sem' = [d \in Loopers |-> IF d = l THEN 0
                                   ELSE IF d \in Clients(l)
                                          THEN CountMessages(d) ELSE sem[d]]
  BY <1>1 DEF Delete, Orphan
<1>3. \A d \in S : d \in Loopers /\ fProxy[d] = l /\ d # l
  <2>1. ASSUME NEW d \in S PROVE d \in Loopers /\ fProxy[d] = l
    <3>1. S \in SUBSET (Clients(l) \cap Runners)
      BY DEF Startable
    <3>2. d \in Clients(l) /\ d \in Loopers
      BY <2>1, <3>1, LooperAssumption
    <3> QED BY <3>2, ClientsAre
  <2>2. fProxy[l] # l
    <3>1. ASSUME fProxy[l] = l PROVE FALSE
      <4>1. PICK f \in Proxying : f = fProxy /\ Rooted(f)
        BY LoopFacts
      <4>2. Upwards(f, {l})
        BY <3>1, <4>1 DEF Upwards
      <4>3. AndAbove(f, l) \subseteq {l}
        BY <4>2, AboveIn
      <4> QED BY <3>1, <4>1, <4>3, LoopFacts DEF Rooted
    <3> QED BY <3>1
  <2> QED BY <2>1, <2>2
<1>4. /\ w \in [Loopers -> Seq(Loopers)]
      /\ \A m \in Loopers : Distinct(w[m])
      /\ \A m, d \in Loopers : Among(w[m], d) <=> (fProxy[d] = m /\ d # l)
      /\ \A m \in Loopers : m # fProxy[l] => w[m] = fClients[m]
  BY <1>1, WithoutFacts
<1>5. /\ alive' \in [Loopers -> BOOLEAN] /\ ~alive'[l]
      /\ \A d \in Loopers : d # l => alive'[d] = alive[d]
  BY <1>2 DEF LoopInv, LooperTypeOK
<1>6. /\ fThread' \in [Loopers -> BOOLEAN] /\ ~fThread'[l]
      /\ \A d \in Loopers : d # l => fThread'[d] = (d \in S \/ fThread[d])
  BY <1>2 DEF LoopInv, LooperTypeOK
<1>7. /\ fProxy' \in Proxying
      /\ \A d \in Loopers : fProxy'[d] = IF d = l \/ fProxy[d] = l THEN None ELSE fProxy[d]
  BY <1>2, LoopFacts DEF Proxying
<1>8. /\ fClients' \in [Loopers -> Seq(Loopers)] /\ fClients'[l] = <<>>
      /\ \A d \in Loopers : d # l => fClients'[d] = w[d]
  BY <1>2, <1>4
<1>9. /\ queue' \in Queues /\ queue'[l] = <<>>
      /\ \A d \in Loopers : d # l => queue'[d] = queue[d]
  BY <1>2, LoopFacts DEF Queues
<1>10. \A d \in Loopers : sem'[d] = IF d = l THEN 0 ELSE IF fProxy[d] = l
                                      THEN Num(queue, Below(d)) ELSE sem[d]
  BY <1>2, ClientsAre, LoopFacts, LoopCount
<1>11. sem' \in [Loopers -> Nat]
  <2>1. \A d \in Loopers : sem'[d] \in Nat
    BY <1>10, LoopFacts
  <2>2. sem' = [d \in Loopers |-> sem'[d]]
    BY <1>2
  <2> QED BY <2>1, <2>2
<1>12. ClientsAgree'
  <2>1. ASSUME NEW m \in Loopers
        PROVE  /\ Distinct(fClients'[m])
               /\ \A d \in Loopers : Among(fClients'[m], d) <=> fProxy'[d] = m
    <3>1. m # None
      BY LoopFacts
    <3>2. CASE m = l
      <4>1. Len(fClients'[m]) = 0 /\ 1..0 = {}
        BY <1>8, <3>2
      <4>2. \A d \in Loopers : fProxy'[d] # m
        BY <1>7, <3>1, <3>2
      <4> QED BY <4>1, <4>2 DEF Among, Distinct
    <3>3. CASE m # l
      BY <1>4, <1>7, <1>8, <3>1, <3>3
    <3> QED BY <3>2, <3>3
  <2>2. ASSUME NEW d \in Loopers, fProxy'[d] # None
        PROVE  alive'[d] /\ alive'[fProxy'[d]] /\ ~fThread'[d]
    <3>1. d # l /\ fProxy'[d] = fProxy[d] /\ fProxy[d] # l /\ fProxy[d] \in Loopers
      BY <1>7, <2>2 DEF Proxying
    <3>2. d \notin S
      BY <1>3, <3>1
    <3> QED BY <1>5, <1>6, <2>2, <3>1, <3>2 DEF LoopInv, ClientsAgree
  <2> QED BY <2>1, <2>2 DEF ClientsAgree
<1> QED BY <1>3, <1>4, <1>5, <1>6, <1>7, <1>8, <1>9, <1>10, <1>11, <1>12

\* ~BLooper, when no round is at the looper that goes and no other round is in its tree.
LEMMA DeleteStep ==
    ASSUME LoopInv, NEW l \in Loopers, NEW S \in Startable(l), Delete(l, S),
           \A q \in Loopers : taskPc'[q] \in {"scan", "dispatch"} =>
               /\ taskPc'[q] = taskPc[q] /\ cur'[q] = cur[q] /\ cur[q] # l
               /\ taskPc[q] = "scan" => q # Top(l),
           \A q \in Loopers : \/ taskPc'[q] = taskPc[q]
                              \/ taskPc[q] = "scan" /\ taskPc'[q] = "lock"
                              \/ q = l /\ taskPc'[q] = "exited"
                              \/ q \in S /\ taskPc'[q] = "lock",
           \A q \in Loopers : taskPc'[q] \in {"none", "lock", "wait"} => cur'[q] = q,
           taskPc'[l] \in {"none", "exited"},
           taskPc' \in [Loopers -> {"none", "lock", "scan", "dispatch", "wait", "exited"}],
           cur' \in [Loopers -> Loopers], msg' = msg, posts' = posts, moves' = moves,
           fDeconstructing' \in [Loopers -> BOOLEAN]
    PROVE  LoopInv'
<1>1. /\ alive' \in [Loopers -> BOOLEAN] /\ fThread' \in [Loopers -> BOOLEAN]
      /\ ~alive'[l] /\ ~fThread'[l]
      /\ \A d \in Loopers : d # l => alive'[d] = alive[d]
      /\ \A d \in Loopers : d # l => fThread'[d] = (d \in S \/ fThread[d])
  BY DeleteFacts
<1>2. /\ fProxy' \in Proxying
      /\ \A d \in Loopers : fProxy'[d] = IF d = l \/ fProxy[d] = l THEN None ELSE fProxy[d]
  BY DeleteFacts
<1>3. /\ fClients' \in [Loopers -> Seq(Loopers)]
      /\ \A d \in Loopers : d # l /\ d # fProxy[l] => fClients'[d] = fClients[d]
  BY DeleteFacts
<1>4. /\ queue' \in Queues /\ queue'[l] = <<>>
      /\ \A d \in Loopers : d # l => queue'[d] = queue[d]
  BY DeleteFacts
<1>5. /\ sem' \in [Loopers -> Nat]
      /\ \A d \in Loopers : d # l => sem'[d] = IF fProxy[d] = l THEN Num(queue, Below(d))
                                               ELSE sem[d]
  BY DeleteFacts
<1>6. ClientsAgree'
  BY DeleteFacts
<1>7. \A d \in S : d \in Loopers /\ fProxy[d] = l /\ d # l
  BY DeleteFacts
<1>8. \A d \in S : alive[d] /\ ~fThread[d] /\ hears[d] = d
  <2>1. l # None
    BY LoopFacts
  <2> QED BY <1>7, <2>1 DEF LoopInv, ClientsAgree, EarsAgree
<1>9. /\ hears' \in [Loopers -> Loopers \cup {None}] /\ strays' \in Nat
      /\ \A d \in Loopers : hears'[d] = IF d \in S \/ (d # l /\ hears[d] = l)
                                         THEN None ELSE hears[d]
  <2>1. PICK n \in Nat : Forsake(l, S, n)
    <3>1. CASE fProxy[l] = None
      BY <3>1, LoopFacts DEF Delete
    <3>2. CASE fProxy[l] # None
      BY <3>2, LoopFacts, LoopCount DEF Delete
    <3> QED BY <3>1, <3>2
  <2>2. hears \in [Loopers -> Loopers \cup {None}] /\ strays \in Nat
    BY DEF LoopInv, LooperTypeOK
  <2>3. strays' \in Nat
    BY <2>1, <2>2 DEF Forsake
  <2>4. \A d \in Loopers : hears'[d] = IF d \in S \/ (d # l /\ hears[d] = l)
                                         THEN None ELSE hears[d]
    BY <2>1 DEF Forsake
  <2>5. hears' \in [Loopers -> Loopers \cup {None}]
    BY <2>1, <2>2 DEF Forsake
  <2> QED BY <2>3, <2>4, <2>5
<1>10. ASSUME NEW x \in Loopers, x # l, OwnEars(x)' PROVE OwnEars(x) /\ x \notin S
  <2>1. None \notin Loopers
    BY LoopFacts
  <2>2. hears'[x] = x
    BY <1>10 DEF OwnEars
  <2>3. x \notin S
    BY <1>9, <2>1, <2>2
  <2>4. ASSUME NEW d \in Loopers PROVE (hears[d] = x) = (d = x)
    <3>1. (hears'[d] = x) = (d = x)
      BY <1>10 DEF OwnEars
    <3>2. CASE d \in S
      BY <1>8, <3>2
    <3>3. CASE d \notin S /\ d # l /\ hears[d] = l
      BY <1>9, <1>10, <2>1, <2>2, <3>1, <3>3
    <3>4. CASE d \notin S /\ ~(d # l /\ hears[d] = l)
      BY <1>9, <3>1, <3>4
    <3> QED BY <3>2, <3>3, <3>4
  <2> QED BY <2>3, <2>4 DEF OwnEars
<1>11. EarsAgree'
  <2>1. ASSUME NEW d \in Loopers, alive'[d], ~fThread'[d] PROVE hears'[d] = d
    <3>1. d # l /\ alive[d] /\ ~fThread[d] /\ d \notin S
      BY <1>1, <2>1
    <3>2. hears[d] = d
      BY <3>1 DEF LoopInv, EarsAgree
    <3> QED BY <1>9, <3>1, <3>2
  <2> QED BY <2>1 DEF EarsAgree
<1>12. LooperTypeOK'
  BY <1>1, <1>2, <1>3, <1>4, <1>5, <1>9 DEF LoopInv, LooperTypeOK, Proxying, Queues
<1>13. PICK t \in Loopers : t = Top(l)
  BY LoopFacts
<1>14. ASSUME NEW d \in Loopers, Top(d) # t
       PROVE  fProxy'[d] = fProxy[d] /\ fClients'[d] = fClients[d]
  <2>1. d # l
    BY <1>13, <1>14
  <2>2. fProxy[d] # l
    <3>1. l # None
      BY LoopFacts
    <3> QED BY <1>13, <1>14, <3>1, ClientTop
  <2>3. d # fProxy[l]
    <3>1. d # None
      BY LoopFacts
    <3> QED BY <1>13, <1>14, <3>1, ClientTop
  <2> QED BY <1>2, <1>3, <2>1, <2>2, <2>3
<1>15. \A d \in Loopers : fProxy'[d] = None \/ fProxy'[d] = fProxy[d]
  BY <1>2
<1>16. ASSUME NEW x \in Loopers
       PROVE  Num(queue', Below(x)') <= Num(queue, Below(x))
  <2>1. PICK f \in Proxying : f = fProxy
    BY LoopFacts
  <2>2. PICK g \in Proxying : g = fProxy'
    BY <1>2
  <2>3. \A d \in Loopers : g[d] = None \/ g[d] = f[d]
    BY <1>15, <2>1, <2>2
  <2>4. AndUnder(g, x) \subseteq AndUnder(f, x)
    BY <2>1, <2>3, CutTree, LoopFacts
  <2>5. Below(x)' \in SUBSET Below(x) /\ Below(x) \in SUBSET Loopers
    BY <2>1, <2>2, <2>4, LoopFacts DEF Below
  <2>6. \A d \in Below(x)' : queue'[d] = queue[d] \/ queue'[d] = <<>>
    BY <1>4, <2>5
  <2> QED BY <1>4, <2>5, <2>6, LoopFacts, NumFewer
<1>17. Num(queue', Below(l)') = 0
  <2>1. PICK g \in Proxying : g = fProxy'
    BY <1>2
  <2>2. \A c \in Loopers : g[c] # l
    BY <1>2, <2>1, LoopFacts
  <2>3. \A d \in AndUnder(g, l) : d = l
    BY <2>2, BelowClients, LoopFacts
  <2>4. Below(l)' \in SUBSET Loopers /\ \A d \in Below(l)' : queue'[d] = <<>>
    BY <1>4, <2>1, <2>3 DEF Below, AndUnder
  <2> QED BY <1>4, <2>4, NumZero
<1>18. ASSUME NEW x \in Loopers, fProxy'[x] = None, OwnEars(x)'
       PROVE  \/ Num(queue', Below(x)') <= sem'[x]
              \/ /\ fProxy[x] = None /\ OwnEars(x) /\ sem'[x] = sem[x]
                 /\ \/ taskPc'[x] = taskPc[x]
                    \/ taskPc[x] = "scan" /\ taskPc'[x] = "lock"
  <2>1. CASE x = l
    BY <1>5, <1>17, <2>1
  <2>2. CASE x # l /\ fProxy[x] = l
    BY <1>5, <1>16, <2>2
  <2>3. CASE x # l /\ fProxy[x] # l
    BY <1>2, <1>5, <1>10, <1>18, <2>3
  <2> QED BY <2>1, <2>2, <2>3
<1>19. /\ Rooted(fProxy') /\ LocksApart' /\ TokensSuffice'
       /\ \A q \in Loopers : taskPc'[q] = "scan" => Top(cur[q])' = q
  <2>1. \A d \in Loopers : queue'[d] = queue[d] \/ queue'[d] = <<>>
    BY <1>4
  <2>2. \A q \in Loopers : taskPc'[q] \in {"scan", "dispatch"} =>
               /\ taskPc'[q] = taskPc[q] /\ cur'[q] = cur[q]
               /\ taskPc[q] = "scan" => q # t
    BY <1>13
  <2> QED BY <1>2, <1>4, <1>5, <1>14, <1>15, <1>18, <2>1, <2>2, CutStep
<1>20. ThreadsAgree'
  <2>1. ASSUME NEW d \in Loopers, ~alive'[d] PROVE queue'[d] = <<>> /\ ~fThread'[d]
    <3>1. d \notin S
      BY <1>1, <1>7, <1>8, <2>1
    <3> QED BY <1>1, <1>4, <2>1, <3>1 DEF LoopInv, ThreadsAgree
  <2>2. ASSUME NEW q \in Loopers
        PROVE  /\ taskPc'[q] \in {"lock", "scan", "dispatch", "wait"} => fThread'[q]
               /\ taskPc'[q] = "exited" => ~alive'[q]
    <3>1. CASE q = l
      BY <1>1, <3>1
    <3>2. CASE q # l
      <4>1. CASE taskPc'[q] = taskPc[q]
        BY <1>1, <3>2, <4>1 DEF LoopInv, ThreadsAgree
      <4>2. CASE taskPc[q] = "scan" /\ taskPc'[q] = "lock"
        BY <1>1, <3>2, <4>2 DEF LoopInv, ThreadsAgree
      <4>3. CASE q \in S /\ taskPc'[q] = "lock"
        BY <1>1, <3>2, <4>3
      <4> QED BY <3>2, <4>1, <4>2, <4>3
    <3> QED BY <3>1, <3>2
  <2>3. ASSUME NEW q \in Loopers, taskPc'[q] \in {"scan", "dispatch"}
        PROVE  alive'[cur'[q]]
    <3>1. taskPc[q] \in {"scan", "dispatch"} /\ cur'[q] = cur[q] /\ cur[q] # l
          /\ cur[q] \in Loopers
      BY <2>3, LoopFacts
    <3> QED BY <1>1, <3>1 DEF LoopInv, ThreadsAgree
  <2> QED BY <1>19, <2>1, <2>2, <2>3 DEF ThreadsAgree
<1> QED BY <1>6, <1>11, <1>12, <1>19, <1>20 DEF LoopInv

\* The clients that are run while their proxy goes were not at work.
LEMMA StartedFacts ==
    ASSUME LoopInv, NEW l \in Loopers, NEW S \in Startable(l), Delete(l, S)
    PROVE  /\ Started(S) \in
                [Loopers -> {"none", "lock", "scan", "dispatch", "wait", "exited"}]
           /\ \A q \in Loopers : Started(S)[q] = IF q \in S THEN "lock" ELSE taskPc[q]
           /\ \A q \in S : q \in Loopers /\ q # l /\ taskPc[q] = "none" /\ cur[q] = q
<1>1. \A d \in S : d \in Loopers /\ fProxy[d] = l /\ d # l
  BY DeleteFacts
<1>2. ASSUME NEW q \in S PROVE taskPc[q] = "none" /\ cur[q] = q
  <2>1. l # None
    BY LoopFacts
  <2>2. alive[q] /\ ~fThread[q] /\ q \in Loopers
    BY <1>1, <2>1 DEF LoopInv, ClientsAgree
  <2>3. taskPc[q] = "none"
    BY <2>2, Threadless DEF LoopInv, ThreadsAgree
  <2> QED BY <2>2, <2>3 DEF LoopInv, ThreadsAgree
<1>3. /\ Started(S) \in [Loopers -> {"none", "lock", "scan", "dispatch", "wait", "exited"}]
      /\ \A q \in Loopers : Started(S)[q] = IF q \in S THEN "lock" ELSE taskPc[q]
  BY DEF Started, LoopInv, LooperTypeOK
<1> QED BY <1>1, <1>2, <1>3

LEMMA LoopQuitDelete ==
    ASSUME LoopInv, NEW l \in Loopers, Quit(l), ~fThread[l]
    PROVE  LoopInv'
<1>1. PICK S \in Startable(l) :
      /\ Delete(l, S) /\ fDeconstructing' = fDeconstructing
      /\ taskPc' = Started(S) /\ cur' = cur /\ msg' = msg /\ moves' = moves /\ posts' = posts
      /\ \/ LockFree(l)
         \/ \E r \in Loopers : HandlerCanLock(r, {l}) /\ l \notin {r, cur[r]}
  BY DEF Quit
<1>2. /\ taskPc' \in [Loopers -> {"none", "lock", "scan", "dispatch", "wait", "exited"}]
      /\ \A q \in Loopers : taskPc'[q] = IF q \in S THEN "lock" ELSE taskPc[q]
      /\ l \notin S
      /\ \A q \in S : cur[q] = q
  BY <1>1, StartedFacts
<1>3. ASSUME NEW q \in Loopers, Holds(q, Top(l))
      PROVE  taskPc[q] = "dispatch" /\ cur[q] # l
  <2>1. ~LockFree(l)
    BY <1>3, LoopTree, LoopHolds DEF LockFree
  <2>2. PICK r \in Loopers : HandlerCanLock(r, {l}) /\ l \notin {r, cur[r]}
    BY <1>1, <2>1
  <2>3. taskPc[r] = "dispatch" /\ Holds(r, Top(l))
    BY <2>1, <2>2, LoopTree, LoopHolds DEF HandlerCanLock
  <2>4. Top(l) \in Loopers
    BY LoopFacts
  <2>5. q = r
    BY <1>3, <2>3, <2>4 DEF LoopInv, LocksApart
  <2> QED BY <2>2, <2>3, <2>5
<1>4. ASSUME NEW q \in Loopers, taskPc[q] \in {"scan", "dispatch"}
      PROVE  cur[q] # l /\ (taskPc[q] = "scan" => q # Top(l))
  <2>1. taskPc[q] = "scan" => q # Top(l) /\ Top(cur[q]) = q
    BY <1>3 DEF Holds, LoopInv, ThreadsAgree
  <2>2. taskPc[q] = "dispatch" => cur[q] # l
    BY <1>3 DEF Holds
  <2> QED BY <1>4, <2>1, <2>2
<1>5. taskPc[l] \in {"none", "exited"}
  BY Threadless
<1>6. /\ taskPc' \in [Loopers -> {"none", "lock", "scan", "dispatch", "wait", "exited"}]
      /\ cur' \in [Loopers -> Loopers] /\ fDeconstructing' \in [Loopers -> BOOLEAN]
  BY <1>1, <1>2 DEF LoopInv, LooperTypeOK
<1>7. \A q \in Loopers : taskPc'[q] \in {"none", "lock", "wait"} => cur'[q] = q
  BY <1>1, <1>2 DEF LoopInv, ThreadsAgree
<1>8. \A q \in Loopers : taskPc'[q] \in {"scan", "dispatch"} =>
               /\ taskPc'[q] = taskPc[q] /\ cur'[q] = cur[q] /\ cur[q] # l
               /\ taskPc[q] = "scan" => q # Top(l)
  BY <1>1, <1>2, <1>4
<1>9. /\ taskPc'[l] \in {"none", "exited"}
      /\ \A q \in Loopers : \/ taskPc'[q] = taskPc[q]
                            \/ q \in S /\ taskPc'[q] = "lock"
  BY <1>2, <1>5
<1> QED BY <1>1, <1>6, <1>7, <1>8, <1>9, DeleteStep

LEMMA LoopTakeQuit ==
    ASSUME LoopInv, NEW r \in Loopers, TakeQuit(r)
    PROVE  LoopInv'
<1>1. PICK c \in Loopers : c = cur[r]
  BY LoopFacts
<1>2. PICK p \in {"exited", "lock"} : p = IF c = r THEN "exited" ELSE "lock"
  OBVIOUS
<1>3. PICK S \in Startable(c) :
      /\ taskPc[r] = "scan" /\ Delete(c, S)
      /\ fDeconstructing' = [fDeconstructing EXCEPT ![c] = TRUE]
      /\ taskPc' = [Started(S) EXCEPT ![r] = p] /\ cur' = [cur EXCEPT ![r] = r]
      /\ msg' = msg /\ moves' = moves /\ posts' = posts
  BY <1>1, <1>2 DEF TakeQuit, AfterQuit
<1>4. /\ Started(S) \in [Loopers -> {"none", "lock", "scan", "dispatch", "wait", "exited"}]
      /\ \A q \in Loopers : Started(S)[q] = IF q \in S THEN "lock" ELSE taskPc[q]
      /\ \A q \in S : q \in Loopers /\ q # c /\ taskPc[q] = "none" /\ cur[q] = q
  BY <1>3, StartedFacts
<1>5. /\ taskPc' \in [Loopers -> {"none", "lock", "scan", "dispatch", "wait", "exited"}]
      /\ taskPc'[r] = p
      /\ \A q \in Loopers : q # r => taskPc'[q] = IF q \in S THEN "lock" ELSE taskPc[q]
  <2>1. /\ taskPc' \in [Loopers -> {"none", "lock", "scan", "dispatch", "wait", "exited"}]
        /\ taskPc'[r] = p /\ \A q \in Loopers : q # r => taskPc'[q] = Started(S)[q]
    BY <1>2, <1>3, <1>4
  <2> QED BY <1>4, <2>1
<1>6. /\ cur' \in [Loopers -> Loopers] /\ cur'[r] = r
      /\ \A q \in Loopers : q # r => cur'[q] = cur[q]
  BY <1>3 DEF LoopInv, LooperTypeOK
<1>7. fDeconstructing' \in [Loopers -> BOOLEAN]
  BY <1>3 DEF LoopInv, LooperTypeOK
<1>8. fThread[r] /\ Top(c) = r
  BY <1>1, <1>3 DEF LoopInv, ThreadsAgree
<1>9. ASSUME NEW q \in Loopers, taskPc'[q] \in {"scan", "dispatch"}
      PROVE  /\ taskPc'[q] = taskPc[q] /\ cur'[q] = cur[q] /\ cur[q] # c
             /\ taskPc[q] = "scan" => q # Top(c)
  <2>1. q # r
    BY <1>2, <1>5, <1>9
  <2>2. taskPc'[q] = taskPc[q] /\ cur'[q] = cur[q]
    BY <1>5, <1>6, <1>9, <2>1
  <2>3. ~Holds(q, r)
    BY <1>3, <2>1 DEF Holds, LoopInv, LocksApart
  <2>4. taskPc[q] = "scan" => Top(cur[q]) = q
    BY DEF LoopInv, ThreadsAgree
  <2> QED BY <1>8, <1>9, <2>1, <2>2, <2>3, <2>4 DEF Holds
<1>10. taskPc'[c] \in {"none", "exited"}
  <2>1. CASE c = r
    BY <1>2, <1>5, <2>1
  <2>2. CASE c # r
    <3>1. ~fThread[c]
      BY <1>8, <2>2, ThreadIsRoot
    <3> QED BY <1>4, <1>5, <2>2, <3>1, Threadless
  <2> QED BY <2>1, <2>2
<1>11. \A q \in Loopers : \/ taskPc'[q] = taskPc[q]
                          \/ taskPc[q] = "scan" /\ taskPc'[q] = "lock"
                          \/ q = c /\ taskPc'[q] = "exited"
                          \/ q \in S /\ taskPc'[q] = "lock"
  BY <1>2, <1>3, <1>5
<1>12. \A q \in Loopers : taskPc'[q] \in {"none", "lock", "wait"} => cur'[q] = q
  BY <1>4, <1>5, <1>6 DEF LoopInv, ThreadsAgree
<1> QED BY <1>3, <1>5, <1>6, <1>7, <1>9, <1>10, <1>11, <1>12, DeleteStep


LEMMA LoopJoin ==
    ASSUME LoopInv, NEW l \in Loopers, NEW p \in Loopers,
           ProxyBy(l, p)
    PROVE  LoopInv'
<1>1. PICK w : /\ w = Without(l)
               /\ w \in [Loopers -> Seq(Loopers)]
               /\ \A m \in Loopers : Distinct(w[m])
               /\ \A m, d \in Loopers : Among(w[m], d) <=> (fProxy[d] = m /\ d # l)
               /\ \A m \in Loopers : m # fProxy[l] => w[m] = fClients[m]
  <2>1. PICK w : w = Without(l)
    OBVIOUS
  <2>2. /\ w \in [Loopers -> Seq(Loopers)]
        /\ \A m \in Loopers : Distinct(w[m])
        /\ \A m, d \in Loopers : Among(w[m], d) <=> (fProxy[d] = m /\ d # l)
        /\ \A m \in Loopers : m # fProxy[l] => w[m] = fClients[m]
    BY <2>1, WithoutFacts
  <2> QED BY <2>1, <2>2
<1>2. PICK n \in Nat : n = Num(queue, Below(l))
  BY LoopFacts
<1>3. PICK t \in Loopers, u \in Loopers : t = Top(p) /\ u = Top(l)
  BY LoopFacts
<1>4. /\ alive[l] /\ alive[p] /\ ~fThread[l] /\ t # u /\ CanLock({l, p})
      /\ moves < MaxMoves /\ moves' = moves + 1
      /\ fProxy' = [fProxy EXCEPT ![l] = p]
      /\ fClients' = [w EXCEPT ![p] = Append(w[p], l)]
      /\ sem' = [sem EXCEPT ![l] = 0, ![t] = @ + n]
      /\ alive' = alive /\ fThread' = fThread /\ fDeconstructing' = fDeconstructing
      /\ queue' = queue /\ taskPc' = taskPc /\ cur' = cur /\ msg' = msg /\ posts' = posts
      /\ Forsake(l, {}, sem[l])
  BY <1>1, <1>2, <1>3, LoopFacts, LoopCount, LoopTree
     DEF ProxyBy, Join, MoveTokens, loop
<1>5. /\ w \in [Loopers -> Seq(Loopers)]
      /\ \A m \in Loopers : Distinct(w[m])
      /\ \A m, d \in Loopers : Among(w[m], d) <=> (fProxy[d] = m /\ d # l)
      /\ \A m \in Loopers : m # fProxy[l] => w[m] = fClients[m]
  BY <1>1
<1>6. /\ fProxy' \in Proxying /\ fProxy'[l] = p
      /\ \A d \in Loopers : d # l => fProxy'[d] = fProxy[d]
  BY <1>4, LoopFacts DEF Proxying
<1>7. PICK v : v = Append(w[p], l)
  OBVIOUS
<1>8. /\ v \in Seq(Loopers) /\ Distinct(v)
      /\ \A d \in Loopers : Among(v, d) <=> Among(w[p], d) \/ d = l
  <2>1. w[p] \in Seq(Loopers) /\ Distinct(w[p]) /\ ~Among(w[p], l)
    BY <1>5
  <2> QED BY <1>7, <2>1, AppendedFacts
<1>9. /\ fClients' \in [Loopers -> Seq(Loopers)] /\ fClients'[p] = v
      /\ \A d \in Loopers : d # p => fClients'[d] = w[d]
  BY <1>4, <1>5, <1>7, <1>8
<1>10. /\ None \notin Loopers /\ IsFiniteSet(Loopers) /\ queue \in Queues
       /\ sem \in [Loopers -> Nat]
  BY LoopFacts DEF LoopInv, LooperTypeOK
<1>11. PICK f \in Proxying : f = fProxy
  BY LoopFacts
<1>12. PICK g \in Proxying : g = fProxy'
  BY <1>6
<1>13. /\ Rooted(f) /\ Root(f, p) = t /\ Root(f, l) = u /\ f[t] = None /\ f[u] = None
       /\ Root(f, t) = t
  BY <1>3, <1>10, <1>11, LoopFacts, RootFacts DEF Top
<1>14. l # t
  BY <1>4, <1>13
<1>15. /\ Rooted(g)
       /\ \A d \in Loopers : Root(g, d) = IF d \in AndUnder(f, l) THEN t ELSE Root(f, d)
  <2>1. g[l] = p /\ p # None /\ \A d \in Loopers : d # l => g[d] = f[d]
    BY <1>6, <1>10, <1>11, <1>12
  <2> QED BY <1>4, <1>10, <1>13, <2>1, MovedRoots
<1>16. /\ sem' \in [Loopers -> Nat] /\ sem'[t] = sem[t] + n
       /\ \A d \in Loopers : d # l /\ d # t => sem'[d] = sem[d]
  BY <1>4, <1>10, <1>14
<1>17. /\ hears' \in [Loopers -> Loopers \cup {None}] /\ strays' \in Nat
       /\ \A d \in Loopers : hears'[d] = IF d # l /\ hears[d] = l THEN None ELSE hears[d]
  <2>1. hears \in [Loopers -> Loopers \cup {None}] /\ strays \in Nat /\ sem[l] \in Nat
    BY DEF LoopInv, LooperTypeOK
  <2>2. strays' \in Nat
    BY <1>4, <2>1 DEF Forsake
  <2>3. \A d \in Loopers : hears'[d] = IF d # l /\ hears[d] = l THEN None ELSE hears[d]
    BY <1>4 DEF Forsake
  <2>4. hears' \in [Loopers -> Loopers \cup {None}]
    BY <1>4, <2>1 DEF Forsake
  <2> QED BY <2>2, <2>3, <2>4
<1>18. /\ EarsAgree'
       /\ \A x \in Loopers : x # l /\ OwnEars(x)' => OwnEars(x)
  <2>1. ASSUME NEW x \in Loopers, x # l, OwnEars(x)', NEW d \in Loopers
        PROVE  (hears[d] = x) = (d = x)
    <3>1. (hears'[d] = x) = (d = x) /\ hears'[x] = x /\ x # None
      BY <1>10, <2>1 DEF OwnEars
    <3>2. CASE d # l /\ hears[d] = l
      BY <1>17, <2>1, <3>1, <3>2
    <3>3. CASE ~(d # l /\ hears[d] = l)
      BY <1>17, <3>1, <3>3
    <3> QED BY <3>2, <3>3
  <2>2. ASSUME NEW d \in Loopers, alive[d], ~fThread[d] PROVE hears'[d] = d
    <3>1. hears[d] = d
      BY <2>2 DEF LoopInv, EarsAgree
    <3> QED BY <1>17, <3>1
  <2> QED BY <1>4, <2>1, <2>2 DEF EarsAgree, OwnEars
<1>19. LooperTypeOK'
  <2>1. moves' \in 0..MaxMoves
    BY <1>4, LooperAssumption DEF LoopInv, LooperTypeOK
  <2> QED BY <1>4, <1>6, <1>9, <1>16, <1>17, <2>1 DEF LoopInv, LooperTypeOK, Proxying
<1>20. ClientsAgree'
  <2>1. ASSUME NEW m \in Loopers
        PROVE  /\ Distinct(fClients'[m])
               /\ \A d \in Loopers : Among(fClients'[m], d) <=> fProxy'[d] = m
    <3>1. CASE m = p
      BY <1>5, <1>6, <1>8, <1>9, <3>1
    <3>2. CASE m # p
      BY <1>5, <1>6, <1>9, <3>2
    <3> QED BY <3>1, <3>2
  <2>2. ASSUME NEW d \in Loopers, fProxy'[d] # None
        PROVE  alive'[d] /\ alive'[fProxy'[d]] /\ ~fThread'[d]
    BY <1>4, <1>6, <2>2 DEF LoopInv, ClientsAgree
  <2> QED BY <2>1, <2>2 DEF ClientsAgree
<1>21. PICK h : \A q \in Loopers : (Holds(q, t) \/ Holds(q, u)) => q = h /\ taskPc[q] = "dispatch"
  <2>1. PICK h : \A k \in {l, p} : \A q \in Loopers :
                     Holds(q, Top(k)) => q = h /\ taskPc[q] = "dispatch"
    BY <1>4, CanLockFacts
  <2> QED BY <1>3, <2>1
<1>22. ASSUME NEW d \in AndUnder(f, l) PROVE d \in Loopers /\ Root(f, d) = u
  BY <1>10, <1>13, RootFacts DEF AndUnder
<1>23. LocksApart'
  <2>1. ASSUME NEW q \in Loopers, NEW x \in Loopers, Holds(q, x)'
        PROVE  Holds(q, x) \/ (x = t /\ Holds(q, u))
    <3>1. CASE taskPc[q] \in {"scan", "dispatch"} /\ x = q
      BY <3>1 DEF Holds
    <3>2. CASE taskPc[q] = "dispatch" /\ x = Top(cur[q])'
      <4>1. PICK c \in Loopers : c = cur[q]
        BY LoopFacts
      <4>2. x = Root(g, c) /\ Root(f, c) = Top(cur[q])
        BY <1>4, <1>11, <1>12, <3>2, <4>1 DEF Top
      <4>3. CASE c \in AndUnder(f, l)
        BY <1>15, <1>22, <3>2, <4>2, <4>3 DEF Holds
      <4>4. CASE c \notin AndUnder(f, l)
        BY <1>15, <3>2, <4>2, <4>4 DEF Holds
      <4> QED BY <4>3, <4>4
    <3> QED BY <1>4, <2>1, <3>1, <3>2 DEF Holds
  <2>2. ASSUME NEW q \in Loopers, NEW r \in Loopers, NEW x \in Loopers,
               Holds(q, x)', Holds(r, x)'
        PROVE  q = r
    <3>1. CASE x = t
      BY <1>21, <2>1, <2>2, <3>1
    <3>2. CASE x # t
      BY <2>1, <2>2, <3>2 DEF LoopInv, LocksApart
    <3> QED BY <3>1, <3>2
  <2> QED BY <2>2 DEF LocksApart
<1>24. ASSUME NEW q \in Loopers, taskPc[q] = "scan"
       PROVE  /\ fProxy[q] = None /\ q # t /\ Top(cur[q])' = q
              /\ Passed(q)' \in SUBSET Passed(q)
  <2>1. q # t /\ q # u
    BY <1>21, <1>24 DEF Holds
  <2>2. fProxy[q] = None /\ Top(cur[q]) = q
    BY <1>24, ThreadIsRoot DEF LoopInv, ThreadsAgree
  <2>3. ASSUME NEW d \in Loopers, Top(d) = q
        PROVE  fProxy'[d] = fProxy[d] /\ fClients'[d] = fClients[d]
    <3>1. d # l /\ d # p
      BY <1>3, <2>1, <2>3
    <3>2. d # fProxy[l]
      BY <1>3, <1>10, <2>1, <2>3, ClientTop
    <3> QED BY <1>5, <1>6, <1>9, <3>1, <3>2
  <2>4. ASSUME NEW d \in Loopers, Top(d)' = q PROVE Top(d) = q
    <3>1. Root(g, d) = q
      BY <1>12, <2>4 DEF Top
    <3>2. Root(f, d) = q
      BY <1>15, <2>1, <3>1
    <3> QED BY <1>11, <3>2 DEF Top
  <2>5. Rooted(fProxy')
    BY <1>12, <1>15
  <2> QED BY <1>4, <1>6, <2>1, <2>2, <2>3, <2>4, <2>5, RoundLeftAlone
<1>25. ThreadsAgree'
  BY <1>4, <1>24 DEF LoopInv, ThreadsAgree
<1>26. ASSUME NEW x \in Loopers, g[x] = None
       PROVE  /\ f[x] = None
              /\ x # t => AndUnder(g, x) \in SUBSET AndUnder(f, x)
              /\ x = t => AndUnder(g, x) \in SUBSET (AndUnder(f, x) \cup AndUnder(f, l))
  <2>1. x # l /\ f[x] = None
    BY <1>6, <1>10, <1>11, <1>12, <1>26
  <2>2. ASSUME NEW d \in AndUnder(g, x)
        PROVE  d \in Loopers /\ Root(g, d) = x
    <3>1. d \in Loopers
      BY DEF AndUnder
    <3> QED BY <1>10, <1>15, <1>26, <3>1, UnderRoot
  <2>3. ASSUME NEW d \in AndUnder(g, x), d \notin AndUnder(f, l)
        PROVE  d \in AndUnder(f, x)
    <3>1. Root(f, d) = x /\ d \in Loopers
      BY <1>15, <2>2, <2>3
    <3> QED BY <1>10, <1>13, <2>1, <3>1, UnderRoot
  <2>4. ASSUME NEW d \in AndUnder(g, x), x # t PROVE d \notin AndUnder(f, l)
    BY <1>15, <2>2, <2>4
  <2> QED BY <2>1, <2>3, <2>4
<1>27. ASSUME NEW x \in Loopers, fProxy'[x] = None, OwnEars(x)'
       PROVE  /\ Num(queue', Below(x)') \in Nat
              /\ fProxy[x] = None /\ OwnEars(x)
              /\ Num(queue, Below(x)) <= sem[x] => Num(queue', Below(x)') <= sem'[x]
              /\ Num(queue, Below(x)) <= sem[x] + 1 => Num(queue', Below(x)') <= sem'[x] + 1
              /\ taskPc'[x] = taskPc[x]
              /\ taskPc'[x] = "scan" => (Num(queue, Passed(x)) <= sem[x] =>
                                            Num(queue', Passed(x)') <= sem'[x])
  <2>1. g[x] = None /\ x # l
    BY <1>6, <1>10, <1>12, <1>27
  <2>2. PICK S \in SUBSET Loopers : S = Below(x)
    BY LoopFacts
  <2>3. PICK U \in SUBSET Loopers : U = Below(x)'
    <3>1. Below(x)' \in SUBSET Loopers
      BY DEF Below, AndUnder
    <3> QED BY <3>1
  <2>4. PICK B \in SUBSET Loopers : B = Below(l)
    BY LoopFacts
  <2>5. /\ f[x] = None
        /\ x # t => U \in SUBSET S
        /\ x = t => U \in SUBSET (S \cup B)
    BY <1>11, <1>12, <1>26, <2>1, <2>2, <2>3, <2>4 DEF Below
  <2>6. Num(queue, U) \in Nat /\ Num(queue, S) \in Nat /\ sem[x] \in Nat
    BY <1>10, NumType
  <2>7. /\ Num(queue, S) <= sem[x] => Num(queue, U) <= sem'[x]
        /\ Num(queue, S) <= sem[x] + 1 => Num(queue, U) <= sem'[x] + 1
    <3>1. CASE x # t
      <4>1. Num(queue, U) <= Num(queue, S) /\ sem'[x] = sem[x]
        BY <1>10, <1>16, <2>1, <2>5, <3>1, NumLess
      <4> QED BY <2>6, <4>1
    <3>2. CASE x = t
      <4>1. S \cap B = {}
        <5>1. ASSUME NEW d \in S, d \in B PROVE FALSE
          <6>1. d \in AndUnder(f, t) /\ d \in AndUnder(f, l)
            BY <1>11, <2>2, <2>4, <3>2, <5>1 DEF Below
          <6>2. Root(f, d) = t
            BY <1>10, <1>13, <1>22, <6>1, UnderRoot
          <6> QED BY <1>4, <1>22, <6>1, <6>2
        <5> QED BY <5>1
      <4>2. Num(queue, S \cup B) = Num(queue, S) + Num(queue, B)
        BY <1>10, <4>1, NumUnion
      <4>3. Num(queue, U) <= Num(queue, S \cup B)
        BY <1>10, <2>5, <3>2, NumLess
      <4>4. Num(queue, B) = n
        BY <1>2, <2>4
      <4>5. sem'[x] = sem[x] + n
        BY <1>16, <3>2
      <4> QED BY <2>6, <4>2, <4>3, <4>4, <4>5
    <3> QED BY <3>1, <3>2
  <2>8. ASSUME taskPc'[x] = "scan", Num(queue, Passed(x)) <= sem[x]
        PROVE  Num(queue', Passed(x)') <= sem'[x]
    <3>1. taskPc[x] = "scan"
      BY <1>4, <2>8
    <3>2. Passed(x)' \in SUBSET Passed(x) /\ x # t /\ Passed(x) \in SUBSET Loopers
      BY <1>24, <3>1, LoopFacts
    <3>3. Num(queue, Passed(x)') <= Num(queue, Passed(x))
          /\ Num(queue, Passed(x)') \in Nat /\ Num(queue, Passed(x)) \in Nat
      BY <1>10, <3>2, NumLess
    <3>4. sem'[x] = sem[x]
      BY <1>16, <2>1, <3>2
    <3> QED BY <1>4, <2>6, <2>8, <3>3, <3>4
  <2>9. OwnEars(x)
    BY <1>18, <1>27, <2>1
  <2> QED BY <1>4, <1>11, <2>2, <2>3, <2>5, <2>6, <2>7, <2>8, <2>9
<1>28. TokensSuffice'
  BY <1>16, <1>27, TokensMoved
<1>29. Rooted(fProxy')
  BY <1>12, <1>15
<1> QED BY <1>18, <1>19, <1>20, <1>23, <1>25, <1>28, <1>29 DEF LoopInv

-----------------------------------------------------------------------------

LEMMA LoopInit == ASSUME LooperInit PROVE LoopInv
<1>1. LooperTypeOK
  <2>1. posts \in 0..MaxPosts /\ moves \in 0..MaxMoves
    BY LooperAssumption DEF LooperInit
  <2>2. /\ fProxy \in [Loopers -> Loopers \cup {None}] /\ fClients \in [Loopers -> Seq(Loopers)]
        /\ queue \in [Loopers -> Seq(Whats)] /\ sem \in [Loopers -> Nat]
    BY DEF LooperInit
  <2>3. hears \in [Loopers -> Loopers \cup {None}] /\ strays \in Nat
    BY DEF LooperInit
  <2>4. msg \in [Loopers -> Whats] /\ cur \in [Loopers -> Loopers]
    BY DEF LooperInit, Whats
  <2> QED BY <2>1, <2>2, <2>3, <2>4 DEF LooperTypeOK, LooperInit
<1>2. PICK f \in Proxying : f = fProxy
  BY <1>1 DEF LooperTypeOK, Proxying
<1>3. None \notin Loopers /\ \A d \in Loopers : f[d] = None
  BY <1>2, LooperAssumption DEF LooperInit
<1>4. \A l \in Loopers : AndAbove(f, l) = {l}
  BY <1>3, AboveRoot
<1>5. Rooted(fProxy)
  BY <1>2, <1>3, <1>4 DEF Rooted
<1>6. ClientsAgree
  <2>1. \A l \in Loopers : fClients[l] = <<>>
    BY DEF LooperInit
  <2>2. 1..0 = {}
    OBVIOUS
  <2>3. \A l \in Loopers : Len(fClients[l]) = 0 /\ 1..0 = {}
    BY <1>1, <2>1, <2>2, EmptySeq DEF LooperTypeOK
  <2>4. \A l \in Loopers : fProxy[l] = None
    BY <1>2, <1>3
  <2> QED BY <1>3, <2>3, <2>4 DEF ClientsAgree, Distinct, Among
<1>7. ThreadsAgree
  BY DEF ThreadsAgree, LooperInit
<1>8. LocksApart
  BY DEF LocksApart, Holds, LooperInit
<1>9. EarsAgree
  BY DEF EarsAgree, LooperInit
<1>10. TokensSuffice
  <2>1. ASSUME NEW r \in Loopers PROVE Num(queue, Below(r)) = 0
    <3>1. queue \in Queues
      BY <1>1 DEF LooperTypeOK, Queues
    <3>2. Below(r) \in SUBSET Loopers
      BY DEF Below, AndUnder
    <3>3. \A d \in Below(r) : queue[d] = <<>>
      BY <3>2 DEF LooperInit
    <3> QED BY <3>1, <3>2, <3>3, NumZero
  <2>2. \A r \in Loopers : sem[r] = 0 /\ taskPc[r] = "none"
    BY DEF LooperInit
  <2> QED BY <2>1, <2>2 DEF TokensSuffice
<1> QED BY <1>1, <1>5, <1>6, <1>7, <1>8, <1>9, <1>10 DEF LoopInv

LEMMA LoopNext ==
    ASSUME LoopInv, [LooperNext]_looperVars
    PROVE  LoopInv'
<1>1. ASSUME NEW l \in Loopers, NEW w \in {"message", "B_QUIT_REQUESTED"}, PostMessage(l, w)
      PROVE  LoopInv'
  <2>1. w \in Whats
    BY DEF Whats
  <2> QED BY <1>1, <2>1, LoopPost
<1>2. ASSUME NEW l \in Loopers, PostEventsPending(l) PROVE LoopInv'
  BY <1>2, LoopPending
<1>3. ASSUME NEW l \in Loopers, ProxyByNoneAlone(l) \/ ProxyByNoneRun(l) PROVE LoopInv'
  BY <1>3, LoopLeave
<1>4. ASSUME NEW l \in Loopers, Quit(l) PROVE LoopInv'
  BY <1>4, LoopQuitThread, LoopQuitDelete
<1>5. ASSUME NEW l \in Runners, Run(l) PROVE LoopInv'
  BY <1>5, LoopRun, LooperAssumption
<1>6. ASSUME NEW l \in Loopers, NEW p \in Loopers, ProxyBy(l, p) PROVE LoopInv'
  BY <1>6, LoopJoin
<1>7. ASSUME NEW r \in Loopers, TaskLooper(r) PROVE LoopInv'
  BY <1>7, LoopBegin, LoopTakeQuit, LoopTake, LoopPass, LoopDispatch, LoopAcquire
     DEF TaskLooper
<1>8. CASE UNCHANGED looperVars
  BY <1>8, LoopStutter
<1> QED BY <1>1, <1>2, <1>3, <1>4, <1>5, <1>6, <1>7, <1>8, LooperAssumption DEF LooperNext

\* Whatever the number of loopers: proxies form trees, and no round is ever at a
\* looper that is deleted or that has left the tree, although handlers move and
\* delete loopers while the thread of the tree calls them (_taskLooper, isClient).
THEOREM LooperRoundInTree == LooperSpec => []RoundStaysInTree
<1>1. LooperInit => LoopInv
  BY LoopInit
<1>2. LoopInv /\ [LooperNext]_looperVars => LoopInv'
  BY LoopNext
<1>3. LoopInv => RoundStaysInTree
  BY RoundInTree
<1> QED BY <1>1, <1>2, <1>3, PTL DEF LooperSpec

\* Whatever the number of loopers and of messages: no thread sleeps on a semaphore
\* without tokens while a looper of its tree has a message, although loopers join and
\* leave trees with messages in their queues, and a thread may use up a token in a
\* round that passes over every looper (_PostMessage, _ProxyBy, _taskLooper).  Only
\* the trees are excepted whose semaphore a thread waits for that Run() has started
\* in the middle of ProxyBy(NULL), and the tree of that thread.
THEOREM LooperNoLostWakeup == LooperSpec => []LoopWakeupNotLost
<1>1. LooperInit => LoopInv
  BY LoopInit
<1>2. LoopInv /\ [LooperNext]_looperVars => LoopInv'
  BY LoopNext
<1>3. LoopInv => LoopWakeupNotLost
  BY WakeupKept
<1> QED BY <1>1, <1>2, <1>3, PTL DEF LooperSpec
====
