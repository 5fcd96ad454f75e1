---- MODULE SemaphoreIPCProofs ----
(***************************************************************************)
(* Proofs about SemaphoreIPC for any number of threads, any requests and     *)
(* grants, any counter width and any SEM_VALUE_MAX.                          *)
(*                                                                           *)
(* As for the local semaphore the invariant has to count: acquiringCount is  *)
(* the cardinality of Pending.  That is also what the wakeups rest on:       *)
(* close_sem and release_sem_etc post only if acquiringCount is positive, so *)
(* a sleeper is told only because it is counted.                             *)
(*                                                                           *)
(* The second part is about Area, the shared memory that the semaphore lies  *)
(* in, for any number of processes and segments: a segment has at most one   *)
(* creator (OneCreator), nobody maps it before somebody gave it a size       *)
(* (MappedHaveSize), and while no living creator's name is taken, what goes  *)
(* by the name meets its own segment (NameInv).                              *)
(***************************************************************************)
EXTENDS SemaphoreIPC, Area, FiniteSetTheorems, TLAPS

\* A call inside the loop asks for at least one unit, by a count some thread
\* really passes.
AsksForUnits ==
    \A t \in Threads : pc[t] # "idle" => req[t] > 0 /\ req[t] \in Requests

\* All calls that ask for anything ask for the same number of units.
OneSize == \A m, n \in Requests : m > 0 /\ n > 0 => m = n

\* A post is in remoteSem, or somebody is awake inside acquire_sem_etc.
Stirring == \/ remoteSem > 0
            \/ \E u \in Threads : pc[u] \notin {"idle", "asleep"}

\* The news of the close is on its way to everybody who still sleeps, whatever
\* the sizes of the requests: a call that passes it on posts unconditionally.
CloseOnItsWay == closed /\ (\E t \in Threads : pc[t] = "asleep") => Stirring

Core ==
    /\ TypeOK
    /\ acquiringCount = Cardinality(Pending)
    /\ AsksForUnits
    /\ CloseOnItsWay
    /\ OneSize => PostOnItsWay

\* Nothing has happened to a semaphore that is still to be created.
Fresh == ~created => /\ count = 0
                     /\ closed = FALSE
                     /\ \A t \in Threads : pc[t] = "idle"

IInv == Core /\ Fresh

-----------------------------------------------------------------------------
(* The units asked for *)

\* They are finitely many, and none only if nobody waits.
LEMMA PendingFinite ==
    ASSUME TypeOK, AsksForUnits
    PROVE  /\ IsFiniteSet(Pending)
           /\ Cardinality(Pending) \in Nat
           /\ Cardinality(Pending) = 0 <=> \A t \in Threads : pc[t] = "idle"
<1> USE SemaphoreIPCAssumption DEF SemaphoreIPCAssumption
<1>1. IsFiniteSet(Threads \X (1..MaxCount))
  <2>1. IsFiniteSet(1..MaxCount)
    BY FS_Interval
  <2> QED BY <2>1, FS_Product
<1>2. IsFiniteSet(Pending)
  BY <1>1, FS_Subset DEF Pending
<1>3. Pending = {} <=> \A t \in Threads : pc[t] = "idle"
  <2>1. ASSUME NEW t \in Threads, pc[t] # "idle" PROVE <<t, 1>> \in Pending
    BY <2>1 DEF Pending, AsksForUnits, TypeOK
  <2>2. ASSUME \A t \in Threads : pc[t] = "idle" PROVE Pending = {}
    BY <2>2 DEF Pending
  <2> QED BY <2>1, <2>2
<1> QED BY <1>2, <1>3, FS_CardinalityType, FS_EmptySet

\* The units of one call.
LEMMA OneCall ==
    ASSUME NEW t \in Threads, NEW n \in 1..MaxCount
    PROVE  /\ IsFiniteSet({t} \X (1..n))
           /\ Cardinality({t} \X (1..n)) = n
<1> USE SemaphoreIPCAssumption DEF SemaphoreIPCAssumption
<1>1. IsFiniteSet(1..n) /\ Cardinality(1..n) = n
  BY FS_Interval
<1>2. IsFiniteSet({t}) /\ Cardinality({t}) = 1
  BY FS_Singleton
<1>3. /\ IsFiniteSet({t} \X (1..n))
      /\ Cardinality({t} \X (1..n)) = 1 * n
  BY <1>1, <1>2, FS_Product
<1> QED BY <1>3

\* A call that starts to wait adds the n units it asks for.
LEMMA EnterLoop ==
    ASSUME TypeOK, AsksForUnits, NEW t \in Threads, NEW n \in 1..MaxCount,
           pc[t] = "idle",
           pc' = [pc EXCEPT ![t] = "asleep"], req' = [req EXCEPT ![t] = n]
    PROVE  Cardinality(Pending') = Cardinality(Pending) + n
<1> DEFINE U == {t} \X (1..n)
<1>1. Pending' = Pending \cup U
  BY SemaphoreIPCAssumption DEF TypeOK, Pending, SemaphoreIPCAssumption
<1>2. Cardinality(Pending \cap U) = 0
  <2>1. Pending \cap U = {}
    BY DEF Pending
  <2> QED BY <2>1, FS_EmptySet
<1>3. IsFiniteSet(Pending) /\ Cardinality(Pending) \in Nat
  BY PendingFinite
<1>4. IsFiniteSet(U) /\ Cardinality(U) = n
  BY OneCall
<1>5. Cardinality(Pending \cup U) =
        Cardinality(Pending) + Cardinality(U) - Cardinality(Pending \cap U)
  BY <1>3, <1>4, FS_Union
<1> QED BY <1>1, <1>2, <1>3, <1>4, <1>5

\* A call that leaves the loop takes away the units it asked for.
LEMMA LeaveLoop ==
    ASSUME TypeOK, AsksForUnits, NEW t \in Threads,
           pc[t] # "idle",
           pc' = [pc EXCEPT ![t] = "idle"], req' = [req EXCEPT ![t] = 0]
    PROVE  /\ Cardinality(Pending') = Cardinality(Pending) - req[t]
           /\ req[t] <= Cardinality(Pending)
<1> USE SemaphoreIPCAssumption DEF SemaphoreIPCAssumption
<1> DEFINE U == {t} \X (1..req[t])
<1>1. req[t] \in 1..MaxCount
  BY DEF TypeOK, AsksForUnits
<1>2. Pending' = Pending \ U
  BY <1>1 DEF TypeOK, Pending
<1>3. Pending \cap U = U
  BY <1>1 DEF TypeOK, Pending
<1>4. IsFiniteSet(Pending) /\ Cardinality(Pending) \in Nat
  BY PendingFinite
<1>5. IsFiniteSet(U) /\ Cardinality(U) = req[t]
  BY <1>1, OneCall
<1>6. Cardinality(Pending \ U) = Cardinality(Pending) - Cardinality(Pending \cap U)
  BY <1>4, FS_Difference
<1>7. Cardinality(U) <= Cardinality(Pending)
  BY <1>3, <1>4, FS_Subset
<1> QED BY <1>2, <1>3, <1>5, <1>6, <1>7

\* A step that moves calls around inside the loop leaves Pending alone.
LEMMA SamePending ==
    ASSUME TypeOK, req' = req,
           \A t \in Threads : pc'[t] = "idle" <=> pc[t] = "idle"
    PROVE  Pending' = Pending
  BY DEF TypeOK, Pending

\* sem_post leaves a post behind, also at SEM_VALUE_MAX.
LEMMA PostFacts ==
    ASSUME TypeOK, Post
    PROVE  /\ remoteSem' \in 0..MaxPosts
           /\ remoteSem' > 0
           /\ unannounced' = FALSE
  BY SemaphoreIPCAssumption DEF Post, TypeOK, SemaphoreIPCAssumption

\* Whoever sleeps is counted, so PostIfWaiting posts.
LEMMA SleepersAreCounted ==
    ASSUME Core, NEW t \in Threads, pc[t] # "idle"
    PROVE  acquiringCount > 0
  BY PendingFinite DEF Core, TypeOK

-----------------------------------------------------------------------------

\* Initially nobody waits.
LEMMA InitInv == Init => IInv
<1> SUFFICES ASSUME Init PROVE IInv OBVIOUS
<1>1. TypeOK /\ AsksForUnits
  <2>1. /\ count \in 0..MaxCount
        /\ acquiringCount \in 0..MaxCount
        /\ minAcquiringCount \in 0..MaxCount
        /\ remoteSem \in 0..MaxPosts
        /\ req \in [Threads -> 0..MaxCount]
    BY SemaphoreIPCAssumption DEF Init, SemaphoreIPCAssumption
  <2>2. /\ pc \in [Threads -> {"idle", "asleep", "woken", "expired",
                                "interrupted"}]
        /\ timeout \in [Threads -> Timeouts]
        /\ status \in Statuses
    BY DEF Init, Timeouts, Statuses
  <2>3. TypeOK
    BY <2>1, <2>2, Zenon DEF Init, TypeOK
  <2> QED BY <2>3 DEF Init, AsksForUnits
<1>2. acquiringCount = Cardinality(Pending)
  BY <1>1, PendingFinite DEF Init
<1> QED BY <1>1, <1>2 DEF Init, IInv, Core, Fresh, CloseOnItsWay, PostOnItsWay

\* A step that leaves a post in remoteSem or somebody awake is a safe one.
LEMMA StirringSuffices ==
    ASSUME Stirring' PROVE CloseOnItsWay' /\ PostOnItsWay'
  BY DEF Stirring, CloseOnItsWay, PostOnItsWay

\* Every step of the semaphore preserves the core of the invariant.
LEMMA NextCore == IInv /\ [Next]_vars => Core'
<1> SUFFICES ASSUME IInv, [Next]_vars PROVE Core' OBVIOUS
<1> USE SemaphoreIPCAssumption DEF IInv, Core, SemaphoreIPCAssumption
<1>0. CASE UNCHANGED vars
  BY <1>0 DEF vars, TypeOK, Enough, Pending, AsksForUnits, CloseOnItsWay,
              PostOnItsWay, Stirring
<1>1. ASSUME NEW n \in Grants, create_sem_for_IPC(n) PROVE Core'
  <2>1. TypeOK' /\ AsksForUnits'
    BY <1>1 DEF create_sem_for_IPC, calls, TypeOK, AsksForUnits
  <2>2. Pending' = Pending
    BY <1>1, SamePending DEF create_sem_for_IPC, calls
  <2>3. CloseOnItsWay'
    BY <1>1 DEF create_sem_for_IPC, calls, CloseOnItsWay, Stirring
  <2>4. OneSize => PostOnItsWay'
    BY <1>1 DEF create_sem_for_IPC, calls, PostOnItsWay, Fresh
  <2> QED BY <1>1, <2>1, <2>2, <2>3, <2>4 DEF create_sem_for_IPC
<1>2. ASSUME NEW t \in Threads, close_sem(t) PROVE Core'
  <2>1. UNCHANGED <<created, count, acquiringCount, minAcquiringCount, pc, req,
                    timeout>>
    BY <1>2 DEF close_sem
  <2>2. Pending' = Pending /\ AsksForUnits'
    BY <2>1, SamePending DEF AsksForUnits
  <2>3. CASE closed \/ acquiringCount = 0
    <3>1. /\ NoPost
          /\ status' \in Statuses
          /\ closed' = TRUE \/ closed' = closed
      BY <1>2, <2>3 DEF close_sem, Close, PostIfWaiting, Return, Statuses, TypeOK
    <3>2. TypeOK'
      <4>1. closed' \in BOOLEAN
        BY <3>1 DEF TypeOK
      <4> QED BY <2>1, <3>1, <4>1 DEF TypeOK, NoPost
    <3>3. CloseOnItsWay' /\ (OneSize => PostOnItsWay')
      <4>1. CASE closed
        BY <1>2, <2>1, <3>1, <4>1
           DEF close_sem, NoPost, CloseOnItsWay, PostOnItsWay, Stirring, Enough
      <4>2. CASE acquiringCount = 0
        <5>1. \A u \in Threads : pc'[u] # "asleep"
          BY <2>1, <4>2, SleepersAreCounted
        <5> QED BY <5>1 DEF CloseOnItsWay, PostOnItsWay
      <4> QED BY <2>3, <4>1, <4>2
    <3> QED BY <2>1, <2>2, <3>2, <3>3
  <2>4. CASE ~closed /\ acquiringCount > 0
    <3>1. Post /\ closed' = TRUE /\ status' \in Statuses
      BY <1>2, <2>4 DEF close_sem, Close, PostIfWaiting, Return, Statuses
    <3>2. TypeOK'
      BY <2>1, <3>1, PostFacts DEF TypeOK
    <3>3. CloseOnItsWay' /\ PostOnItsWay'
      BY <3>1, PostFacts, StirringSuffices DEF Stirring
    <3> QED BY <2>1, <2>2, <3>2, <3>3
  <2> QED BY <2>3, <2>4 DEF TypeOK
<1>3. ASSUME NEW t \in Threads, NEW n \in Requests, NEW w \in Timeouts,
             acquire_sem_etc(t, n, w)
      PROVE  Core'
  <2>1. pc[t] = "idle" /\ UNCHANGED <<created, closed, remoteSem, unannounced>>
    BY <1>3 DEF acquire_sem_etc, Calling
  <2>2. CASE AcquireAtOnce(t, n, w)
    <3>1. /\ UNCHANGED <<acquiringCount, minAcquiringCount, pc, req, timeout>>
          /\ count' \in 0..MaxCount
          /\ count' <= count
          /\ status' \in Statuses
      BY <2>2 DEF AcquireAtOnce, Enough, Return, TypeOK, Statuses
    <3>2. TypeOK' /\ AsksForUnits'
      BY <2>1, <3>1 DEF TypeOK, AsksForUnits
    <3>3. Pending' = Pending
      BY <3>1, SamePending
    <3>4. CloseOnItsWay' /\ (OneSize => PostOnItsWay')
      BY <2>1, <3>1 DEF CloseOnItsWay, PostOnItsWay, Stirring, Enough, TypeOK
    <3> QED BY <3>1, <3>2, <3>3, <3>4
  <2>3. CASE StartWaiting(t, n, w)
    <3>1. n \in 1..MaxCount
      BY <2>3 DEF StartWaiting, TypeOK
    <3>2. TypeOK' /\ AsksForUnits'
      BY <2>1, <2>3, <3>1 DEF StartWaiting, Lowered, TypeOK, AsksForUnits
    <3>3. acquiringCount' = Cardinality(Pending')
      BY <2>1, <2>3, <3>1, EnterLoop DEF StartWaiting
    <3>4. CloseOnItsWay' /\ (OneSize => PostOnItsWay')
      <4>1. /\ pc' = [pc EXCEPT ![t] = "asleep"]
            /\ req' = [req EXCEPT ![t] = n]
            /\ count' = count
            /\ ~closed
            /\ ~Enough(n)
        BY <2>3 DEF StartWaiting
      <4> QED
        BY <2>1, <4>1 DEF CloseOnItsWay, PostOnItsWay, Enough, TypeOK
    <3> QED BY <3>2, <3>3, <3>4
  <2> QED BY <1>3, <2>2, <2>3 DEF acquire_sem_etc
<1>4. ASSUME NEW t \in Threads, pc[t] = "asleep", NEW p \in
                 {"woken", "expired", "interrupted"},
             pc' = [pc EXCEPT ![t] = p],
             remoteSem' \in 0..MaxPosts,
             UNCHANGED <<created, count, acquiringCount, minAcquiringCount,
                         closed, req, timeout, status, unannounced>>
      PROVE  Core'
  <2>1. TypeOK'
    BY <1>4 DEF TypeOK
  <2>2. Pending' = Pending
    BY <1>4, SamePending DEF TypeOK
  <2>3. AsksForUnits'
    BY <1>4 DEF AsksForUnits, TypeOK
  <2>4. pc'[t] \notin {"idle", "asleep"}
    BY <1>4 DEF TypeOK
  <2>5. CloseOnItsWay' /\ PostOnItsWay'
    BY <2>4, StirringSuffices DEF Stirring
  <2> QED BY <1>4, <2>1, <2>2, <2>3, <2>5
<1>5. ASSUME NEW t \in Threads, TakePost(t) \/ WaitFails(t) \/ Expire(t)
      PROVE  Core'
  <2>1. CASE TakePost(t)
    <3>1. remoteSem' \in 0..MaxPosts
      BY <2>1 DEF TakePost, TypeOK
    <3> QED BY <1>4, <2>1, <3>1 DEF TakePost
  <2>2. CASE WaitFails(t)
    BY <1>4, <2>2 DEF WaitFails, TypeOK
  <2>3. CASE Expire(t)
    BY <1>4, <2>3 DEF Expire, TypeOK
  <2> QED BY <1>5, <2>1, <2>2, <2>3
<1>6. ASSUME NEW t \in Threads, NEW s \in Statuses, LeaveWait(t, s),
             pc[t] # "idle", count' \in 0..MaxCount,
             UNCHANGED <<created, closed>>
      PROVE  Core'
  <2>1. /\ acquiringCount' = acquiringCount - req[t]
        /\ minAcquiringCount' \in 0..MaxCount
        /\ Post
        /\ pc' = [pc EXCEPT ![t] = "idle"]
        /\ req' = [req EXCEPT ![t] = 0]
        /\ timeout' = [timeout EXCEPT ![t] = "forever"]
        /\ status' = s
    BY <1>6 DEF LeaveWait, ForgetRequest, PassOn, Return, TypeOK
  <2>2. /\ Cardinality(Pending') = Cardinality(Pending) - req[t]
        /\ req[t] <= Cardinality(Pending)
    BY <1>6, <2>1, LeaveLoop
  <2>3. acquiringCount' \in 0..MaxCount
    BY <2>1, <2>2 DEF TypeOK
  <2>4. TypeOK'
    <3>1. remoteSem' \in 0..MaxPosts /\ unannounced' = FALSE
      BY <2>1, PostFacts
    <3>2. /\ pc' \in [Threads -> {"idle", "asleep", "woken", "expired",
                                  "interrupted"}]
          /\ req' \in [Threads -> 0..MaxCount]
          /\ timeout' \in [Threads -> Timeouts]
      BY <2>1 DEF TypeOK, Timeouts
    <3> QED BY <1>6, <2>1, <2>3, <3>1, <3>2 DEF TypeOK
  <2>5. AsksForUnits'
    BY <2>1 DEF AsksForUnits, TypeOK
  <2>6. CloseOnItsWay' /\ PostOnItsWay'
    BY <2>1, PostFacts, StirringSuffices DEF Stirring
  <2> QED BY <2>1, <2>2, <2>4, <2>5, <2>6
<1>7. ASSUME NEW t \in Threads, pc[t] = "woken", ~Enough(req[t]), ~closed,
             SleepOn(t), UNCHANGED <<created, count, closed>>
      PROVE  Core'
  <2>1. /\ UNCHANGED <<acquiringCount, req, timeout, status>>
        /\ pc' = [pc EXCEPT ![t] = "asleep"]
        /\ minAcquiringCount' \in 0..MaxCount
        /\ NoPost \/ Post
    BY <1>7 DEF SleepOn, Lowered, TypeOK
  <2>2. TypeOK'
    <3>1. remoteSem' \in 0..MaxPosts /\ unannounced' \in BOOLEAN
      BY <2>1, PostFacts DEF NoPost, TypeOK
    <3> QED BY <1>7, <2>1, <3>1 DEF TypeOK
  <2>3. Pending' = Pending
    BY <1>7, <2>1, SamePending DEF TypeOK
  <2>4. AsksForUnits'
    BY <1>7, <2>1 DEF AsksForUnits, TypeOK
  <2>5. CloseOnItsWay'
    BY <1>7 DEF CloseOnItsWay
  <2>6. ASSUME OneSize PROVE PostOnItsWay'
    <3>1. \A u \in Threads : pc'[u] = "asleep" => req[u] = req[t]
      BY <1>7, <2>1, <2>6 DEF OneSize, AsksForUnits, TypeOK
    <3> QED BY <1>7, <2>1, <3>1 DEF PostOnItsWay, Enough
  <2> QED BY <2>1, <2>2, <2>3, <2>4, <2>5, <2>6
<1>8. ASSUME NEW t \in Threads, AcquireAgain(t) PROVE Core'
  <2>1. pc[t] = "woken" /\ UNCHANGED <<created, closed>>
    BY <1>8 DEF AcquireAgain
  <2>2. CASE Enough(req[t])
    <3>1. LeaveWait(t, "B_OK") /\ count' = count - req[t]
      BY <1>8, <2>2 DEF AcquireAgain
    <3>2. count' \in 0..MaxCount
      BY <2>2, <3>1 DEF Enough, TypeOK
    <3> QED BY <1>6, <2>1, <3>1, <3>2 DEF Statuses
  <2>3. CASE ~Enough(req[t]) /\ closed
    BY <1>6, <1>8, <2>1, <2>3 DEF AcquireAgain, Statuses, TypeOK
  <2>4. CASE ~Enough(req[t]) /\ ~closed
    BY <1>7, <1>8, <2>1, <2>4 DEF AcquireAgain
  <2> QED BY <2>2, <2>3, <2>4
<1>9. ASSUME NEW t \in Threads, GiveUp(t) PROVE Core'
  BY <1>6, <1>9 DEF GiveUp, Statuses, TypeOK
<1>10. ASSUME NEW t \in Threads, NEW n \in Grants, NEW f \in Flags,
              release_sem_etc(t, n, f)
       PROVE  Core'
  <2>1. UNCHANGED <<created, acquiringCount, minAcquiringCount, closed, pc, req,
                    timeout>>
    BY <1>10 DEF release_sem_etc
  <2>2. count' \in 0..MaxCount /\ status' \in Statuses
    BY <1>10 DEF release_sem_etc, RoomFor, Return, TypeOK, Statuses
  <2>3. Pending' = Pending /\ AsksForUnits'
    BY <2>1, SamePending DEF AsksForUnits
  <2>4. CASE UNCHANGED <<count, remoteSem, unannounced>>
    BY <2>1, <2>2, <2>3, <2>4
       DEF TypeOK, CloseOnItsWay, PostOnItsWay, Stirring, Enough
  <2>5. CASE ~closed /\ unannounced' = TRUE /\ UNCHANGED remoteSem
    BY <2>1, <2>2, <2>3, <2>5 DEF TypeOK, CloseOnItsWay, PostOnItsWay
  <2>6. CASE PostIfWaiting /\ acquiringCount > 0
    <3>1. Post
      BY <2>6 DEF PostIfWaiting
    <3>2. TypeOK'
      BY <2>1, <2>2, <3>1, PostFacts DEF TypeOK
    <3>3. CloseOnItsWay' /\ PostOnItsWay'
      BY <3>1, PostFacts, StirringSuffices DEF Stirring
    <3> QED BY <2>1, <2>3, <3>2, <3>3
  <2>7. CASE PostIfWaiting /\ acquiringCount = 0
    <3>1. UNCHANGED <<remoteSem, unannounced>>
      BY <2>7 DEF PostIfWaiting, NoPost
    <3>2. \A u \in Threads : pc'[u] # "asleep"
      BY <2>1, <2>7, SleepersAreCounted
    <3>3. TypeOK'
      BY <2>1, <2>2, <3>1 DEF TypeOK
    <3> QED BY <2>1, <2>3, <3>2, <3>3 DEF CloseOnItsWay, PostOnItsWay
  <2>8. \/ UNCHANGED <<count, remoteSem, unannounced>>
        \/ ~closed /\ unannounced' = TRUE /\ UNCHANGED remoteSem
        \/ PostIfWaiting
    BY <1>10 DEF release_sem_etc, NoPost
  <2>9. acquiringCount = 0 \/ acquiringCount > 0
    BY DEF TypeOK
  <2> QED BY <2>4, <2>5, <2>6, <2>7, <2>8, <2>9
<1> QED
  BY <1>0, <1>1, <1>2, <1>3, <1>5, <1>8, <1>9, <1>10 DEF Next, Resume

\* Whoever is inside a call has found a semaphore that exists.
LEMMA NextFresh == IInv /\ [Next]_vars => Fresh'
<1> SUFFICES ASSUME IInv, [Next]_vars, ~created'
             PROVE  Fresh'
  BY DEF Fresh
<1>1. CASE UNCHANGED vars
  BY <1>1 DEF vars, IInv, Fresh
<1>2. CASE Next
  <2>1. ~created
    BY <1>2 DEF Next, create_sem_for_IPC, close_sem, acquire_sem_etc, TakePost,
               WaitFails, Expire, Resume, AcquireAgain, GiveUp, release_sem_etc
  <2>2. \A t \in Threads : pc[t] = "idle"
    BY <2>1 DEF IInv, Fresh
  <2> QED
    BY <1>2, <2>1, <2>2
       DEF Next, create_sem_for_IPC, close_sem, acquire_sem_etc, TakePost,
           WaitFails, Expire, Resume, AcquireAgain, GiveUp, release_sem_etc,
           Calling
<1> QED BY <1>1, <1>2

-----------------------------------------------------------------------------

\* The invariant holds for any number of threads and any requests.
THEOREM SemaphoreIPCInvariant == Spec => []IInv
<1>1. IInv /\ [Next]_vars => IInv'
  BY NextCore, NextFresh DEF IInv
<1> QED BY <1>1, InitInv, PTL DEF Spec

\* acquiringCount of the named semaphore is exact however calls leave the loop,
\* no counter leaves its range, and get_sem_count is negative exactly while
\* somebody is inside.
THEOREM NamedAcquiringIsExact == Spec => []AcquiringAccounted
<1>1. IInv => AcquiringAccounted
  <2> SUFFICES ASSUME IInv PROVE AcquiringAccounted OBVIOUS
  <2>1. Cardinality(Pending) = 0 <=> \A t \in Threads : pc[t] = "idle"
    BY PendingFinite DEF IInv, Core
  <2> QED
    BY <2>1, SemaphoreIPCAssumption
       DEF IInv, Core, AcquiringAccounted, get_sem_count, TypeOK,
           SemaphoreIPCAssumption
<1> QED BY <1>1, SemaphoreIPCInvariant, PTL

\* The one post of close_sem is never lost while anybody sleeps, for requests
\* of any sizes.
THEOREM CloseIsPassedOn == Spec => []CloseOnItsWay
  BY SemaphoreIPCInvariant, PTL DEF IInv, Core

\* Units that were announced are on their way to every sleeper they suffice
\* for, as long as the requests are of one size.  The hypothesis is what the
\* code needs: with mixed sizes the chain of posts breaks where
\* minAcquiringCount has forgotten a smaller request.
THEOREM PostsArePassedOn ==
    ASSUME OneSize PROVE Spec => []PostOnItsWay
<1>1. IInv => PostOnItsWay
  BY OneSize DEF IInv, Core
<1> QED BY <1>1, SemaphoreIPCInvariant, PTL

\* The named semaphore implements the abstract counting semaphore.
THEOREM NamedSemaphoreRefinement == Spec => ImplementsCountingSemaphore
<1>1. Init => Abstract!Init
  BY DEF Init, Abstract!Init
<1>2. IInv /\ [Next]_vars => [Abstract!Next]_<<count, closed>>
  <2> SUFFICES ASSUME IInv, [Next]_vars
               PROVE  [Abstract!Next]_<<count, closed>>
    OBVIOUS
  <2> USE SemaphoreIPCAssumption DEF IInv, Core, TypeOK, SemaphoreIPCAssumption
  <2>1. CASE UNCHANGED <<count, closed>>
    BY <2>1
  <2>2. ASSUME NEW n \in 0..MaxCount, Abstract!Take(n) \/ Abstract!Give(n)
        PROVE  [Abstract!Next]_<<count, closed>>
    BY <2>2 DEF Abstract!Next
  <2>3. ASSUME NEW n \in Grants, create_sem_for_IPC(n)
        PROVE  [Abstract!Next]_<<count, closed>>
    BY <2>2, <2>3 DEF create_sem_for_IPC, Fresh, Abstract!Give, Abstract!Add
  <2>4. ASSUME NEW t \in Threads, close_sem(t)
        PROVE  [Abstract!Next]_<<count, closed>>
    BY <2>4 DEF close_sem, Close, Abstract!Next, Abstract!Shut
  <2>5. ASSUME NEW t \in Threads, NEW n \in Requests, NEW w \in Timeouts,
               acquire_sem_etc(t, n, w)
        PROVE  [Abstract!Next]_<<count, closed>>
    <3>1. CASE UNCHANGED count
      BY <2>1, <2>5, <3>1 DEF acquire_sem_etc
    <3>2. CASE n >= 1 /\ Enough(n) /\ count' = count - n
      BY <2>2, <2>5, <3>2
         DEF acquire_sem_etc, Enough, Abstract!Take, Abstract!Remove
    <3> QED BY <2>5, <3>1, <3>2 DEF acquire_sem_etc, AcquireAtOnce, StartWaiting
  <2>6. ASSUME NEW t \in Threads, AcquireAgain(t)
        PROVE  [Abstract!Next]_<<count, closed>>
    BY <2>1, <2>2, <2>6
       DEF AcquireAgain, Enough, AsksForUnits, Abstract!Take, Abstract!Remove
  <2>7. ASSUME NEW t \in Threads, NEW n \in Grants, NEW f \in Flags,
               release_sem_etc(t, n, f)
        PROVE  [Abstract!Next]_<<count, closed>>
    BY <2>1, <2>2, <2>7 DEF release_sem_etc, RoomFor, Abstract!Give, Abstract!Add
  <2> QED
    BY <2>1, <2>3, <2>4, <2>5, <2>6, <2>7
       DEF Next, Resume, vars, TakePost, WaitFails, Expire, GiveUp
<1> QED
  BY <1>1, <1>2, SemaphoreIPCInvariant, PTL
     DEF Spec, ImplementsCountingSemaphore, Abstract!Spec

-----------------------------------------------------------------------------
(* The area in which a named semaphore lies *)

\* Where a process has a segment open.
Opened == {"sizing", "cloning", "resizing"}

\* What a name, an open descriptor or an area leads to has come to exist.
SegmentsAreUsed ==
    /\ name # NoSeg => name \in used
    /\ \A p \in Procs : /\ procPc[p] \in Opened => fd[p] \in used
                        /\ Has(p) => area[p].seg \in used

\* A process has no area while it makes one, and resizes its own.
CallsHold ==
    \A p \in Procs :
        /\ procPc[p] \in {"collided", "unlinked", "sizing", "cloning"} => ~Has(p)
        /\ procPc[p] = "resizing" => Original(p)

OneCreator ==
    \A p, q \in Procs, s \in Segs : Creates(p, s) /\ Creates(q, s) => p = q

MappedHaveSize == \A p \in Procs : Has(p) => size[area[p].seg] > 0

AreaInv ==
    /\ AreaTypeOK
    /\ SegmentsAreUsed
    /\ CallsHold
    /\ OneCreator
    /\ MappedHaveSize

\* Nobody creates what has never existed.
LEMMA CreatedIsUsed ==
    ASSUME AreaInv, NEW p \in Procs, NEW s, Creates(p, s)
    PROVE  s \in used
  BY DEF AreaInv, SegmentsAreUsed, Creates, Original, CallsHold, Opened

\* A step that creates no segment keeps the invariant if it makes nobody a
\* creator and maps nothing without a size.
LEMMA NothingCreated ==
    ASSUME AreaInv, AreaTypeOK', CallsHold',
           name' \in {name, NoSeg}, used' = used,
           \A p \in Procs : \A s : Creates(p, s)' => Creates(p, s),
           \A p \in Procs : procPc'[p] \in Opened => fd'[p] \in used,
           \A p \in Procs : Has(p)' => /\ area'[p].seg \in used
                                       /\ size'[area'[p].seg] > 0
    PROVE  AreaInv'
<1>1. SegmentsAreUsed'
  BY DEF AreaInv, SegmentsAreUsed
<1>2. OneCreator'
  BY DEF AreaInv, OneCreator
<1>3. MappedHaveSize'
  BY DEF MappedHaveSize
<1> QED BY <1>1, <1>2, <1>3 DEF AreaInv

\* A process that gives up its segment, or whose call leaves it as it is,
\* disturbs nothing, whether or not the name is unlinked meanwhile.
LEMMA LetGo ==
    ASSUME AreaInv, NEW p \in Procs,
           name' \in {name, NoSeg},
           size' = size, used' = used,
           \/ procPc' = procPc
           \/ Goto(p, "idle") \/ Goto(p, "collided") \/ Goto(p, "unlinked"),
           fd' = fd \/ (Open(p, NoSeg) /\ procPc'[p] = "idle"),
           area' = area \/ (Obtain(p, NoArea) /\ procPc'[p] = "idle"),
           procPc'[p] \in {"collided", "unlinked"} => ~Has(p),
           takenOver' \in BOOLEAN
    PROVE  AreaInv'
<1> USE DEF Goto, Open, Obtain
<1>1. AreaTypeOK'
  BY AreaAssumption DEF AreaInv, AreaTypeOK
<1>2. \A q \in Procs : Has(q)' => Has(q) /\ area'[q] = area[q]
  BY DEF AreaInv, AreaTypeOK, Has
<1>3. \A q \in Procs : procPc'[q] \in Opened =>
                            procPc'[q] = procPc[q] /\ fd'[q] = fd[q]
  BY DEF AreaInv, AreaTypeOK, Opened
<1>4. \A q \in Procs : \A s : Creates(q, s)' => Creates(q, s)
  BY <1>2, <1>3 DEF Creates, Original, Opened
<1>5. CallsHold'
  <2>1. \A q \in Procs : q # p => procPc'[q] = procPc[q] /\ area'[q] = area[q]
    BY DEF AreaInv, AreaTypeOK
  <2>2. \/ procPc'[p] = procPc[p] /\ area'[p] = area[p]
        \/ procPc'[p] = "idle"
        \/ procPc'[p] \in {"collided", "unlinked"} /\ ~Has(p)
    BY DEF AreaInv, AreaTypeOK
  <2> QED BY <1>2, <2>1, <2>2 DEF AreaInv, CallsHold, Original, Has
<1> QED
  BY <1>1, <1>2, <1>3, <1>4, <1>5, NothingCreated
     DEF AreaInv, SegmentsAreUsed, MappedHaveSize

\* The segment of a successful shm_open with O_EXCL is nobody else's.
LEMMA CreateKeeps ==
    ASSUME AreaInv, NEW p \in Procs,
           procPc[p] \in {"idle", "unlinked"},
           ~Has(p),
           Create(p), UNCHANGED <<size, area, takenOver>>
    PROVE  AreaInv'
<1> USE DEF Goto, Open
<1>1. PICK s \in Segs \ used : /\ name' = s
                               /\ used' = used \cup {s}
                               /\ fd' = [fd EXCEPT ![p] = s]
  BY DEF Create
<1>2. procPc' = [procPc EXCEPT ![p] = "sizing"]
  BY DEF Create
<1>3. AreaTypeOK'
  BY <1>1, <1>2, AreaAssumption DEF AreaInv, AreaTypeOK
<1>4. SegmentsAreUsed'
  BY <1>1, <1>2 DEF AreaInv, AreaTypeOK, SegmentsAreUsed, Has, Opened
<1>10. CallsHold'
  BY <1>2 DEF AreaInv, AreaTypeOK, CallsHold, Original, Has
<1>5. \A q \in Procs : q # p => \A r : Creates(q, r)' <=> Creates(q, r)
  BY <1>1, <1>2 DEF AreaInv, AreaTypeOK, Creates, Original, Has
<1>6. \A r : Creates(p, r)' => r = s \/ Creates(p, r)
  BY <1>1, <1>2 DEF AreaInv, AreaTypeOK, Creates, Original, Has
<1>7. \A q \in Procs : ~Creates(q, s)
  BY <1>1, CreatedIsUsed
<1>8. OneCreator'
  BY <1>5, <1>6, <1>7 DEF AreaInv, OneCreator
<1>9. MappedHaveSize'
  BY DEF AreaInv, MappedHaveSize, Has
<1> QED BY <1>3, <1>4, <1>8, <1>9, <1>10 DEF AreaInv

\* A process obtains or keeps an area: of a segment that exists and has a size,
\* and as an original only if it is the segment's creator.
LEMMA ObtainKeeps ==
    ASSUME AreaInv, NEW p \in Procs, NEW a \in AreaRecord,
           Obtain(p, a), UNCHANGED <<name, used, takenOver>>,
           \/ UNCHANGED <<procPc, fd>> /\ procPc[p] = "idle"
           \/ Goto(p, "idle") /\ Open(p, NoSeg),
           a.seg \in used,
           ~a.openedIPC => Creates(p, a.seg),
           size' \in [Segs -> 0..MaxSize],
           \A s \in Segs : size[s] > 0 => size'[s] > 0,
           size'[a.seg] > 0
    PROVE  AreaInv'
<1> USE DEF Goto, Open, Obtain
<1>1. AreaTypeOK'
  BY AreaAssumption DEF AreaInv, AreaTypeOK
<1>2. area'[p] = a /\ \A q \in Procs : q # p => area'[q] = area[q]
  BY DEF AreaInv, AreaTypeOK
<1>3. /\ procPc'[p] = "idle"
      /\ \A q \in Procs : q # p => procPc'[q] = procPc[q] /\ fd'[q] = fd[q]
  BY DEF AreaInv, AreaTypeOK
<1>4. \A q \in Procs : \A s : Creates(q, s)' => Creates(q, s)
  BY <1>2, <1>3 DEF Creates, Original, Has
<1>6. CallsHold'
  BY <1>2, <1>3 DEF AreaInv, CallsHold, Original, Has
<1>5. \A q \in Procs : Has(q)' => area'[q].seg \in used /\ size'[area'[q].seg] > 0
  BY <1>2 DEF AreaInv, AreaTypeOK, SegmentsAreUsed, MappedHaveSize, Has
<1> QED
  BY <1>1, <1>3, <1>4, <1>5, <1>6, NothingCreated
     DEF AreaInv, SegmentsAreUsed, Opened

\* It holds while the name is free and nobody has an area.
LEMMA AreaInitInv ==
    ASSUME AreaInit
    PROVE  AreaInv
<1>1. AreaTypeOK
  <2>1. size \in [Segs -> 0..MaxSize]
    BY AreaAssumption DEF AreaInit
  <2>2. /\ procPc \in [Procs -> {"idle", "collided", "unlinked", "sizing", "cloning",
                                "resizing"}]
        /\ fd \in [Procs -> Segs \cup {NoSeg}]
        /\ area \in [Procs -> AreaRecord \cup {NoArea}]
    BY DEF AreaInit
  <2> QED BY <2>1, <2>2 DEF AreaInit, AreaTypeOK
<1>2. \A p \in Procs : procPc[p] = "idle" /\ ~Has(p)
  BY DEF AreaInit, Has
<1>3. \A p \in Procs : \A s : ~Creates(p, s)
  BY <1>2 DEF Creates, Original
<1> QED
  BY <1>1, <1>2, <1>3
     DEF AreaInit, AreaInv, SegmentsAreUsed, CallsHold, OneCreator,
         MappedHaveSize, Opened

\* Every step keeps the invariant.
LEMMA AreaNextInv ==
    ASSUME AreaInv, [AreaNext]_areaVars
    PROVE  AreaInv'
<1> USE DEF Goto, Open, Obtain, GiveUpArea, Deliver, Unlink, TakeOver
<1>1. CASE UNCHANGED areaVars
  BY <1>1 DEF areaVars, AreaInv, AreaTypeOK, SegmentsAreUsed, CallsHold,
              OneCreator, Creates, MappedHaveSize, Has, Original, Opened
<1>0. takenOver \in BOOLEAN
  BY DEF AreaInv, AreaTypeOK
<1>2. ASSUME NEW p \in Procs, create_area(p) PROVE AreaInv'
  <2>1. CASE Create(p)
    BY <1>2, <2>1, CreateKeeps DEF create_area
  <2>2. CASE ~Create(p)
    <3>1. /\ Goto(p, "collided")
          /\ name' = name /\ used' = used /\ fd' = fd /\ size' = size /\ area' = area
          /\ takenOver' = takenOver /\ ~Has(p)
      BY <1>2, <2>2 DEF create_area
    <3> QED BY <1>0, <3>1, LetGo
  <2> QED BY <2>1, <2>2
<1>3. ASSUME NEW p \in Procs, UnlinkTaken(p) PROVE AreaInv'
  <2>0. ~Has(p)
    BY <1>3 DEF UnlinkTaken, AreaInv, CallsHold
  <2>1. CASE name = NoSeg
    <3>1. /\ procPc'[p] = "idle" /\ GiveUpArea(p)
          /\ UNCHANGED <<name, size, used, takenOver>>
      BY <1>3, <2>1 DEF UnlinkTaken, AreaInv, AreaTypeOK
    <3> QED BY <1>0, <3>1, LetGo
  <2>2. CASE name # NoSeg
    <3>1. /\ Unlink /\ Goto(p, "unlinked")
          /\ used' = used /\ fd' = fd /\ size' = size /\ area' = area
      BY <1>3, <2>2 DEF UnlinkTaken
    <3>2. takenOver' \in BOOLEAN
      BY <1>0, <1>3, <2>2 DEF UnlinkTaken
    <3> QED BY <2>0, <3>1, <3>2, LetGo
  <2> QED BY <2>1, <2>2
<1>4. ASSUME NEW p \in Procs, CreateAgain(p) PROVE AreaInv'
  <2>0. ~Has(p) /\ takenOver' = takenOver
    BY <1>4 DEF CreateAgain, AreaInv, CallsHold
  <2>1. CASE Create(p)
    BY <1>4, <2>0, <2>1, CreateKeeps DEF CreateAgain, Create
  <2>2. CASE ~Create(p)
    <3>1. procPc'[p] = "idle"
      BY <1>4, <2>2 DEF CreateAgain, AreaInv, AreaTypeOK
    <3> QED BY <1>0, <1>4, <2>0, <2>2, <3>1, LetGo DEF CreateAgain
  <2> QED BY <2>1, <2>2
<1>5. ASSUME NEW p \in Procs, NEW n \in 1..MaxSize, NEW w \in BOOLEAN,
             SizeAndMap(p, n, w)
      PROVE  AreaInv'
  <2> DEFINE a == [seg |-> fd[p], length |-> n, openedIPC |-> FALSE, writable |-> w]
  <2>1. CASE size' = [size EXCEPT ![fd[p]] = n] /\ Deliver(p, a) /\ UNCHANGED name
    <3>1. fd[p] \in used /\ fd[p] \in Segs /\ Creates(p, fd[p])
      BY <1>5 DEF SizeAndMap, AreaInv, AreaTypeOK, SegmentsAreUsed, Creates, Opened
    <3>2. a \in AreaRecord
      BY <3>1 DEF AreaRecord
    <3>3. /\ size' \in [Segs -> 0..MaxSize] /\ size'[fd[p]] = n
          /\ \A s \in Segs : size[s] > 0 => size'[s] > 0
      BY <2>1, <3>1, AreaAssumption DEF AreaInv, AreaTypeOK
    <3>4. /\ a.seg = fd[p] /\ n > 0
          /\ Obtain(p, a) /\ Goto(p, "idle") /\ Open(p, NoSeg)
          /\ UNCHANGED <<name, used, takenOver>>
      BY <1>5, <2>1 DEF SizeAndMap
    <3> HIDE DEF a
    <3> QED BY <3>1, <3>2, <3>3, <3>4, ObtainKeeps
  <2>2. CASE Unlink /\ GiveUpArea(p) /\ UNCHANGED size
    <3>1. procPc'[p] = "idle"
      BY <2>2 DEF AreaInv, AreaTypeOK
    <3> QED BY <1>0, <1>5, <2>2, <3>1, LetGo DEF SizeAndMap
  <2> QED BY <1>5, <2>1, <2>2 DEF SizeAndMap
<1>6. ASSUME NEW p \in Procs, clone_area(p) PROVE AreaInv'
  <2>1. AreaTypeOK'
    BY <1>6 DEF clone_area, AreaInv, AreaTypeOK
  <2>2. /\ procPc'[p] = "cloning" /\ fd'[p] = name
        /\ \A q \in Procs : q # p => procPc'[q] = procPc[q] /\ fd'[q] = fd[q]
    BY <1>6 DEF clone_area, AreaInv, AreaTypeOK
  <2>3. \A q \in Procs : \A s : Creates(q, s)' => Creates(q, s)
    BY <1>6, <2>2 DEF clone_area, Creates, Original, Has
  <2>4. CallsHold'
    BY <1>6, <2>2 DEF clone_area, AreaInv, CallsHold, Original, Has
  <2> QED
    BY <1>6, <2>1, <2>2, <2>3, <2>4, NothingCreated
       DEF clone_area, AreaInv, SegmentsAreUsed, MappedHaveSize, Has
<1>7. ASSUME NEW p \in Procs, NEW w \in BOOLEAN, MapClone(p, w) PROVE AreaInv'
  <2> DEFINE a == [seg |-> fd[p], length |-> size[fd[p]],
                   openedIPC |-> TRUE, writable |-> w]
  <2>1. CASE size[fd[p]] > 0 /\ Deliver(p, a)
    <3>1. fd[p] \in used /\ fd[p] \in Segs
      BY <1>7 DEF MapClone, AreaInv, AreaTypeOK, SegmentsAreUsed, Opened
    <3>2. a \in AreaRecord
      BY <2>1, <3>1, AreaAssumption DEF AreaRecord, AreaInv, AreaTypeOK
    <3> QED
      BY <1>7, <2>1, <3>1, <3>2, ObtainKeeps DEF MapClone, AreaInv, AreaTypeOK
  <2>2. CASE GiveUpArea(p)
    <3>1. procPc'[p] = "idle"
      BY <2>2 DEF AreaInv, AreaTypeOK
    <3> QED BY <1>0, <1>7, <2>2, <3>1, LetGo DEF MapClone
  <2> QED BY <1>7, <2>1, <2>2 DEF MapClone, Mappable
<1>8. ASSUME NEW p \in Procs, delete_area(p) PROVE AreaInv'
  <2>1. procPc' = procPc /\ procPc'[p] = "idle" /\ takenOver' \in BOOLEAN
    BY <1>0, <1>8 DEF delete_area
  <2> QED BY <1>8, <2>1, LetGo DEF delete_area
<1>9. ASSUME NEW p \in Procs, NEW b \in BOOLEAN, delete_area_etc(p, b)
      PROVE  AreaInv'
  <2>1. procPc' = procPc /\ procPc'[p] = "idle"
    BY <1>9 DEF delete_area_etc
  <2>2. takenOver' \in BOOLEAN
    BY <1>0, <1>9 DEF delete_area_etc
  <2> QED BY <1>9, <2>1, <2>2, LetGo DEF delete_area_etc
<1>10. ASSUME NEW p \in Procs, Has(p)
       PROVE  /\ area[p] \in AreaRecord
              /\ area[p].seg \in used /\ size[area[p].seg] > 0
              /\ ~area[p].openedIPC => Creates(p, area[p].seg)
  BY <1>10 DEF Has, AreaInv, AreaTypeOK, SegmentsAreUsed, MappedHaveSize, Creates,
               Original
<1>11. ASSUME NEW p \in Procs, b_resize_area(p) PROVE AreaInv'
  <2>1. AreaTypeOK'
    BY <1>11 DEF b_resize_area, AreaInv, AreaTypeOK
  <2>2. /\ procPc'[p] = "resizing" /\ fd'[p] = name
        /\ \A q \in Procs : q # p => procPc'[q] = procPc[q] /\ fd'[q] = fd[q]
    BY <1>11 DEF b_resize_area, AreaInv, AreaTypeOK
  <2>3. \A q \in Procs : \A s : Creates(q, s)' => Creates(q, s)
    BY <1>11, <2>2 DEF b_resize_area, Creates, Original, Has
  <2>4. CallsHold'
    BY <1>11, <2>2 DEF b_resize_area, AreaInv, CallsHold, Original, Has
  <2> QED
    BY <1>11, <2>1, <2>2, <2>3, <2>4, NothingCreated
       DEF b_resize_area, AreaInv, SegmentsAreUsed, MappedHaveSize, Has
<1>14. ASSUME NEW p \in Procs, NEW n \in 1..MaxSize, Resize(p, n) PROVE AreaInv'
  <2>1. /\ Has(p) /\ ~area[p].openedIPC
        /\ fd[p] \in Segs /\ area[p] \in AreaRecord /\ area[p].seg \in Segs
    BY <1>10, <1>14
       DEF Resize, AreaInv, AreaTypeOK, AreaRecord, CallsHold, Original,
           SegmentsAreUsed, Opened
  <2>2. ASSUME NEW k \in 1..MaxSize, size' = [size EXCEPT ![fd[p]] = k]
        PROVE  /\ size' \in [Segs -> 0..MaxSize]
               /\ \A s \in Segs : size[s] > 0 => size'[s] > 0
    BY <2>1, <2>2, AreaAssumption DEF AreaInv, AreaTypeOK
  <2>3. CASE /\ size' = [size EXCEPT ![fd[p]] = n]
             /\ Deliver(p, [area[p] EXCEPT !.length = n])
    <3> DEFINE a == [area[p] EXCEPT !.length = n]
    <3>1. a \in AreaRecord /\ a.seg = area[p].seg /\ a.openedIPC = area[p].openedIPC
      BY <2>1 DEF AreaRecord
    <3>2. /\ Obtain(p, a) /\ Goto(p, "idle") /\ Open(p, NoSeg)
          /\ UNCHANGED <<name, used, takenOver>>
      BY <1>14, <2>3 DEF Resize
    <3> HIDE DEF a
    <3> QED BY <1>10, <2>1, <2>2, <2>3, <3>1, <3>2, ObtainKeeps
  <2>4. CASE size' = [size EXCEPT ![fd[p]] = area[p].length] /\ GiveUpArea(p)
    <3>1. area[p].length \in 1..MaxSize
      BY <2>1 DEF AreaRecord
    <3>2. /\ area' = [area EXCEPT ![p] = area[p]]
          /\ Goto(p, "idle") /\ Open(p, NoSeg)
          /\ UNCHANGED <<name, used, takenOver>>
      BY <1>14, <2>4 DEF AreaInv, AreaTypeOK, Resize
    <3> QED BY <1>10, <2>1, <2>2, <2>4, <3>1, <3>2, ObtainKeeps
  <2>5. CASE GiveUpArea(p) /\ UNCHANGED size
    <3>1. procPc'[p] = "idle"
      BY <2>5 DEF AreaInv, AreaTypeOK
    <3> QED BY <1>0, <1>14, <2>5, <3>1, LetGo DEF Resize
  <2> QED BY <1>14, <2>3, <2>4, <2>5 DEF Resize
<1>12. ASSUME NEW p \in Procs, NEW w \in BOOLEAN, b_set_area_protection(p, w)
       PROVE  AreaInv'
  <2> DEFINE a == [area[p] EXCEPT !.writable = w]
  <2>1. /\ a \in AreaRecord /\ a.seg = area[p].seg
        /\ a.openedIPC = area[p].openedIPC
    BY <1>10, <1>12 DEF b_set_area_protection, AreaRecord
  <2> QED
    BY <1>10, <1>12, <2>1, ObtainKeeps DEF b_set_area_protection, AreaInv, AreaTypeOK
<1>13. ASSUME NEW p \in Procs, Die(p) PROVE AreaInv'
  <2>1. procPc'[p] = "idle"
    BY <1>13 DEF Die, AreaInv, AreaTypeOK
  <2> QED BY <1>0, <1>13, <2>1, LetGo DEF Die
<1> QED
  BY <1>1, <1>2, <1>3, <1>4, <1>5, <1>6, <1>7, <1>8, <1>9, <1>11, <1>12, <1>13,
     <1>14 DEF AreaNext

\* However processes that create, clone, resize and delete areas of one name
\* interleave, fail or die, a segment has one creator at most and nobody has a
\* segment mapped that has no size yet (create_area, clone_area).
THEOREM AreaSegmentsSound == AreaSpec => []SegmentsAreSound
<1>1. AreaInit => AreaInv
  BY AreaInitInv
<1>2. AreaInv /\ [AreaNext]_areaVars => AreaInv'
  BY AreaNextInv
<1>3. AreaInv => SegmentsAreSound
  <2> SUFFICES ASSUME AreaInv PROVE SegmentsAreSound
    OBVIOUS
  <2>1. \A p \in Procs : Has(p) => area[p].length > 0
    BY DEF AreaInv, AreaTypeOK, Has, AreaRecord
  <2> QED
    BY <2>1 DEF SegmentsAreSound, AreaInv, OneCreator, MappedHaveSize
<1> QED BY <1>1, <1>2, <1>3, PTL DEF AreaSpec

\* A resize half-way has its own segment open while no name has been taken.
ResizesOwn ==
    ~takenOver =>
        \A p \in Procs : procPc[p] = "resizing" => fd[p] = area[p].seg

NameInv == NamesStayWithCreators /\ ResizesOwn

\* Until a name is taken over, at most one process creates, and it has the name.
LEMMA OnlyCreator ==
    ASSUME AreaInv, NameInv, ~takenOver, NEW p \in Procs, NEW q \in Procs,
           procPc[p] = "sizing" \/ Original(p),
           procPc[q] = "sizing" \/ Original(q)
    PROVE  /\ p = q /\ name \in Segs
           /\ Creates(p, name)
<1>1. Creates(p, name) /\ Creates(q, name)
  BY DEF NameInv, NamesStayWithCreators, Creates
<1>2. name \in used
  BY <1>1, CreatedIsUsed
<1>3. name \in Segs
  BY <1>2 DEF AreaInv, AreaTypeOK
<1> QED BY <1>1, <1>3 DEF AreaInv, OneCreator

\* A step after which every creator was one before, with the same segment, and
\* that neither moves the name nor changes a creator's size.
LEMMA NamesUntouched ==
    ASSUME AreaInv, NameInv,
           takenOver => takenOver',
           \A p \in Procs :
                /\ procPc'[p] = "sizing" =>
                        procPc[p] = "sizing" /\ fd'[p] = fd[p] /\ name' = name
                /\ procPc'[p] = "resizing" =>
                        procPc[p] = "resizing" /\ fd'[p] = fd[p]
                                               /\ area'[p] = area[p]
                /\ Original(p)' =>
                        /\ Original(p) /\ name' = name
                        /\ area'[p].seg = area[p].seg
                        /\ size'[area[p].seg] = size[area[p].seg]
                        /\ area'[p].length = area[p].length
    PROVE  NameInv'
<1>1. CASE takenOver'
  BY <1>1 DEF NameInv, NamesStayWithCreators, ResizesOwn
<1>2. CASE ~takenOver'
  <2>1. ~takenOver
    BY <1>2
  <2>2. ResizesOwn'
    BY <2>1 DEF NameInv, ResizesOwn
  <2>3. NamesStayWithCreators'
    BY <2>1 DEF NameInv, NamesStayWithCreators
  <2> QED BY <2>2, <2>3 DEF NameInv
<1> QED BY <1>1, <1>2

\* Every step keeps names with their creators.
LEMMA NameNextInv ==
    ASSUME AreaInv, NameInv, [AreaNext]_areaVars
    PROVE  NameInv'
<1> USE DEF Goto, Open, Obtain, GiveUpArea, Deliver, Unlink
<1>0. /\ AreaTypeOK /\ CallsHold
      /\ procPc \in [Procs -> {"idle", "collided", "unlinked", "sizing", "cloning",
                              "resizing"}]
      /\ fd \in [Procs -> Segs \cup {NoSeg}]
      /\ area \in [Procs -> AreaRecord \cup {NoArea}]
      /\ size \in [Segs -> 0..MaxSize]
      /\ takenOver \in BOOLEAN
  BY DEF AreaInv, AreaTypeOK
<1>1. CASE UNCHANGED areaVars
  BY <1>1, NamesUntouched DEF areaVars, Original, Has
<1>2. ASSUME NEW p \in Procs, ~Has(p), procPc[p] \in {"idle", "unlinked"},
             Create(p), UNCHANGED <<size, area, takenOver>>
      PROVE  NameInv'
  <2>1. CASE takenOver
    BY <1>2, <2>1 DEF NameInv, NamesStayWithCreators, ResizesOwn
  <2>2. CASE ~takenOver
    <3>1. name = NoSeg
      BY <1>2 DEF Create
    <3>2. \A q \in Procs : procPc[q] # "sizing" /\ ~Original(q)
      BY <2>2, <3>1, OnlyCreator, AreaAssumption DEF AreaAssumption
    <3>3. \A q \in Procs : procPc[q] # "resizing"
      BY <1>0, <3>2 DEF CallsHold
    <3>4. PICK s \in Segs : name' = s /\ fd' = [fd EXCEPT ![p] = s]
      BY <1>2 DEF Create
    <3>5. procPc' = [procPc EXCEPT ![p] = "sizing"]
      BY <1>2 DEF Create
    <3>6. \A q \in Procs : /\ procPc'[q] = "sizing" => fd'[q] = name'
                           /\ procPc'[q] # "resizing" /\ ~Original(q)'
      BY <1>0, <1>2, <3>2, <3>3, <3>4, <3>5 DEF Original, Has
    <3> QED BY <3>6 DEF NameInv, NamesStayWithCreators, ResizesOwn
  <2> QED BY <2>1, <2>2
<1>3. ASSUME NEW p \in Procs, create_area(p) PROVE NameInv'
  <2>1. CASE Create(p)
    BY <1>2, <1>3, <2>1 DEF create_area
  <2>2. CASE ~Create(p)
    <3>1. /\ procPc' = [procPc EXCEPT ![p] = "collided"]
          /\ UNCHANGED <<name, size, fd, area, takenOver>>
      BY <1>3, <2>2 DEF create_area
    <3> QED BY <1>0, <3>1, NamesUntouched DEF Original, Has
  <2> QED BY <2>1, <2>2
<1>4. ASSUME NEW p \in Procs, UnlinkTaken(p) PROVE NameInv'
  <2>1. CASE name = NoSeg
    <3>1. /\ procPc' = [procPc EXCEPT ![p] = "idle"] /\ fd' = [fd EXCEPT ![p] = NoSeg]
          /\ UNCHANGED <<name, size, area, takenOver>>
      BY <1>4, <2>1 DEF UnlinkTaken
    <3> QED BY <1>0, <3>1, NamesUntouched DEF Original, Has
  <2>2. CASE name # NoSeg
    <3>1. /\ procPc' = [procPc EXCEPT ![p] = "unlinked"] /\ name' = NoSeg
          /\ UNCHANGED <<size, fd, area>>
          /\ takenOver' = (takenOver \/ \E q \in Procs : Creates(q, name))
      BY <1>4, <2>2 DEF UnlinkTaken, TakeOver
    <3>2. ASSUME ~takenOver', NEW q \in Procs
          PROVE  procPc[q] # "sizing" /\ ~Original(q) /\ procPc[q] # "resizing"
      BY <1>0, <3>1, <3>2, OnlyCreator DEF CallsHold
    <3> QED
      BY <1>0, <3>1, <3>2
         DEF NameInv, NamesStayWithCreators, ResizesOwn, Original, Has
  <2> QED BY <2>1, <2>2
<1>5. ASSUME NEW p \in Procs, CreateAgain(p) PROVE NameInv'
  <2>1. CASE Create(p)
    BY <1>0, <1>2, <1>5, <2>1 DEF CreateAgain, CallsHold
  <2>2. CASE ~Create(p)
    <3>1. /\ procPc' = [procPc EXCEPT ![p] = "idle"] /\ fd' = [fd EXCEPT ![p] = NoSeg]
          /\ UNCHANGED <<name, size, area, takenOver>>
      BY <1>5, <2>2 DEF CreateAgain
    <3> QED BY <1>0, <3>1, NamesUntouched DEF Original, Has
  <2> QED BY <2>1, <2>2
<1>6. ASSUME NEW p \in Procs, NEW n \in 1..MaxSize, NEW w \in BOOLEAN,
             SizeAndMap(p, n, w)
      PROVE  NameInv'
  <2> DEFINE a == [seg |-> fd[p], length |-> n, openedIPC |-> FALSE, writable |-> w]
  <2>0. /\ takenOver' = takenOver /\ procPc[p] = "sizing" /\ ~Has(p)
        /\ procPc' = [procPc EXCEPT ![p] = "idle"] /\ fd' = [fd EXCEPT ![p] = NoSeg]
    BY <1>0, <1>6 DEF SizeAndMap, CallsHold
  <2>1. CASE takenOver
    BY <2>0, <2>1 DEF NameInv, NamesStayWithCreators, ResizesOwn
  <2>2. CASE ~takenOver
    <3>1. name = fd[p] /\ name \in Segs
      BY <2>0, <2>2, OnlyCreator DEF NameInv, NamesStayWithCreators
    <3>2. \A q \in Procs : q # p => procPc[q] # "sizing" /\ ~Original(q)
      BY <2>0, <2>2, OnlyCreator
    <3>3. \A q \in Procs : procPc'[q] # "sizing" /\ procPc'[q] # "resizing"
      BY <1>0, <2>0, <3>2 DEF CallsHold
    <3>4. CASE /\ size' = [size EXCEPT ![fd[p]] = n]
               /\ area' = [area EXCEPT ![p] = a]
               /\ UNCHANGED name
      <4>1. area'[p] = a /\ \A q \in Procs : q # p => area'[q] = area[q]
        BY <1>0, <3>4
      <4>2. \A q \in Procs : Original(q)' => q = p
        BY <3>2, <4>1 DEF Original, Has
      <4>3. size'[fd[p]] = n
        BY <1>0, <3>1, <3>4
      <4>4. a.seg = fd[p] /\ a.length = n
        OBVIOUS
      <4> QED
        BY <3>1, <3>3, <3>4, <4>1, <4>2, <4>3, <4>4
           DEF NameInv, NamesStayWithCreators, ResizesOwn
    <3>5. CASE area' = area
      BY <2>0, <3>2, <3>3, <3>5
         DEF NameInv, NamesStayWithCreators, ResizesOwn, Original, Has
    <3> QED BY <1>6, <3>4, <3>5 DEF SizeAndMap
  <2> QED BY <1>0, <2>1, <2>2
<1>7. ASSUME NEW p \in Procs, clone_area(p) PROVE NameInv'
  <2>1. /\ procPc' = [procPc EXCEPT ![p] = "cloning"] /\ fd' = [fd EXCEPT ![p] = name]
        /\ UNCHANGED <<name, size, area, takenOver>>
    BY <1>7 DEF clone_area
  <2> QED BY <1>0, <2>1, NamesUntouched DEF Original, Has
<1>8. ASSUME NEW p \in Procs, NEW w \in BOOLEAN, MapClone(p, w) PROVE NameInv'
  <2> DEFINE a == [seg |-> fd[p], length |-> size[fd[p]],
                   openedIPC |-> TRUE, writable |-> w]
  <2>1. /\ procPc' = [procPc EXCEPT ![p] = "idle"] /\ fd' = [fd EXCEPT ![p] = NoSeg]
        /\ UNCHANGED <<name, size, takenOver>>
        /\ area' = area \/ area' = [area EXCEPT ![p] = a]
    BY <1>8 DEF MapClone
  <2>2. \A q \in Procs : q # p =>
            procPc'[q] = procPc[q] /\ fd'[q] = fd[q] /\ area'[q] = area[q]
    BY <1>0, <2>1
  <2>3. procPc'[p] = "idle" /\ (area'[p] = area[p] \/ area'[p] = a)
    BY <1>0, <2>1
  <2>4. a.openedIPC
    OBVIOUS
  <2> HIDE DEF a
  <2> QED BY <2>1, <2>2, <2>3, <2>4, NamesUntouched DEF Original, Has
<1>9. ASSUME NEW p \in Procs, Has(p), procPc[p] = "idle",
             area' = [area EXCEPT ![p] = NoArea],
             UNCHANGED <<size, procPc, fd>>,
             \/ UNCHANGED <<name, takenOver>>
             \/ UNCHANGED takenOver /\ ~area[p].openedIPC /\ name' = NoSeg
             \/ /\ takenOver' = (takenOver \/ \E q \in Procs : Creates(q, name))
                /\ area[p].openedIPC
      PROVE  NameInv'
  <2>1. /\ ~Has(p)'
        /\ \A q \in Procs : q # p => area'[q] = area[q]
    BY <1>0, <1>9 DEF Has
  <2>2. CASE UNCHANGED <<name, takenOver>>
    BY <1>9, <2>1, <2>2, NamesUntouched DEF Original, Has
  <2>3. CASE takenOver'
    BY <2>3 DEF NameInv, NamesStayWithCreators, ResizesOwn
  <2>4. CASE ~takenOver' /\ ~UNCHANGED <<name, takenOver>>
    <3>1. ASSUME NEW q \in Procs, q # p
          PROVE  procPc[q] # "sizing" /\ ~Original(q)
      <4>1. ~takenOver
        BY <1>0, <1>9, <2>4
      <4>2. Original(p) => procPc[q] # "sizing" /\ ~Original(q)
        BY <3>1, <4>1, OnlyCreator
      <4>3. area[p].openedIPC => ~Creates(q, name)
        BY <1>9, <2>4
      <4>4. procPc[q] = "sizing" \/ Original(q) => Creates(q, name)
        BY <4>1, OnlyCreator
      <4> QED BY <1>9, <4>2, <4>3, <4>4 DEF Original
    <3>2. \A q \in Procs : ~Original(q)' /\ procPc'[q] # "sizing"
      BY <1>9, <2>1, <3>1 DEF Original, Has
    <3>3. \A q \in Procs : procPc'[q] # "resizing"
      BY <1>0, <1>9, <3>1 DEF CallsHold
    <3> QED BY <3>2, <3>3 DEF NameInv, NamesStayWithCreators, ResizesOwn
  <2> QED BY <2>2, <2>3, <2>4
<1>10. ASSUME NEW p \in Procs, delete_area(p) PROVE NameInv'
  BY <1>9, <1>10 DEF delete_area, Unlinks
<1>11. ASSUME NEW p \in Procs, NEW b \in BOOLEAN, delete_area_etc(p, b)
       PROVE  NameInv'
  BY <1>9, <1>11 DEF delete_area_etc, TakeOver
<1>12. ASSUME NEW p \in Procs, b_resize_area(p) PROVE NameInv'
  <2>1. /\ procPc' = [procPc EXCEPT ![p] = "resizing"] /\ fd' = [fd EXCEPT ![p] = name]
        /\ UNCHANGED <<name, size, area, takenOver>>
        /\ Original(p)
    BY <1>12 DEF b_resize_area
  <2>2. NamesStayWithCreators'
    BY <1>0, <2>1 DEF NameInv, NamesStayWithCreators, Original, Has
  <2>3. ResizesOwn'
    BY <1>0, <2>1 DEF NameInv, NamesStayWithCreators, ResizesOwn
  <2> QED BY <2>2, <2>3 DEF NameInv
<1>13. ASSUME NEW p \in Procs, NEW n \in 1..MaxSize, Resize(p, n) PROVE NameInv'
  <2>0. /\ takenOver' = takenOver /\ name' = name
        /\ procPc[p] = "resizing" /\ Original(p)
        /\ procPc' = [procPc EXCEPT ![p] = "idle"] /\ fd' = [fd EXCEPT ![p] = NoSeg]
    BY <1>0, <1>13 DEF Resize, CallsHold
  <2>1. CASE takenOver
    BY <2>0, <2>1 DEF NameInv, NamesStayWithCreators, ResizesOwn
  <2>2. CASE ~takenOver
    <3>1. /\ name = fd[p] /\ name = area[p].seg /\ name \in Segs
          /\ size[name] = area[p].length
      BY <2>0, <2>2, OnlyCreator DEF NameInv, NamesStayWithCreators, ResizesOwn
    <3>2. \A q \in Procs : q # p => procPc[q] # "sizing" /\ ~Original(q)
      BY <2>0, <2>2, OnlyCreator
    <3>3. \A q \in Procs : procPc'[q] # "sizing" /\ procPc'[q] # "resizing"
      BY <1>0, <2>0, <3>2 DEF CallsHold
    <3>4. area[p] \in AreaRecord
      BY <1>0, <2>0 DEF Original, Has
    <3>5. ASSUME NEW k, size' = [size EXCEPT ![fd[p]] = k],
                 NEW a, a.seg = area[p].seg, a.length = k,
                 area' = [area EXCEPT ![p] = a]
          PROVE  NameInv'
      <4>1. area'[p] = a /\ \A q \in Procs : q # p => area'[q] = area[q]
        BY <1>0, <3>5
      <4>2. \A q \in Procs : Original(q)' => q = p
        BY <3>2, <4>1 DEF Original, Has
      <4>3. size'[name] = k
        BY <1>0, <3>1, <3>5
      <4> QED
        BY <2>0, <3>1, <3>3, <3>5, <4>1, <4>2, <4>3
           DEF NameInv, NamesStayWithCreators, ResizesOwn
    <3>6. CASE /\ size' = [size EXCEPT ![fd[p]] = n]
               /\ area' = [area EXCEPT ![p] = [area[p] EXCEPT !.length = n]]
      <4> DEFINE a == [area[p] EXCEPT !.length = n]
      <4>1. a.seg = area[p].seg /\ a.length = n
        BY <3>4 DEF AreaRecord
      <4> HIDE DEF a
      <4>2. area' = [area EXCEPT ![p] = a]
        BY <3>6 DEF a
      <4> QED BY <3>5, <3>6, <4>1, <4>2
    <3>7. CASE size' = [size EXCEPT ![fd[p]] = area[p].length] /\ area' = area
      <4>1. area' = [area EXCEPT ![p] = area[p]]
        BY <1>0, <3>7
      <4> QED BY <3>5, <3>7, <4>1
    <3>8. CASE size' = size /\ area' = area
      <4>1. size' = [size EXCEPT ![fd[p]] = size[fd[p]]]
        BY <1>0, <3>8
      <4>2. size[fd[p]] = area[p].length
        BY <3>1
      <4> QED BY <3>7, <3>8, <4>1, <4>2
    <3> QED BY <1>13, <3>6, <3>7, <3>8 DEF Resize
  <2> QED BY <1>0, <2>1, <2>2
<1>14. ASSUME NEW p \in Procs, NEW w \in BOOLEAN, b_set_area_protection(p, w)
       PROVE  NameInv'
  <2> DEFINE a == [area[p] EXCEPT !.writable = w]
  <2>1. /\ area[p] \in AreaRecord /\ procPc[p] = "idle"
        /\ area' = [area EXCEPT ![p] = a]
        /\ UNCHANGED <<name, size, procPc, fd, takenOver>>
    BY <1>0, <1>14 DEF b_set_area_protection, Has
  <2>2. /\ a.seg = area[p].seg /\ a.length = area[p].length
        /\ a.openedIPC = area[p].openedIPC
        /\ a \in AreaRecord
    BY <2>1 DEF AreaRecord
  <2>3. area'[p] = a /\ \A q \in Procs : q # p => area'[q] = area[q]
    BY <1>0, <2>1
  <2>4. Has(p)
    BY <1>14 DEF b_set_area_protection
  <2> HIDE DEF a
  <2> QED BY <2>1, <2>2, <2>3, <2>4, NamesUntouched DEF Original, Has
<1>15. ASSUME NEW p \in Procs, Die(p) PROVE NameInv'
  <2>1. /\ procPc' = [procPc EXCEPT ![p] = "idle"] /\ fd' = [fd EXCEPT ![p] = NoSeg]
        /\ area' = [area EXCEPT ![p] = NoArea]
        /\ UNCHANGED <<name, size, takenOver>>
    BY <1>15 DEF Die
  <2>2. \A q \in Procs : q # p =>
            procPc'[q] = procPc[q] /\ fd'[q] = fd[q] /\ area'[q] = area[q]
    BY <1>0, <2>1
  <2>3. procPc'[p] = "idle" /\ ~Original(p)'
    BY <1>0, <2>1 DEF Original, Has
  <2> QED BY <2>1, <2>2, <2>3, NamesUntouched DEF Original, Has
<1> QED
  BY <1>1, <1>3, <1>4, <1>5, <1>6, <1>7, <1>8, <1>10, <1>11, <1>12, <1>13,
     <1>14, <1>15 DEF AreaNext

\* For any number of processes: until somebody takes the name of a creator that
\* is alive, no unlink and no resize hits another's segment.
THEOREM AreaNamesStay == AreaSpec => []NamesStayWithCreators
<1>1. AreaInit => AreaInv
  BY AreaInitInv
<1>2. AreaInit => NameInv
  BY DEF AreaInit, NameInv, NamesStayWithCreators, ResizesOwn, Original, Has
<1>3. AreaInv /\ [AreaNext]_areaVars => AreaInv'
  BY AreaNextInv
<1>4. AreaInv /\ NameInv /\ [AreaNext]_areaVars => NameInv'
  BY NameNextInv
<1>5. NameInv => NamesStayWithCreators
  BY DEF NameInv
<1> QED BY <1>1, <1>2, <1>3, <1>4, <1>5, PTL DEF AreaSpec
====
