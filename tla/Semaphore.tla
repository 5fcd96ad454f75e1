---- MODULE Semaphore ----
(***************************************************************************)
(* The counting semaphore of the POSIX kernel wrapper                        *)
(* (src/src/wrappers/posix/BHAPI_wrapper_semaphore.cpp) as it is built on a  *)
(* mutex and a condition variable: every unnamed (local) semaphore, and the  *)
(* named ones when BHAPI_PTHREAD_SHARED is defined.                          *)
(*                                                                           *)
(* iMutex guards the fields and is held for the whole of every function      *)
(* except while acquire_sem_etc sleeps on iCond, so one action is one such   *)
(* section.  The reference count is guarded by a global lock instead.  The   *)
(* latest holder, which only get_sem_info reports, is left out.              *)
(***************************************************************************)
EXTENDS Handles, Integers

CONSTANTS
    Amounts,        \* counts that clients pass to create, acquire and release
    Flags,          \* flags that clients pass to release_sem_etc
    MaxCount,       \* B_MAXINT64
    MaxRefCount,    \* B_MAXUINT32
    CondMayFail     \* whether pthread_cond_*wait may fail outright

ASSUME SemaphoreAssumption ==
    /\ IsFiniteSet(Threads)
    /\ Amounts \subseteq Int
    /\ Flags \subseteq {"none", "B_DO_NOT_RESCHEDULE", "B_RELEASE_ALL"}
    /\ MaxCount \in Nat
    /\ MaxRefCount \in Nat \ {0}
    /\ CondMayFail \in BOOLEAN

Timeouts == {"negative", "now", "deadline", "forever"}

Statuses == {"none", "B_OK", "B_ERROR", "B_BAD_VALUE", "B_WOULD_BLOCK",
             "B_TIMED_OUT"}

VARIABLES
    phase,          \* "absent", "live" or "freed": the semaphore itself
    count,          \* units to be had
    acquiringCount, \* units that waiting calls ask for
    closed,
    no_clone,
    refCount,
    iMutex,         \* the thread that locked iMutex twice and hangs, if any
    refOwner,       \* the table of client references
    pc,             \* per thread: "idle", "asleep" on iCond, "woken",
                    \* "expired" (the wait timed out) or "hung"
    req,            \* per thread: the count its acquire asks for
    timeout,        \* per thread: the timeout of its acquire
    status,         \* per thread: what its last completed call returned
    unannounced     \* history: units were released with B_DO_NOT_RESCHEDULE
                    \* and iCond has not been broadcast since

life == <<phase, no_clone, refCount, refOwner>>
vars == <<phase, count, acquiringCount, closed, no_clone, refCount, iMutex,
          refOwner, pc, req, timeout, status, unannounced>>

TypeOK ==
    /\ phase \in {"absent", "live", "freed"}
    /\ count \in 0..MaxCount
    /\ acquiringCount \in 0..MaxCount
    /\ closed \in BOOLEAN
    /\ no_clone \in BOOLEAN
    /\ refCount \in 0..MaxRefCount
    /\ iMutex \in Threads \cup {NoThread}
    /\ refOwner \in Tables
    /\ pc \in [Threads -> {"idle", "asleep", "woken", "expired", "hung"}]
    /\ req \in [Threads -> 0..MaxCount]
    /\ timeout \in [Threads -> Timeouts]
    /\ status \in [Threads -> Statuses]
    /\ unannounced \in BOOLEAN

Init ==
    /\ phase = "absent"
    /\ count = 0
    /\ acquiringCount = 0
    /\ closed = FALSE
    /\ no_clone = FALSE
    /\ refCount = 0
    /\ iMutex = NoThread
    /\ refOwner = NoRefs
    /\ pc = [t \in Threads |-> "idle"]
    /\ req = [t \in Threads |-> 0]
    /\ timeout = [t \in Threads |-> "forever"]
    /\ status = [t \in Threads |-> "none"]
    /\ unannounced = FALSE

-----------------------------------------------------------------------------
(* Helpers *)

\* pthread_cond_broadcast(iCond), as a function of pc.
Broadcast(p) == [t \in Threads |-> IF p[t] = "asleep" THEN "woken" ELSE p[t]]

\* A thread starts a call with a reference of its own ...
HoldsHandle(t) ==
    /\ phase = "live"
    /\ pc[t] = "idle"
    /\ Owns(refOwner, t)

\* ... and gets iMutex.
Calling(t) == HoldsHandle(t) /\ iMutex = NoThread

Return(t, s) == status' = [status EXCEPT ![t] = s]

\* count - n >= 0: there are n units to be had.
EagerEnough(n) == n <= count + 1    \* seeded fault: off by one
Enough(n) == n <= count

\* B_MAXINT64 - count >= n: n more units do not overflow the counter.
LateRoomFor(n) == count <= MaxCount     \* seeded fault: no overflow check
RoomFor(n) == n <= MaxCount - count

-----------------------------------------------------------------------------
(* Life cycle *)

create_sem_for_local(t, n) ==
    /\ phase = "absent"
    /\ n \in 0..MaxCount
    /\ phase' = "live"
    /\ count' = n
    /\ refCount' = 1
    /\ refOwner' \in GivenTo(refOwner, t)
    /\ UNCHANGED <<acquiringCount, closed, no_clone, iMutex, pc, req, timeout,
                   status, unannounced>>

\* t clones the semaphore for u; NULL is recorded as B_ERROR.  Unlike a
\* locker, a closed semaphore can be cloned.
clone_sem_by_source(t, u) ==
    /\ HoldsHandle(t)
    /\ IF no_clone \/ refCount >= MaxRefCount \/ refCount = 0
         THEN /\ Return(t, "B_ERROR")
              /\ UNCHANGED <<refCount, refOwner>>
         ELSE /\ refCount' = refCount + 1
              /\ refOwner' \in GivenTo(refOwner, u)
              /\ Return(t, "B_OK")
    /\ UNCHANGED <<phase, count, acquiringCount, closed, no_clone, iMutex, pc,
                   req, timeout, unannounced>>

DropReference(t) ==
    /\ refOwner' \in TakenFrom(refOwner, t)
    /\ refCount' = refCount - 1
    /\ phase' = IF refCount' > 0 THEN "live" ELSE "freed"

\* delete_sem is delete_sem_etc with noClone = FALSE.
delete_sem_etc(t, noClone) ==
    /\ HoldsHandle(t)
    /\ DropReference(t)
    /\ no_clone' = (no_clone \/ noClone)
    /\ Return(t, "B_OK")
    /\ UNCHANGED <<count, acquiringCount, closed, iMutex, pc, req, timeout,
                   unannounced>>

\* Seeded fault: closing wakes nobody.
SilentClose == closed' = TRUE /\ UNCHANGED <<pc, unannounced>>

Close ==
    /\ closed' = TRUE
    /\ pc' = Broadcast(pc)
    /\ unannounced' = FALSE

close_sem(t) ==
    /\ Calling(t)
    /\ IF closed
         THEN Return(t, "B_ERROR") /\ UNCHANGED <<closed, pc, unannounced>>
         ELSE Return(t, "B_OK") /\ Close
    /\ UNCHANGED <<life, count, acquiringCount, iMutex, req, timeout>>

-----------------------------------------------------------------------------
(* acquire_sem_etc *)

\* The part before the first wait.  A closed semaphore still hands out the
\* units it has.
AcquireAtOnce(t, n, w) ==
    /\ IF w = "negative" \/ n < 1
         THEN Return(t, "B_BAD_VALUE") /\ UNCHANGED count
         ELSE \/ /\ Enough(n)
                 /\ count' = count - n
                 /\ Return(t, "B_OK")
              \/ /\ ~Enough(n)
                 /\ closed
                 /\ Return(t, "B_ERROR")
                 /\ UNCHANGED count
              \/ /\ ~Enough(n)
                 /\ ~closed
                 /\ w = "now"
                 /\ Return(t, "B_WOULD_BLOCK")
                 /\ UNCHANGED count
              \/ /\ ~Enough(n)
                 /\ ~closed
                 /\ w # "now"
                 /\ n > MaxCount - acquiringCount
                 /\ Return(t, "B_ERROR")
                 /\ UNCHANGED count
    /\ UNCHANGED <<acquiringCount, pc, req, timeout>>

StartWaiting(t, n, w) ==
    /\ w \in {"deadline", "forever"}
    /\ n >= 1
    /\ ~Enough(n)
    /\ ~closed
    /\ n <= MaxCount - acquiringCount
    /\ acquiringCount' = acquiringCount + n
    /\ pc' = [pc EXCEPT ![t] = "asleep"]
    /\ req' = [req EXCEPT ![t] = n]
    /\ timeout' = [timeout EXCEPT ![t] = w]
    /\ UNCHANGED <<count, status>>

acquire_sem_etc(t, n, w) ==
    /\ Calling(t)
    /\ AcquireAtOnce(t, n, w) \/ StartWaiting(t, n, w)
    /\ UNCHANGED <<life, closed, iMutex, unannounced>>

\* Seeded fault: a call that gives up leaves its request in acquiringCount.
LeakyLeaveWait(t, s) ==
    /\ acquiringCount' = IF s = "B_OK" THEN acquiringCount - req[t]
                                       ELSE acquiringCount
    /\ pc' = [pc EXCEPT ![t] = "idle"]
    /\ req' = [req EXCEPT ![t] = 0]
    /\ timeout' = [timeout EXCEPT ![t] = "forever"]
    /\ Return(t, s)

\* The way out of the loop; req and timeout, the call's own, go with it.
LeaveWait(t, s) ==
    /\ acquiringCount' = acquiringCount - req[t]
    /\ pc' = [pc EXCEPT ![t] = "idle"]
    /\ req' = [req EXCEPT ![t] = 0]
    /\ timeout' = [timeout EXCEPT ![t] = "forever"]
    /\ Return(t, s)

\* The wait returned 0 and iMutex is retaken.
AcquireAgain(t) ==
    /\ pc[t] = "woken"
    /\ iMutex = NoThread
    /\ \/ /\ Enough(req[t])
          /\ count' = count - req[t]
          /\ LeaveWait(t, "B_OK")
       \/ /\ ~Enough(req[t])
          /\ closed
          /\ LeaveWait(t, "B_ERROR")
          /\ UNCHANGED count
       \/ /\ ~Enough(req[t])
          /\ ~closed
          /\ pc' = [pc EXCEPT ![t] = "asleep"]
          /\ UNCHANGED <<count, acquiringCount, req, timeout, status>>
    /\ UNCHANGED <<life, closed, iMutex, unannounced>>

\* The wait returned ETIMEDOUT and iMutex is retaken: the call gives up even
\* if there are units by now.
AcquireTimedOut(t) ==
    /\ pc[t] = "expired"
    /\ iMutex = NoThread
    /\ LeaveWait(t, "B_TIMED_OUT")
    /\ UNCHANGED <<life, count, closed, iMutex, unannounced>>

\* The wait failed with another error: pthread_cond_wait returns with iMutex
\* locked, and the code locks it once more, which a default mutex never grants.
AcquireWaitFailed(t) ==
    /\ CondMayFail
    /\ pc[t] = "asleep"
    /\ iMutex = NoThread
    /\ iMutex' = t
    /\ pc' = [pc EXCEPT ![t] = "hung"]
    /\ UNCHANGED <<life, count, acquiringCount, closed, req, timeout, status,
                   unannounced>>

\* The absolute deadline of a timed wait passes.
Expire(t) ==
    /\ pc[t] = "asleep"
    /\ timeout[t] = "deadline"
    /\ pc' = [pc EXCEPT ![t] = "expired"]
    /\ UNCHANGED <<life, count, acquiringCount, closed, iMutex, req, timeout,
                   status, unannounced>>

\* POSIX lets a wait return 0 with no broadcast.
SpuriousWakeup(t) ==
    /\ pc[t] = "asleep"
    /\ pc' = [pc EXCEPT ![t] = "woken"]
    /\ UNCHANGED <<life, count, acquiringCount, closed, iMutex, req, timeout,
                   status, unannounced>>

-----------------------------------------------------------------------------
(* release_sem_etc and the two reports *)

\* Seeded fault: iCond is not broadcast.
SilentAnnounce(f) == UNCHANGED <<pc, unannounced>>

\* Wake the sleepers, unless the flag says not to.
Announce(f) ==
    IF f = "B_DO_NOT_RESCHEDULE"
      THEN unannounced' = TRUE /\ UNCHANGED pc
      ELSE unannounced' = FALSE /\ pc' = Broadcast(pc)

release_sem_etc(t, n, f) ==
    /\ Calling(t)
    /\ \/ /\ n < 0
          /\ Return(t, "B_BAD_VALUE")
          /\ UNCHANGED <<count, pc, unannounced>>
       \/ /\ n >= 0
          /\ closed \/ ~RoomFor(n)
          /\ Return(t, "B_ERROR")
          /\ UNCHANGED <<count, pc, unannounced>>
       \/ /\ n >= 0
          /\ ~closed
          /\ RoomFor(n)
          /\ count' = count + n
          /\ Announce(f)
          /\ Return(t, "B_OK")
    /\ UNCHANGED <<life, acquiringCount, closed, iMutex, req, timeout>>

get_sem_count == IF acquiringCount <= 0 THEN count ELSE -acquiringCount

\* The count that get_sem_info reports.
get_sem_info == count - acquiringCount

-----------------------------------------------------------------------------

Resume(t) == AcquireAgain(t) \/ AcquireTimedOut(t)

Next ==
    \E t \in Threads :
        \/ \E n \in Amounts : create_sem_for_local(t, n)
        \/ \E u \in Threads : clone_sem_by_source(t, u)
        \/ \E noClone \in BOOLEAN : delete_sem_etc(t, noClone)
        \/ close_sem(t)
        \/ \E n \in Amounts, w \in Timeouts : acquire_sem_etc(t, n, w)
        \/ Resume(t)
        \/ AcquireWaitFailed(t)
        \/ Expire(t)
        \/ SpuriousWakeup(t)
        \/ \E n \in Amounts, f \in Flags : release_sem_etc(t, n, f)

Spec == Init /\ [][Next]_vars

\* As for the locker: a thread whose wait has ended gets iMutex in the end, and
\* a deadline is absolute.
Fairness == \A t \in Threads : WF_vars(Resume(t)) /\ SF_vars(Expire(t))

FairSpec == Spec /\ Fairness

-----------------------------------------------------------------------------
(* Properties *)

\* No lost wakeup: a thread sleeps only while the units it asks for are not
\* there and the semaphore is open, unless units were released with
\* B_DO_NOT_RESCHEDULE, which leaves the sleepers to the next broadcast.
NoLostWakeup ==
    \A t \in Threads : pc[t] = "asleep" =>
        /\ ~closed
        /\ Enough(req[t]) => unannounced

\* The units asked for by the calls inside the loop of acquire_sem_etc.
Pending == {u \in Threads \X (1..MaxCount) :
                pc[u[1]] # "idle" /\ u[2] <= req[u[1]]}

\* acquiringCount is what the waiting calls ask for, however they come and go;
\* so get_sem_count is negative exactly while somebody waits.
AcquiringAccounted ==
    /\ acquiringCount = Cardinality(Pending)
    /\ get_sem_count < 0 <=> \E t \in Threads : pc[t] # "idle"

\* refCount counts the references clients own; the semaphore is freed with the
\* last one, and nobody is inside acquire_sem_etc then.
RefsAccounted ==
    /\ refCount = Cardinality(Owned(refOwner))
    /\ phase = "live" <=> Owned(refOwner) # {}
    /\ \A t \in Threads : pc[t] # "idle" => Owns(refOwner, t)

\* close_sem lets every waiter go and an acquire with a deadline returns; only
\* a condition variable that failed, after which a thread hangs with iMutex
\* locked, keeps another inside.
WaitsEnd ==
    \A t \in Threads :
        pc[t] # "idle" /\ (closed \/ timeout[t] = "deadline")
        ~> pc[t] = "idle" \/ iMutex # NoThread

\* "B_RELEASE_ALL: all waiting threads will be woken up, count will be zeroed"
\* (src/src/os/kernel.h): after a release with that flag nobody is left
\* asleep and there are no units.  release_sem_etc does not know the flag.
ReleaseAllZeroesCount ==
    [][\A t \in Threads, n \in Amounts :
          release_sem_etc(t, n, "B_RELEASE_ALL") /\ status'[t] = "B_OK"
          => count' = 0 /\ \A u \in Threads : pc'[u] # "asleep"]_vars

Abstract == INSTANCE CountingSemaphore
              WITH units <- count, shut <- closed, MaxUnits <- MaxCount

\* The semaphore implements the abstract counting semaphore.
ImplementsCountingSemaphore == Abstract!Spec
====
