---- MODULE Locker ----
(***************************************************************************)
(* The recursive locker of the POSIX kernel wrapper                          *)
(* (src/src/wrappers/posix/BHAPI_wrapper_locker.cpp), the lock under BLocker, *)
(* BLooper, the handler depot and most of the App Kit.                       *)
(*                                                                           *)
(* A b_posix_locker_t has two mutexes.  iLocker guards the fields and is     *)
(* held for the whole of every function, except while lock_locker_etc sleeps *)
(* in pthread_cond_wait; one action here is one such section.  Locker (here  *)
(* "mutex") is the lock proper and is only ever taken by trylock under       *)
(* iLocker, so a thread that does not get it sleeps on Cond.  A call that    *)
(* sleeps goes through pc = "asleep" (on Cond), "woken" (the wait returned   *)
(* 0, iLocker not yet retaken) or "expired" (the wait returned ETIMEDOUT).   *)
(*                                                                           *)
(* Clients own references: create_locker and clone_locker hand one out,      *)
(* delete_locker gives one back.  A thread calls a function only with a      *)
(* reference of its own, and does not delete it in the middle of a call.     *)
(***************************************************************************)
EXTENDS Handles, Integers

CONSTANTS
    MaxLockCount,   \* B_MAXINT64
    MaxRefCount,    \* B_MAXUINT32
    CondMayFail     \* whether pthread_cond_*wait may fail outright

ASSUME LockerAssumption ==
    /\ MaxLockCount \in Nat \ {0}
    /\ MaxRefCount \in Nat \ {0}
    /\ CondMayFail \in BOOLEAN

\* How long lock_locker_etc may wait: a negative argument, a deadline equal
\* to the current time, a later (or past) deadline, B_INFINITE_TIMEOUT.
Timeouts == {"negative", "now", "deadline", "forever"}

Statuses == {"none", "B_OK", "B_ERROR", "B_BAD_VALUE", "B_WOULD_BLOCK",
             "B_TIMED_OUT"}

VARIABLES
    phase,      \* "absent", "live" or "freed": the b_posix_locker_t itself
    holder,     \* holderThreadId
    lockCount,
    closed,
    refCount,
    mutex,      \* the owner of the pthread mutex Locker
    iLocker,    \* the thread that returned with iLocker still locked, if any
    refOwner,   \* the table of client references
    pc,         \* per thread: "idle" or where in lock_locker_etc it is
    timeout,    \* per thread: the timeout of its call of lock_locker_etc
    status      \* per thread: what its last completed call returned

fields == <<phase, holder, lockCount, closed, refCount, mutex>>
vars == <<phase, holder, lockCount, closed, refCount, mutex, iLocker,
          refOwner, pc, timeout, status>>

TypeOK ==
    /\ phase \in {"absent", "live", "freed"}
    /\ holder \in Threads \cup {NoThread}
    /\ lockCount \in 0..MaxLockCount
    /\ closed \in BOOLEAN
    /\ refCount \in 0..MaxRefCount
    /\ mutex \in Threads \cup {NoThread}
    /\ iLocker \in Threads \cup {NoThread}
    /\ refOwner \in Tables
    /\ pc \in [Threads -> {"idle", "asleep", "woken", "expired"}]
    /\ timeout \in [Threads -> Timeouts]
    /\ status \in [Threads -> Statuses]

Init ==
    /\ phase = "absent"
    /\ holder = NoThread
    /\ lockCount = 0
    /\ closed = FALSE
    /\ refCount = 0
    /\ mutex = NoThread
    /\ iLocker = NoThread
    /\ refOwner = NoRefs
    /\ pc = [t \in Threads |-> "idle"]
    /\ timeout = [t \in Threads |-> "forever"]
    /\ status = [t \in Threads |-> "none"]

-----------------------------------------------------------------------------
(* Helpers *)

\* pthread_cond_broadcast(&Cond), as a function of pc: every sleeper's wait
\* returns 0.  A wait that has already expired keeps its ETIMEDOUT.
Broadcast(p) == [t \in Threads |-> IF p[t] = "asleep" THEN "woken" ELSE p[t]]

\* A thread that starts a call: it is in no other call, it owns a reference,
\* and iLocker is not locked by anybody.
Calling(t) ==
    /\ phase = "live"
    /\ pc[t] = "idle"
    /\ Owns(refOwner, t)
    /\ iLocker = NoThread

\* --(refCount) has just given c: was that the last reference?
EarlyLastRef(c) == c <= 1   \* seeded fault: off by one
LastRef(c) == c = 0

\* B_MAXINT64 - lockCount < 1: no room to nest once more.
LateNestFull(c) == c > MaxLockCount     \* seeded fault: off by one
NestFull(c) == c >= MaxLockCount

Return(t, s) == status' = [status EXCEPT ![t] = s]

-----------------------------------------------------------------------------
(* Life cycle *)

create_locker(t) ==
    /\ phase = "absent"
    /\ phase' = "live"
    /\ refCount' = 1
    /\ refOwner' \in GivenTo(refOwner, t)
    /\ UNCHANGED <<holder, lockCount, closed, mutex, iLocker, pc, timeout,
                   status>>

\* t clones the locker and gives the clone to u.  On failure it returns NULL,
\* recorded as B_ERROR.
clone_locker(t, u) ==
    /\ Calling(t)
    /\ IF closed \/ refCount >= MaxRefCount
         THEN /\ Return(t, "B_ERROR")
              /\ UNCHANGED <<refCount, refOwner>>
         ELSE /\ refCount' = refCount + 1
              /\ refOwner' \in GivenTo(refOwner, u)
              /\ Return(t, "B_OK")
    /\ UNCHANGED <<phase, holder, lockCount, closed, mutex, iLocker, pc,
                   timeout>>

delete_locker(t) ==
    /\ Calling(t)
    /\ refOwner' \in TakenFrom(refOwner, t)
    /\ refCount' = refCount - 1
    /\ phase' = IF LastRef(refCount') THEN "freed" ELSE "live"
    /\ Return(t, "B_OK")
    /\ UNCHANGED <<holder, lockCount, closed, mutex, iLocker, pc, timeout>>

\* Seeded fault: closing wakes nobody.
SilentClose(t) ==
    /\ closed' = TRUE
    /\ UNCHANGED pc
    /\ Return(t, "B_OK")

\* An open locker is closed: every sleeper is woken to find out.
Close(t) ==
    /\ closed' = TRUE
    /\ pc' = Broadcast(pc)
    /\ Return(t, "B_OK")

close_locker(t) ==
    /\ Calling(t)
    /\ IF closed
         THEN /\ Return(t, "B_ERROR")
              /\ UNCHANGED <<closed, pc>>
         ELSE Close(t)
    /\ UNCHANGED <<phase, holder, lockCount, refCount, mutex, iLocker,
                   refOwner, timeout>>

-----------------------------------------------------------------------------
(* lock_locker_etc *)

\* Seeded fault: the second look at closed forgets to give the mutex back.
LeakyObtained(t) ==
    /\ pc' = [pc EXCEPT ![t] = "idle"]
    /\ mutex' = t
    /\ IF closed
         THEN Return(t, "B_ERROR") /\ UNCHANGED <<holder, lockCount>>
         ELSE Return(t, "B_OK") /\ holder' = t /\ lockCount' = 1

\* Seeded fault: closed is not looked at again after the wait.
UncheckedObtained(t) ==
    /\ pc' = [pc EXCEPT ![t] = "idle"]
    /\ mutex' = t
    /\ holder' = t
    /\ lockCount' = 1
    /\ Return(t, "B_OK")

\* pthread_mutex_trylock(Locker) succeeded.  The second look at closed gives
\* the mutex back, without a broadcast.
Obtained(t) ==
    /\ pc' = [pc EXCEPT ![t] = "idle"]
    /\ IF closed
         THEN /\ Return(t, "B_ERROR")
              /\ UNCHANGED <<mutex, holder, lockCount>>
         ELSE /\ mutex' = t
              /\ holder' = t
              /\ lockCount' = 1
              /\ Return(t, "B_OK")

\* The loop around trylock and the wait on Cond, from a point where t holds
\* iLocker: at its start, or after a wait that returned 0.
LockLoop(t) ==
    \/ /\ mutex = NoThread
       /\ Obtained(t)
    \/ /\ mutex # NoThread
       /\ closed
       /\ pc' = [pc EXCEPT ![t] = "idle"]
       /\ Return(t, "B_ERROR")
       /\ UNCHANGED <<mutex, holder, lockCount>>
    \/ /\ mutex # NoThread
       /\ ~closed
       /\ pc' = [pc EXCEPT ![t] = "asleep"]
       /\ UNCHANGED <<mutex, holder, lockCount, status>>

\* The early returns and the nested lock, which never wait.  A closed locker
\* refuses even the thread that holds it.
LockAtOnce(t, w) ==
    /\ w = "negative" \/ closed \/ holder = t
    /\ IF w = "negative"
         THEN Return(t, "B_BAD_VALUE") /\ UNCHANGED lockCount
         ELSE IF closed \/ NestFull(lockCount)
                THEN Return(t, "B_ERROR") /\ UNCHANGED lockCount
                ELSE Return(t, "B_OK") /\ lockCount' = lockCount + 1
    /\ UNCHANGED <<mutex, holder, pc>>

\* A deadline equal to the current time: one trylock, no wait.
LockNow(t) ==
    /\ ~closed
    /\ holder # t
    /\ \/ /\ mutex = NoThread
          /\ Obtained(t)
       \/ /\ mutex # NoThread
          /\ Return(t, "B_WOULD_BLOCK")
          /\ UNCHANGED <<mutex, holder, lockCount, pc>>

lock_locker_etc(t, w) ==
    /\ Calling(t)
    /\ timeout' = [timeout EXCEPT ![t] = w]
    /\ \/ LockAtOnce(t, w)
       \/ w = "now" /\ LockNow(t)
       \/ w \in {"deadline", "forever"} /\ ~closed /\ holder # t /\ LockLoop(t)
    /\ UNCHANGED <<phase, closed, refCount, iLocker, refOwner>>

\* The wait returned 0: retake iLocker and go round the loop.
LockAgain(t) ==
    /\ pc[t] = "woken"
    /\ iLocker = NoThread
    /\ LockLoop(t)
    /\ UNCHANGED <<phase, closed, refCount, iLocker, refOwner, timeout>>

\* The wait returned ETIMEDOUT: retake iLocker and give up, whatever the
\* state of the lock is by now.
LockTimedOut(t) ==
    /\ pc[t] = "expired"
    /\ iLocker = NoThread
    /\ pc' = [pc EXCEPT ![t] = "idle"]
    /\ Return(t, "B_TIMED_OUT")
    /\ UNCHANGED <<phase, holder, lockCount, closed, refCount, mutex, iLocker,
                   refOwner, timeout>>

\* The wait failed with another error: the function returns without unlocking
\* iLocker, which pthread_cond_wait leaves locked when it fails.
LockWaitFailed(t) ==
    /\ CondMayFail
    /\ pc[t] = "asleep"
    /\ iLocker = NoThread
    /\ iLocker' = t
    /\ pc' = [pc EXCEPT ![t] = "idle"]
    /\ Return(t, "B_ERROR")
    /\ UNCHANGED <<phase, holder, lockCount, closed, refCount, mutex,
                   refOwner, timeout>>

-----------------------------------------------------------------------------
(* unlock_locker and the environment of the condition variable *)

\* Seeded fault: the outermost unlock wakes nobody.
SilentLetGo ==
    /\ mutex' = NoThread
    /\ holder' = NoThread
    /\ UNCHANGED pc

\* The outermost unlock: give the mutex back and wake every sleeper.
LetGo ==
    /\ mutex' = NoThread
    /\ holder' = NoThread
    /\ pc' = Broadcast(pc)

unlock_locker(t) ==
    /\ Calling(t)
    /\ IF holder # t
         THEN /\ Return(t, "B_ERROR")
              /\ UNCHANGED <<holder, lockCount, mutex, pc>>
         ELSE /\ Return(t, "B_OK")
              /\ lockCount' = lockCount - 1
              /\ IF lockCount = 1
                   THEN LetGo
                   ELSE UNCHANGED <<holder, mutex, pc>>
    /\ UNCHANGED <<phase, closed, refCount, iLocker, refOwner, timeout>>

\* What count_locker_locks tells t: its own nesting, or minus that of the
\* thread that holds the lock.
count_locker_locks(t) == IF holder = t THEN lockCount ELSE -lockCount

\* The absolute deadline of a timed wait passes.
Expire(t) ==
    /\ pc[t] = "asleep"
    /\ timeout[t] = "deadline"
    /\ pc' = [pc EXCEPT ![t] = "expired"]
    /\ UNCHANGED <<fields, iLocker, refOwner, timeout, status>>

\* POSIX lets a wait return 0 with no broadcast.
SpuriousWakeup(t) ==
    /\ pc[t] = "asleep"
    /\ pc' = [pc EXCEPT ![t] = "woken"]
    /\ UNCHANGED <<fields, iLocker, refOwner, timeout, status>>

-----------------------------------------------------------------------------

\* The rest of a call of lock_locker_etc that has slept.
Resume(t) == LockAgain(t) \/ LockTimedOut(t)

Next ==
    \E t \in Threads :
        \/ create_locker(t)
        \/ \E u \in Threads : clone_locker(t, u)
        \/ delete_locker(t)
        \/ close_locker(t)
        \/ \E w \in Timeouts : lock_locker_etc(t, w)
        \/ Resume(t)
        \/ LockWaitFailed(t)
        \/ unlock_locker(t)
        \/ Expire(t)
        \/ SpuriousWakeup(t)

Spec == Init /\ [][Next]_vars

\* A thread whose wait has ended is scheduled and gets iLocker; the deadline
\* of a timed wait is absolute, so it is not put off by being woken before.
Fairness == \A t \in Threads : WF_vars(Resume(t)) /\ SF_vars(Expire(t))

FairSpec == Spec /\ Fairness

-----------------------------------------------------------------------------
(* Properties *)

HolderAgrees ==
    /\ holder = mutex
    /\ (lockCount = 0) <=> (mutex = NoThread)

\* The three records of who holds the lock agree at every point where iLocker
\* is free: the thread named by holderThreadId owns the mutex Locker, and
\* lockCount is positive exactly while somebody does.  unlock_locker, the
\* recursive path of lock_locker_etc and count_locker_locks (positive for the
\* owner, negative for the others, 0 when unlocked) trust holderThreadId.
OwnerConsistent ==
    /\ HolderAgrees
    /\ \A t \in Threads :
        /\ count_locker_locks(t) > 0 <=> mutex = t
        /\ count_locker_locks(t) = 0 <=> mutex = NoThread

\* No lost wakeup: a thread sleeps on Cond only while the lock is taken and
\* the locker is open, so there is always an unlock_locker or a close_locker
\* to come that wakes it.
NoLostWakeup ==
    (\E t \in Threads : pc[t] = "asleep") => mutex # NoThread /\ ~closed

\* refCount counts the references clients own, and delete_locker frees the
\* locker with the last one: nobody is inside lock_locker_etc then.
RefsAccounted ==
    /\ refCount = Cardinality(Owned(refOwner))
    /\ phase = "live" <=> Owned(refOwner) # {}
    /\ \A t \in Threads : pc[t] # "idle" => Owns(refOwner, t)

\* "after you call close_locker: the next lock_locker... function call will be
\* failed": from then on the lock is only ever unwound, by its holder too, and
\* never reopened.
CloseIsFinal ==
    [][closed => closed' /\ lockCount' <= lockCount
                 /\ (holder' # holder => holder' = NoThread)]_vars

\* close_locker lets every waiter go, even if the holder never unlocks, and a
\* call with a deadline returns, however often it is woken and beaten to the
\* lock.  Only a condition variable that failed, which leaves iLocker locked,
\* keeps a thread inside.
WaitsEnd ==
    \A t \in Threads :
        pc[t] # "idle" /\ (closed \/ timeout[t] = "deadline")
        ~> pc[t] = "idle" \/ iLocker # NoThread

\* The locker implements a lock with one owner, nesting and a final close.
Abstract == INSTANCE RecursiveLock
              WITH owner <- holder, depth <- lockCount, shut <- closed,
                   MaxDepth <- MaxLockCount

ImplementsRecursiveLock == Abstract!Spec
====
