---- MODULE SemaphoreIPC ----
(***************************************************************************)
(* The named semaphore of the POSIX kernel wrapper                           *)
(* (src/src/wrappers/posix/BHAPI_wrapper_semaphore.cpp without               *)
(* BHAPI_PTHREAD_SHARED): its fields lie in an area that processes share,    *)
(* one sem_t (remoteiSem) is the lock of the fields and another (remoteSem)  *)
(* is what waiters sleep on.  A sem_t cannot broadcast: a release posts once *)
(* and whoever is woken passes the post on, unless minAcquiringCount says    *)
(* that nobody could use it.                                                 *)
(*                                                                           *)
(* One action is one section under remoteiSem.  Names, areas and handles are *)
(* left to Area; here every thread has a handle of its own.                  *)
(***************************************************************************)
EXTENDS Integers, FiniteSets

CONSTANTS
    Threads,
    Requests,       \* counts that threads pass to acquire_sem_etc
    Grants,         \* counts that threads pass to create and release
    Flags,          \* flags that threads pass to release_sem_etc
    MaxCount,       \* B_MAXINT64
    MaxPosts        \* SEM_VALUE_MAX

ASSUME SemaphoreIPCAssumption ==
    /\ IsFiniteSet(Threads)
    /\ Requests \subseteq Int
    /\ Grants \subseteq Int
    /\ Flags \subseteq {"none", "B_DO_NOT_RESCHEDULE"}
    /\ MaxCount \in Nat
    /\ MaxPosts \in Nat \ {0}

Timeouts == {"negative", "now", "deadline", "forever"}

Statuses == {"none", "B_OK", "B_ERROR", "B_BAD_VALUE", "B_WOULD_BLOCK",
             "B_TIMED_OUT"}

VARIABLES
    created,            \* whether create_sem_for_IPC has run
    count,
    acquiringCount,     \* units that waiting calls ask for
    minAcquiringCount,  \* the least of their requests, as far as is known; or 0
    closed,
    remoteSem,          \* value of the sem_t that waiters sleep on
    pc,         \* per thread: "idle", "asleep" in sem_wait, "woken" by a post,
                \* "expired" or "interrupted" (sem_wait failed)
    req,        \* per thread: the count its acquire asks for
    timeout,    \* per thread: the timeout of its acquire
    status,     \* what the last completed call returned
    unannounced \* history: units came with B_DO_NOT_RESCHEDULE and there has
                \* been no post since

calls == <<pc, req, timeout, status>>
vars == <<created, count, acquiringCount, minAcquiringCount, closed, remoteSem,
          pc, req, timeout, status, unannounced>>

TypeOK ==
    /\ created \in BOOLEAN
    /\ count \in 0..MaxCount
    /\ acquiringCount \in 0..MaxCount
    /\ minAcquiringCount \in 0..MaxCount
    /\ closed \in BOOLEAN
    /\ remoteSem \in 0..MaxPosts
    /\ pc \in [Threads -> {"idle", "asleep", "woken", "expired", "interrupted"}]
    /\ req \in [Threads -> 0..MaxCount]
    /\ timeout \in [Threads -> Timeouts]
    /\ status \in Statuses
    /\ unannounced \in BOOLEAN

Init ==
    /\ created = FALSE
    /\ count = 0
    /\ acquiringCount = 0
    /\ minAcquiringCount = 0
    /\ closed = FALSE
    /\ remoteSem = 0
    /\ pc = [t \in Threads |-> "idle"]
    /\ req = [t \in Threads |-> 0]
    /\ timeout = [t \in Threads |-> "forever"]
    /\ status = "none"
    /\ unannounced = FALSE

-----------------------------------------------------------------------------
(* Helpers *)

Calling(t) == created /\ pc[t] = "idle"
Return(s) == status' = s

EagerEnough(n) == n <= count + 1    \* seeded fault: off by one
Enough(n) == n <= count

RoomFor(n) == n <= MaxCount - count

\* sem_post(remoteSem); at SEM_VALUE_MAX it fails, which nobody looks at.
Post == /\ remoteSem' = IF remoteSem < MaxPosts THEN remoteSem + 1 ELSE remoteSem
        /\ unannounced' = FALSE
NoPost == UNCHANGED <<remoteSem, unannounced>>

PostIfWaiting == IF acquiringCount > 0 THEN Post ELSE NoPost

\* minAcquiringCount once a request of n is known to wait.
Lowered(n) == IF minAcquiringCount = 0 \/ minAcquiringCount > n
                THEN n ELSE minAcquiringCount

-----------------------------------------------------------------------------
(* create_sem_for_IPC and close_sem *)

create_sem_for_IPC(n) ==
    /\ ~created
    /\ n \in 0..MaxCount
    /\ created' = TRUE
    /\ count' = n
    /\ UNCHANGED <<acquiringCount, minAcquiringCount, closed, remoteSem, calls,
                   unannounced>>

Close == closed' = TRUE /\ PostIfWaiting

close_sem(t) ==
    /\ Calling(t)
    /\ IF closed
         THEN Return("B_ERROR") /\ NoPost /\ UNCHANGED closed
         ELSE Return("B_OK") /\ Close
    /\ UNCHANGED <<created, count, acquiringCount, minAcquiringCount, pc, req,
                   timeout>>

-----------------------------------------------------------------------------
(* acquire_sem_etc *)

AcquireAtOnce(t, n, w) ==
    /\ IF w = "negative" \/ n < 1
         THEN Return("B_BAD_VALUE") /\ UNCHANGED count
         ELSE \/ /\ Enough(n)
                 /\ count' = count - n
                 /\ Return("B_OK")
              \/ /\ ~Enough(n)
                 /\ closed
                 /\ Return("B_ERROR")
                 /\ UNCHANGED count
              \/ /\ ~Enough(n)
                 /\ ~closed
                 /\ w = "now"
                 /\ Return("B_WOULD_BLOCK")
                 /\ UNCHANGED count
              \/ /\ ~Enough(n)
                 /\ ~closed
                 /\ w # "now"
                 /\ n > MaxCount - acquiringCount
                 /\ Return("B_ERROR")
                 /\ UNCHANGED count
    /\ UNCHANGED <<acquiringCount, minAcquiringCount, pc, req, timeout>>

StartWaiting(t, n, w) ==
    /\ w \in {"deadline", "forever"}
    /\ n >= 1
    /\ ~Enough(n)
    /\ ~closed
    /\ n <= MaxCount - acquiringCount
    /\ acquiringCount' = acquiringCount + n
    /\ minAcquiringCount' = Lowered(n)
    /\ pc' = [pc EXCEPT ![t] = "asleep"]
    /\ req' = [req EXCEPT ![t] = n]
    /\ timeout' = [timeout EXCEPT ![t] = w]
    /\ UNCHANGED <<count, status>>

acquire_sem_etc(t, n, w) ==
    /\ Calling(t)
    /\ AcquireAtOnce(t, n, w) \/ StartWaiting(t, n, w)
    /\ UNCHANGED <<created, closed, remoteSem, unannounced>>

\* sem_wait or sem_timedwait ends: a post is there and is taken, without a look
\* at the clock; or the deadline passes; or a signal comes.
TakePost(t) ==
    /\ pc[t] = "asleep"
    /\ remoteSem > 0
    /\ remoteSem' = remoteSem - 1
    /\ pc' = [pc EXCEPT ![t] = "woken"]
    /\ UNCHANGED <<created, count, acquiringCount, minAcquiringCount, closed,
                   req, timeout, status, unannounced>>

WaitFails(t) ==
    /\ pc[t] = "asleep"
    /\ pc' = [pc EXCEPT ![t] = "interrupted"]
    /\ UNCHANGED <<created, count, acquiringCount, minAcquiringCount, closed,
                   remoteSem, req, timeout, status, unannounced>>

Expire(t) ==
    /\ pc[t] = "asleep"
    /\ timeout[t] = "deadline"
    /\ remoteSem = 0
    /\ pc' = [pc EXCEPT ![t] = "expired"]
    /\ UNCHANGED <<created, count, acquiringCount, minAcquiringCount, closed,
                   remoteSem, req, timeout, status, unannounced>>

\* Seeded fault: a call that gives up leaves its request in acquiringCount.
LeakyForgetRequest(t, s) ==
    /\ acquiringCount' = IF s = "B_OK" THEN acquiringCount - req[t]
                                       ELSE acquiringCount
    /\ minAcquiringCount' = IF minAcquiringCount = req[t] THEN 0
                                                          ELSE minAcquiringCount

ForgetRequest(t, s) ==
    /\ acquiringCount' = acquiringCount - req[t]
    /\ minAcquiringCount' = IF minAcquiringCount = req[t] THEN 0
                                                          ELSE minAcquiringCount

\* Seeded fault: the post is passed on only by a call that got nothing.
SelfishPassOn(s) == IF s = "B_OK" THEN NoPost ELSE Post
PassOn(s) == Post

\* The way out of the loop.
LeaveWait(t, s) ==
    /\ ForgetRequest(t, s)
    /\ PassOn(s)
    /\ pc' = [pc EXCEPT ![t] = "idle"]
    /\ req' = [req EXCEPT ![t] = 0]
    /\ timeout' = [timeout EXCEPT ![t] = "forever"]
    /\ Return(s)

\* A woken thread that finds too little goes back to sleep.  It passes the post
\* on unless the least request known exceeds what there is.
SleepOn(t) ==
    /\ pc' = [pc EXCEPT ![t] = "asleep"]
    /\ IF minAcquiringCount > count
         THEN NoPost /\ UNCHANGED minAcquiringCount
         ELSE Post /\ minAcquiringCount' = Lowered(req[t])
    /\ UNCHANGED <<acquiringCount, req, timeout, status>>

AcquireAgain(t) ==
    /\ pc[t] = "woken"
    /\ \/ /\ Enough(req[t])
          /\ count' = count - req[t]
          /\ LeaveWait(t, "B_OK")
       \/ /\ ~Enough(req[t])
          /\ closed
          /\ LeaveWait(t, "B_ERROR")
          /\ UNCHANGED count
       \/ /\ ~Enough(req[t])
          /\ ~closed
          /\ SleepOn(t)
          /\ UNCHANGED count
    /\ UNCHANGED <<created, closed>>

\* sem_wait failed: the call gives up, even if there are units by now.
GiveUp(t) ==
    /\ pc[t] \in {"expired", "interrupted"}
    /\ LeaveWait(t, IF pc[t] = "expired" THEN "B_TIMED_OUT" ELSE "B_ERROR")
    /\ UNCHANGED <<created, count, closed>>

-----------------------------------------------------------------------------
(* release_sem_etc and get_sem_count *)

release_sem_etc(t, n, f) ==
    /\ Calling(t)
    /\ \/ /\ n < 0
          /\ Return("B_BAD_VALUE")
          /\ NoPost
          /\ UNCHANGED count
       \/ /\ n >= 0
          /\ closed \/ ~RoomFor(n)
          /\ Return("B_ERROR")
          /\ NoPost
          /\ UNCHANGED count
       \/ /\ n >= 0
          /\ ~closed
          /\ RoomFor(n)
          /\ count' = count + n
          /\ IF f = "B_DO_NOT_RESCHEDULE"
               THEN unannounced' = TRUE /\ UNCHANGED remoteSem
               ELSE PostIfWaiting
          /\ Return("B_OK")
    /\ UNCHANGED <<created, acquiringCount, minAcquiringCount, closed, pc, req,
                   timeout>>

get_sem_count == IF acquiringCount <= 0 THEN count ELSE -acquiringCount

-----------------------------------------------------------------------------

Resume(t) == AcquireAgain(t) \/ GiveUp(t)

Next ==
    \/ \E n \in Grants : create_sem_for_IPC(n)
    \/ \E t \in Threads :
        \/ close_sem(t)
        \/ \E n \in Requests, w \in Timeouts : acquire_sem_etc(t, n, w)
        \/ TakePost(t)
        \/ WaitFails(t)
        \/ Expire(t)
        \/ Resume(t)
        \/ \E n \in Grants, f \in Flags : release_sem_etc(t, n, f)

Spec == Init /\ [][Next]_vars

\* A post goes to some sleeper, no matter which; whoever has left sem_wait gets
\* remoteiSem in the end; sem_timedwait returns when it finds no post after the
\* deadline.
Fairness ==
    /\ WF_vars(\E t \in Threads : TakePost(t))
    /\ \A t \in Threads : WF_vars(Resume(t)) /\ SF_vars(Expire(t))

FairSpec == Spec /\ Fairness

-----------------------------------------------------------------------------
(* Properties *)

\* Units that announced themselves with a post, or the news of the close, are
\* on their way to every sleeper they concern: there is a post in remoteSem or
\* somebody awake inside acquire_sem_etc who will pass one on.  It holds while
\* all requests are of one size; minAcquiringCount forgets a smaller one when
\* sizes are mixed.
PostOnItsWay ==
    (\E t \in Threads : /\ pc[t] = "asleep"
                        /\ closed \/ (Enough(req[t]) /\ ~unannounced))
    => \/ remoteSem > 0
       \/ \E u \in Threads : pc[u] \notin {"idle", "asleep"}

\* The units asked for by the calls inside the loop.
Pending == {u \in Threads \X (1..MaxCount) :
                pc[u[1]] # "idle" /\ u[2] <= req[u[1]]}

\* acquiringCount is what the waiting calls ask for, however they leave; and a
\* release may trust it for the decision to post.
AcquiringAccounted ==
    /\ TypeOK
    /\ acquiringCount = Cardinality(Pending)
    /\ get_sem_count < 0 <=> \E t \in Threads : pc[t] # "idle"

\* The one post of close_sem reaches everybody who waits, and units that were
\* announced do not stay beside a sleeper they suffice for: each waiter passes
\* the post on.
ChainReachesWaiters ==
    \A t \in Threads :
        /\ closed /\ pc[t] # "idle" ~> pc[t] = "idle"
        /\ pc[t] = "asleep" /\ Enough(req[t]) /\ ~unannounced
           ~> pc[t] # "asleep" \/ ~Enough(req[t]) \/ unannounced

Abstract == INSTANCE CountingSemaphore
              WITH units <- count, shut <- closed, MaxUnits <- MaxCount

\* The named semaphore implements the same abstract counting semaphore as the
\* local one.
ImplementsCountingSemaphore == Abstract!Spec
====
