---- MODULE Thread ----
(***************************************************************************)
(* One thread of the POSIX kernel wrapper                                    *)
(* (src/src/wrappers/posix/BHAPI_wrapper_thread.cpp) and the clients that    *)
(* create, open, resume, wait for and delete it.                             *)
(*                                                                           *)
(* A global lock guards the list of threads and the references; the thread's *)
(* own locker guards the rest, and its condition variable serves everybody:  *)
(* the new thread waits on it for its start, a suspended thread for its      *)
(* resumption, clients for its exit.  One action is one section under either *)
(* lock.  The writes of create_thread after pthread_create, which run under  *)
(* the global lock only, are an action of their own (AddThread).             *)
(*                                                                           *)
(* Left out: priorities; an object for a thread the wrapper did not start    *)
(* (create_thread_by_current_thread); condition variables that fail.         *)
(***************************************************************************)
EXTENDS Handles, Sequences, Naturals

CONSTANTS
    Results,            \* what the thread's function may return
    MaxCallbacks,       \* bound on the functions it passes to on_exit_thread
    InitialStatus,      \* thread->status of a thread that has not exited
    Unwritten,          \* *thread_return_value as the caller left it
    AllocMayFail,       \* whether allocations and pthread_create may fail
    SpuriousWakeups,    \* whether pthread_cond_wait may return unprompted
    MaxSuspends         \* bound on the suspensions of one life

ASSUME ThreadAssumption ==
    /\ InitialStatus \notin Results
    /\ Unwritten \notin Results \cup {InitialStatus}
    /\ MaxCallbacks \in Nat
    /\ AllocMayFail \in BOOLEAN
    /\ SpuriousWakeups \in BOOLEAN
    /\ MaxSuspends \in Nat

Timeouts == {"negative", "now", "deadline", "forever"}

Statuses == {"none", "B_OK", "B_ERROR", "B_BAD_VALUE", "B_WOULD_BLOCK",
             "B_TIMED_OUT"}

\* The functions passed to on_exit_thread, in the order they come, and the one
\* by which the thread deletes a reference of its own.
Callbacks == 1..MaxCallbacks
Drop == 0

VARIABLES
    phase,          \* "absent", "created" (not in the list yet), "listed",
                    \* "unlisted" (no references left) or "freed"
    running,        \* 0 ready or done, 1 running, 2 suspended
    exited,
    tstatus,        \* thread->status
    func,           \* callback.func # NULL: the function is still to be taken
    exit_callbacks, \* newest first
    refOwner,       \* the clients' references
    own,            \* the thread's references to itself
    child,          \* where the new thread is
    leaving,        \* the callbacks it has taken along to run
    pc,             \* per client: where it is
    timeout,        \* per client: the timeout of the wait it is in
    status,         \* what the last completed call returned
    result,         \* per client: *thread_return_value of the wait it is in
    startled,       \* history: its bare wait for the start returned unprompted
    added,          \* history: callbacks accepted, numbered as they came
    ran,            \* history: callbacks run
    suspends        \* history: suspensions so far

object == <<phase, running, exited, tstatus, func, exit_callbacks, refOwner, own>>
thread == <<child, leaving>>
clients == <<pc, timeout, status, result>>
history == <<startled, added, ran, suspends>>
vars == <<object, thread, clients, history>>

Places == {"none", "born", "asleep", "woken", "starting", "refused",
           "registering", "unregistered", "running", "suspended", "resumed",
           "exiting", "dropped", "gone"}

TypeOK ==
    /\ phase \in {"absent", "created", "listed", "unlisted", "freed"}
    /\ running \in 0..2
    /\ exited \in BOOLEAN
    /\ tstatus \in Results \cup {InitialStatus}
    /\ func \in BOOLEAN
    /\ exit_callbacks \in Seq(Callbacks \cup {Drop})
    /\ refOwner \in Tables
    /\ own \in 0..2
    /\ child \in Places
    /\ leaving \in Seq(Callbacks \cup {Drop})
    /\ pc \in [Threads -> {"idle", "creating", "resuming", "waking", "asleep",
                           "woken", "expired", "joining", "joiningGone",
                           "dropped", "deleting", "reaping"}]
    /\ timeout \in [Threads -> Timeouts]
    /\ status \in Statuses
    /\ result \in [Threads -> Results \cup {InitialStatus, Unwritten}]
    /\ startled \in BOOLEAN
    /\ added \in 0..MaxCallbacks
    /\ ran \in Seq(Callbacks)
    /\ suspends \in 0..MaxSuspends

Init ==
    /\ phase = "absent"
    /\ running = 0
    /\ exited = FALSE
    /\ tstatus = InitialStatus
    /\ func = FALSE
    /\ exit_callbacks = <<>>
    /\ refOwner = NoRefs
    /\ own = 0
    /\ child = "none"
    /\ leaving = <<>>
    /\ pc = [c \in Threads |-> "idle"]
    /\ timeout = [c \in Threads |-> "forever"]
    /\ status = "none"
    /\ result = [c \in Threads |-> Unwritten]
    /\ startled = FALSE
    /\ added = 0
    /\ ran = <<>>
    /\ suspends = 0

-----------------------------------------------------------------------------
(* Helpers *)

Goto(c, place) == pc' = [pc EXCEPT ![c] = place]
Return(s) == status' = s
Finish(c, s) == Goto(c, "idle") /\ Return(s)
EndWait(c, s) ==
    /\ Finish(c, s)
    /\ timeout' = [timeout EXCEPT ![c] = "forever"]
    /\ result' = [result EXCEPT ![c] = Unwritten]

\* pthread_cond_broadcast, as functions of pc and child.
WokenClients(p) == [c \in Threads |-> IF p[c] = "asleep" THEN "woken" ELSE p[c]]
WokenThread(place) ==
    CASE place = "asleep" -> "woken"
      [] place = "suspended" -> "resumed"
      [] OTHER -> place

\* A client starts a call with a reference of its own.
Calling(c) == pc[c] = "idle" /\ Owns(refOwner, c)

\* What resume_thread and wait_for_thread_etc take for a thread to be started
\* or resumed ...
Startable == ~exited /\ ((func /\ running = 0) \/ running = 2)

\* ... and what the loops that broadcast wait for.
Under_way == exited \/ running = 1

-----------------------------------------------------------------------------
(* create_thread and open_thread *)

\* Up to pthread_create; NULL is recorded as B_ERROR.
create_thread(c) ==
    /\ phase = "absent"
    /\ pc[c] = "idle"
    /\ \/ /\ phase' = "created"
          /\ func' = TRUE
          /\ child' = "born"
          /\ Goto(c, "creating")
          /\ UNCHANGED status
       \/ /\ AllocMayFail
          /\ status = "none"
          /\ Return("B_ERROR")
          /\ UNCHANGED <<phase, func, child, pc>>
    /\ UNCHANGED <<running, exited, tstatus, exit_callbacks, refOwner, own,
                   leaving, timeout, result, history>>

\* The thread enters the list and the fields are written, over what the new
\* thread may have written; or it cannot be listed and is ended like one whose
\* last reference goes.
AddThread(c) ==
    /\ pc[c] = "creating"
    /\ \/ /\ phase' = "listed"
          /\ running' = 0
          /\ exited' = FALSE
          /\ refOwner' \in GivenTo(refOwner, c)
          /\ Finish(c, "B_OK")
       \/ /\ AllocMayFail
          /\ phase' = "unlisted"
          /\ Goto(c, "deleting")
          /\ UNCHANGED <<running, exited, refOwner, status>>
    /\ UNCHANGED <<tstatus, func, exit_callbacks, own, thread, timeout, result,
                   history>>

\* By its ID, so only while it is in the list.
open_thread(c) ==
    /\ pc[c] = "idle"
    /\ phase = "listed"
    /\ refOwner' \in GivenTo(refOwner, c)
    /\ Return("B_OK")
    /\ UNCHANGED <<phase, running, exited, tstatus, func, exit_callbacks, own,
                   thread, pc, timeout, result, history>>

-----------------------------------------------------------------------------
(* The new thread: b_spawn_thread_func *)

WaitForStart ==
    /\ child = "born"
    /\ child' = "asleep"
    /\ UNCHANGED <<object, leaving, clients, history>>

\* The bare pthread_cond_wait returned.
Start ==
    /\ child = "woken"
    /\ IF func
         THEN /\ func' = FALSE
              /\ running' = 1
              /\ child' = "starting"
              /\ UNCHANGED <<exited, pc>>
         ELSE /\ exited' = TRUE
              /\ child' = "gone"
              /\ pc' = WokenClients(pc)
              /\ UNCHANGED <<func, running>>
    /\ UNCHANGED <<phase, tstatus, exit_callbacks, refOwner, own, leaving,
                   timeout, status, result, history>>

\* RefThread: only a thread in the list can be referred to.
BoldRefThread == phase # "absent"       \* seeded fault: no look at the list
RefThread == phase = "listed"

\* The thread takes a reference to itself.
TakeOwnReference ==
    /\ child = "starting"
    /\ \/ /\ RefThread
          /\ own' = own + 1
          /\ child' = "registering"
       \/ /\ ~RefThread \/ AllocMayFail
          /\ child' = "refused"
          /\ UNCHANGED own
    /\ UNCHANGED <<phase, running, exited, tstatus, func, exit_callbacks,
                   refOwner, leaving, clients, history>>

Refused ==
    /\ child = "refused"
    /\ exited' = TRUE
    /\ child' = "gone"
    /\ pc' = WokenClients(pc)
    /\ UNCHANGED <<phase, running, tstatus, func, exit_callbacks, refOwner, own,
                   leaving, timeout, status, result, history>>

\* Its deletion is the first exit callback.  on_exit_thread opens the thread
\* and gives that reference back at once: own is not 0 meanwhile, so the pair
\* changes nothing.
Register ==
    /\ child = "registering"
    /\ \/ /\ ~exited
          /\ exit_callbacks' = <<Drop>> \o exit_callbacks
          /\ child' = "running"
       \/ /\ exited \/ AllocMayFail
          /\ child' = "unregistered"
          /\ UNCHANGED exit_callbacks
    /\ UNCHANGED <<phase, running, exited, tstatus, func, refOwner, own,
                   leaving, clients, history>>

\* The thread won't run: its callbacks are discarded, its reference deleted.
Unregistered ==
    /\ child = "unregistered"
    /\ running' = 0
    /\ exited' = TRUE
    /\ exit_callbacks' = <<>>
    /\ leaving' = <<Drop>>
    /\ child' = "exiting"
    /\ pc' = WokenClients(pc)
    /\ UNCHANGED <<phase, tstatus, func, refOwner, own, timeout, status, result,
                   history>>

-----------------------------------------------------------------------------
(* What the thread's function may call *)

\* Seeded fault: callbacks are put behind the thread's own.
LateAccept(f) == exit_callbacks' = exit_callbacks \o <<f>>
Accept(f) == exit_callbacks' = <<f>> \o exit_callbacks

on_exit_thread(f) ==
    /\ child = "running"
    /\ f = added + 1
    /\ ~exited
    /\ Accept(f)
    /\ added' = f
    /\ UNCHANGED <<phase, running, exited, tstatus, func, refOwner, own, thread,
                   clients, startled, ran, suspends>>

\* b_suspend_thread by the thread itself, the only one that may; refused
\* unless running says 1.
b_suspend_thread ==
    /\ child = "running"
    /\ suspends < MaxSuspends
    /\ running = 1
    /\ ~exited
    /\ running' = 2
    /\ child' = "suspended"
    /\ suspends' = suspends + 1
    /\ UNCHANGED <<phase, exited, tstatus, func, exit_callbacks, refOwner, own,
                   leaving, clients, startled, added, ran>>

\* Seeded fault: a resumed thread stays marked as suspended.
ForgetfulResumed ==
    /\ child = "resumed"
    /\ child' = "running"
    /\ UNCHANGED <<object, leaving, clients, history>>

Resumed ==
    /\ child = "resumed"
    /\ running' = 1
    /\ child' = "running"
    /\ UNCHANGED <<phase, exited, tstatus, func, exit_callbacks, refOwner, own,
                   leaving, clients, history>>

\* Seeded fault: nobody is told of the exit.
SilentExit(r) ==
    /\ running' = 0
    /\ exited' = TRUE
    /\ tstatus' = r
    /\ exit_callbacks' = <<>>
    /\ child' = "exiting"
    /\ UNCHANGED pc

\* The section that both ways to exit have.
Exit(r) ==
    /\ running' = 0
    /\ exited' = TRUE
    /\ tstatus' = r
    /\ exit_callbacks' = <<>>
    /\ child' = "exiting"
    /\ pc' = WokenClients(pc)

\* The function returns r ...
ReturnFromFunction(r) ==
    /\ child = "running"
    /\ Exit(r)
    /\ leaving' = exit_callbacks
    /\ UNCHANGED <<phase, func, refOwner, own, timeout, status, result, history>>

\* ... or calls b_exit_thread, which opens the thread once more and deletes
\* that reference after the callbacks.
b_exit_thread(r) ==
    /\ child = "running"
    /\ Exit(r)
    /\ leaving' = Append(exit_callbacks, Drop)
    /\ own' = own + 1
    /\ UNCHANGED <<phase, func, refOwner, timeout, status, result, history>>

RunCallback ==
    /\ child = "exiting"
    /\ leaving # <<>>
    /\ Head(leaving) # Drop
    /\ ran' = Append(ran, Head(leaving))
    /\ leaving' = Tail(leaving)
    /\ UNCHANGED <<object, child, clients, startled, added, suspends>>

\* UnrefThread leaves n references: is the thread to be taken out of the list?
Last(n) == n = 0

\* delete_thread by the thread itself.  With the last reference it detaches
\* itself and frees the object; otherwise it goes on to look at
\* thread->existent, after the unlock.
DropOwnReference ==
    /\ child = "exiting"
    /\ leaving # <<>>
    /\ Head(leaving) = Drop
    /\ leaving' = Tail(leaving)
    /\ own' = own - 1
    /\ IF Last(own' + Cardinality(Owned(refOwner)))
         THEN phase' = "freed" /\ UNCHANGED child
         ELSE child' = "dropped" /\ UNCHANGED phase
    /\ UNCHANGED <<running, exited, tstatus, func, exit_callbacks, refOwner,
                   clients, history>>

Dropped ==
    /\ child = "dropped"
    /\ child' = "exiting"
    /\ UNCHANGED <<object, leaving, clients, history>>

EndOfThread ==
    /\ child = "exiting"
    /\ leaving = <<>>
    /\ child' = "gone"
    /\ UNCHANGED <<object, leaving, clients, history>>

-----------------------------------------------------------------------------
(* delete_thread, resume_thread and wait_for_thread_etc *)

delete_thread(c) ==
    /\ Calling(c)
    /\ refOwner' \in TakenFrom(refOwner, c)
    /\ IF Last(own + Cardinality(Owned(refOwner')))
         THEN phase' = "unlisted" /\ Goto(c, "deleting")
         ELSE Goto(c, "dropped") /\ UNCHANGED phase
    /\ UNCHANGED <<running, exited, tstatus, func, exit_callbacks, own, thread,
                   timeout, status, result, history>>

\* The look at thread->existent after the unlock, which may come after another
\* client freed the object.
DeleteDropped(c) ==
    /\ pc[c] = "dropped"
    /\ Finish(c, "B_OK")
    /\ UNCHANGED <<object, thread, timeout, result, history>>

resume_thread(c) ==
    /\ Calling(c)
    /\ IF Startable
         THEN /\ pc' = [WokenClients(pc) EXCEPT ![c] = "resuming"]
              /\ child' = WokenThread(child)
              /\ UNCHANGED status
         ELSE Return("B_ERROR") /\ UNCHANGED <<pc, child>>
    /\ UNCHANGED <<object, leaving, timeout, result, history>>

\* What follows a loop of broadcasts, and the wait for the exit.
AwaitExit(c) ==
    IF exited
      THEN Goto(c, "joining") /\ result' = [result EXCEPT ![c] = tstatus]
      ELSE Goto(c, "asleep") /\ UNCHANGED result

AfterKnocking(c) ==
    \/ /\ pc[c] = "resuming"
       /\ Finish(c, "B_OK")
       /\ UNCHANGED result
    \/ /\ pc[c] = "waking"
       /\ AwaitExit(c)
       /\ UNCHANGED status
    \/ /\ pc[c] = "deleting"
       /\ Goto(c, "reaping")
       /\ UNCHANGED <<status, result>>

\* Seeded fault: one broadcast has to do.
KnockOnce(c) ==
    /\ pc[c] \in {"resuming", "waking", "deleting"}
    /\ func' = (func /\ pc[c] # "deleting")
    /\ Under_way
    /\ AfterKnocking(c)
    /\ UNCHANGED child
    /\ UNCHANGED <<phase, running, exited, tstatus, exit_callbacks, refOwner,
                   own, leaving, timeout, history>>

\* One turn of the loop that broadcasts, sleeps 500 microseconds and looks
\* again, because the new thread may not wait yet.  delete_thread first takes
\* the function away.
Knock(c) ==
    /\ pc[c] \in {"resuming", "waking", "deleting"}
    /\ func' = (func /\ pc[c] # "deleting")
    /\ IF Under_way
         THEN AfterKnocking(c) /\ UNCHANGED child
         ELSE /\ pc' = WokenClients(pc)
              /\ child' = WokenThread(child)
              /\ UNCHANGED <<status, result>>
    /\ UNCHANGED <<phase, running, exited, tstatus, exit_callbacks, refOwner,
                   own, leaving, timeout, history>>

\* pthread_join, and the end of delete_thread (or of a create_thread that could
\* not list its thread).
Reap(c) ==
    /\ pc[c] = "reaping"
    /\ child = "gone"
    /\ ran' = ran \o exit_callbacks
    /\ exit_callbacks' = <<>>
    /\ phase' = "freed"
    /\ Finish(c, "B_OK")
    /\ UNCHANGED <<running, exited, tstatus, func, refOwner, own, thread,
                   timeout, result, startled, added, suspends>>

\* Up to the first wait.  A thread that has exited is joined without a look at
\* its status.
wait_for_thread_etc(c, w) ==
    /\ Calling(c)
    /\ \/ /\ w = "negative"
          /\ Return("B_BAD_VALUE")
          /\ UNCHANGED <<pc, child, timeout, result>>
       \/ /\ w # "negative"
          /\ exited
          /\ Goto(c, "joiningGone")
          /\ result' = [result EXCEPT ![c] = Unwritten]
          /\ UNCHANGED <<status, child, timeout>>
       \/ /\ w = "now"
          /\ ~exited
          /\ Return("B_WOULD_BLOCK")
          /\ UNCHANGED <<pc, child, timeout, result>>
       \/ /\ w \in {"deadline", "forever"}
          /\ ~exited
          /\ timeout' = [timeout EXCEPT ![c] = w]
          /\ IF Startable
               THEN /\ pc' = [WokenClients(pc) EXCEPT ![c] = "waking"]
                    /\ child' = WokenThread(child)
               ELSE Goto(c, "asleep") /\ UNCHANGED child
          /\ UNCHANGED <<status, result>>
    /\ UNCHANGED <<object, leaving, history>>

\* Seeded fault: a wakeup is taken for the exit.
CredulousWaitAgain(c) ==
    /\ pc[c] = "woken"
    /\ Goto(c, "joining")
    /\ result' = [result EXCEPT ![c] = tstatus]
    /\ UNCHANGED <<object, thread, timeout, status, history>>

WaitAgain(c) ==
    /\ pc[c] = "woken"
    /\ AwaitExit(c)
    /\ UNCHANGED <<object, thread, timeout, status, history>>

WaitTimedOut(c) ==
    /\ pc[c] = "expired"
    /\ EndWait(c, "B_TIMED_OUT")
    /\ UNCHANGED <<object, thread, history>>

\* pthread_join returns; a second join of the same thread is undefined, and
\* taken to return at once.
Join(c) ==
    /\ pc[c] \in {"joining", "joiningGone"}
    /\ child = "gone"
    /\ EndWait(c, "B_OK")
    /\ UNCHANGED <<object, thread, history>>

-----------------------------------------------------------------------------
(* The environment *)

Expire(c) ==
    /\ pc[c] = "asleep"
    /\ timeout[c] = "deadline"
    /\ Goto(c, "expired")
    /\ UNCHANGED <<object, thread, timeout, status, result, history>>

SpuriousWakeup ==
    /\ SpuriousWakeups
    /\ \/ /\ child \in {"asleep", "suspended"}
          /\ child' = WokenThread(child)
          /\ startled' = (startled \/ child = "asleep")
          /\ UNCHANGED pc
       \/ /\ \E c \in Threads : pc[c] = "asleep" /\ Goto(c, "woken")
          /\ UNCHANGED <<child, startled>>
    /\ UNCHANGED <<object, leaving, timeout, status, result, added, ran,
                   suspends>>

-----------------------------------------------------------------------------

\* Steps of the new thread that it takes by itself, in or out of its function.
ThreadStep ==
    \/ WaitForStart \/ Start \/ TakeOwnReference \/ Refused \/ Register
    \/ Unregistered \/ Resumed \/ RunCallback \/ DropOwnReference \/ Dropped
    \/ EndOfThread

\* Steps that a client inside a call takes by itself.
ClientStep(c) ==
    \/ AddThread(c) \/ DeleteDropped(c) \/ Knock(c) \/ Reap(c) \/ WaitAgain(c)
    \/ WaitTimedOut(c) \/ Join(c)

Next ==
    \/ ThreadStep
    \/ \E f \in Callbacks : on_exit_thread(f)
    \/ b_suspend_thread
    \/ \E r \in Results : ReturnFromFunction(r) \/ b_exit_thread(r)
    \/ SpuriousWakeup
    \/ \E c \in Threads :
        \/ create_thread(c)
        \/ open_thread(c)
        \/ delete_thread(c)
        \/ resume_thread(c)
        \/ \E w \in Timeouts : wait_for_thread_etc(c, w)
        \/ ClientStep(c)
        \/ Expire(c)

Spec == Init /\ [][Next]_vars

\* Locks are held for a bounded time and snooze returns, so whoever is not
\* waiting goes on; a deadline is absolute.
Fairness ==
    /\ WF_vars(ThreadStep)
    /\ \A c \in Threads : WF_vars(ClientStep(c)) /\ SF_vars(Expire(c))

FairSpec == Spec /\ Fairness

-----------------------------------------------------------------------------
(* Properties *)

\* Nobody touches the object after it was freed: the new thread has only its
\* own list left, and no client is inside a call - but for delete_thread's look
\* at thread->existent after it gave its reference back, which is unguarded.
\* A thread whose last reference went before it was started does not run, even
\* if it had been woken to.
NoUseAfterFree ==
    /\ TypeOK
    /\ phase = "freed" =>
        /\ child \in {"exiting", "dropped", "gone"}
        /\ \A i \in DOMAIN leaving : leaving[i] # Drop
        /\ \A c \in Threads : pc[c] \in {"idle", "dropped"}
    /\ child \in {"running", "suspended", "resumed"} => phase = "listed"

\* The thread's own reference outlasts the exit callbacks: while one is still
\* to run there is a Drop behind it, and the object is there.  When the
\* thread has gone each callback that on_exit_thread accepted has run once,
\* the newest first.
CallbacksRun ==
    /\ \A i \in DOMAIN leaving : leaving[i] # Drop =>
        /\ phase = "listed"
        /\ own > 0
        /\ \E j \in DOMAIN leaving : j > i /\ leaving[j] = Drop
    /\ child = "gone" =>
        ran = [i \in 1..added |-> added + 1 - i]

\* What get_thread_run_state reports.
get_thread_run_state ==
    CASE exited /\ running = 0 -> "EXITED"
      [] exited /\ running # 0 -> "INVALID"
      [] ~exited /\ running = 0 -> "READY"
      [] ~exited /\ running = 1 -> "RUNNING"
      [] ~exited /\ running = 2 -> "SUSPENDED"

\* The state reported of a thread in the list is where the thread is, although
\* create_thread, the thread and its clients write it under different locks;
\* it is ready until somebody asks for it to run.  A thread that could not get
\* its own reference is reported as invalid, since it leaves running set.  Only
\* a spurious wakeup at the bare wait for the start breaks this.
StateReported ==
    phase = "listed" /\ ~startled => get_thread_run_state \in
        CASE child \in {"born", "asleep", "woken"} -> {"READY"}
          [] child \in {"starting", "refused", "registering", "unregistered",
                        "running"} -> {"RUNNING"}
          [] child \in {"suspended", "resumed"} -> {"SUSPENDED"}
          [] OTHER -> {"EXITED", "INVALID"}

\* A wait returns B_OK once the thread has gone, with the value the thread
\* exited with (thread.cpp:833), read under a lock that was given up many times
\* since the call began; the value is missing only when the thread had exited
\* before the call (803-805).
WaitReportsExit ==
    [][\A c \in Threads :
          pc[c] \in {"joining", "joiningGone"} /\ pc'[c] = "idle" =>
          /\ exited /\ exit_callbacks = <<>>
          /\ pc[c] = "joining" => result[c] = tstatus]_vars

\* A call that broadcasts to get the thread under way (resume_thread, the first
\* part of a wait, delete_thread with the last reference) ends, unless a
\* spurious start left the record saying that the thread does not run.
KnockingEnds ==
    \A c \in Threads :
        pc[c] \in {"resuming", "waking", "deleting", "reaping"}
        ~> \/ pc[c] \notin {"resuming", "waking", "deleting", "reaping"}
           \/ startled

\* Everybody who waits for the thread hears that it has gone; and a wait with a
\* deadline returns or the thread exits: a thread on its way out is joined
\* whatever the deadline says.  A thread that started spuriously may have its
\* exit overwritten by create_thread.
WaitsEnd ==
    \A c \in Threads :
        /\ child = "gone" /\ pc[c] \in {"asleep", "woken", "expired", "joining",
                                      "joiningGone"}
           ~> pc[c] = "idle" \/ startled
        /\ pc[c] = "asleep" /\ timeout[c] = "deadline"
           ~> pc[c] \in {"idle", "joining"}
====
