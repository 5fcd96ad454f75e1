---- MODULE Looper ----
(***************************************************************************)
(* Message loops (src/src/kits/app/Looper.cpp, MessageQueue.cpp).            *)
(*                                                                           *)
(* A looper may be the client of another, its proxy, and so on up to a looper *)
(* with a thread.  All loopers of such a tree share the semaphore and the     *)
(* locker of its root; the root's thread takes messages from their queues in  *)
(* turn and sleeps on the semaphore when it has found all of them empty.      *)
(*                                                                           *)
(* The locker of a tree is held by its thread while it looks for messages and *)
(* dispatches them (taskPc "scan" and "dispatch").  What another thread, or the   *)
(* handler being called, does with lockers held is one action.  _PostMessage  *)
(* takes the queue's lock alone.  LooperLock models the lockers themselves.   *)
(*                                                                           *)
(* A change of proxy is one action although it gives up the handlers' lock    *)
(* before each looper gets its new semaphore (Looper.cpp:1062, 1087): a post  *)
(* or a walk in between is one before or after it.  Run() is not: a looper    *)
(* that leaves has no proxy by then, so that Run() starts a thread, and that  *)
(* thread may still clone the semaphore of the former tree (Looper.cpp:583).  *)
(***************************************************************************)
EXTENDS Proxies, Integers, Sequences, SequencesExt, FiniteSets

CONSTANTS
    Runners,    \* the loopers that the program calls Run() on
    MaxPosts,   \* bound: messages posted by others
    MaxMoves    \* bound: changes of proxy

ASSUME LooperAssumption ==
    /\ IsFiniteSet(Loopers)
    /\ Runners \subseteq Loopers
    /\ None \notin Loopers
    /\ MaxPosts \in Nat /\ MaxMoves \in Nat

Whats == {"message", "B_QUIT_REQUESTED", "_QUIT_"}

VARIABLES
    alive,          \* per looper: constructed and not yet deleted
    fClients,       \* per looper: its clients, in the order they came
    fThread,        \* per looper: Run() has given it a thread
    fDeconstructing,
    queue,          \* per looper: the messages of its queue
    sem,            \* per root of a tree: count of the semaphore it shares
    hears,          \* per looper: whose semaphore its thread waits for; None for
                    \* one that no looper has any more
    strays,         \* tokens left on semaphores that no looper has any more
    taskPc,         \* per looper with a thread: where _taskLooper is
    cur,            \* per such looper: the looper whose queue it looks at, in
                    \* a round
    msg,            \* per such looper: the message being dispatched, if any
    posts, moves    \* for the bounds

tree == <<alive, fProxy, fClients>>
loop == <<taskPc, cur, msg>>
ears == <<hears, strays>>
looperVars == <<tree, fThread, fDeconstructing, queue, sem, ears, loop, posts, moves>>

LooperTypeOK ==
    /\ alive \in [Loopers -> BOOLEAN]
    /\ fProxy \in [Loopers -> Loopers \cup {None}]
    /\ fClients \in [Loopers -> Seq(Loopers)]
    /\ fThread \in [Loopers -> BOOLEAN]
    /\ fDeconstructing \in [Loopers -> BOOLEAN]
    /\ queue \in [Loopers -> Seq(Whats)]
    /\ sem \in [Loopers -> Nat]
    /\ hears \in [Loopers -> Loopers \cup {None}]
    /\ strays \in Nat
    /\ taskPc \in [Loopers -> {"none", "lock", "scan", "dispatch", "wait", "exited"}]
    /\ cur \in [Loopers -> Loopers]
    /\ msg \in [Loopers -> Whats]
    /\ posts \in 0..MaxPosts
    /\ moves \in 0..MaxMoves

LooperInit ==
    /\ alive = [l \in Loopers |-> TRUE]
    /\ fProxy = [l \in Loopers |-> None]
    /\ fClients = [l \in Loopers |-> <<>>]
    /\ fThread = [l \in Loopers |-> FALSE]
    /\ fDeconstructing = [l \in Loopers |-> FALSE]
    /\ queue = [l \in Loopers |-> <<>>]
    /\ sem = [l \in Loopers |-> 0]
    /\ hears = [l \in Loopers |-> l]
    /\ strays = 0
    /\ taskPc = [l \in Loopers |-> "none"]
    /\ cur = [l \in Loopers |-> l]
    /\ msg = [l \in Loopers |-> "message"]
    /\ posts = 0
    /\ moves = 0

-----------------------------------------------------------------------------
(* The tree *)

Ring(l) == {d \in Loopers : alive[d] /\ Proxy(d) = Proxy(l)}

\* BList::IndexOf
IndexOf(s, x) == CHOOSE i \in 1..Len(s) : s[i] = x

NextSibling(l) ==
    LET clients == fClients[fProxy[l]]
        at == IndexOf(clients, l)
    IN  IF at < Len(clients) THEN clients[at + 1] ELSE None

\* The loopers on the walk up from l that something follows.
Followed(l) == {a \in AndAbove(fProxy, l) : fProxy[a] # None /\ NextSibling(a) # None}

\* First the looper's own clients, then what follows it or the nearest proxy
\* above it that something follows.
GetNextClient(l) ==
    IF fClients[l] # <<>> THEN Head(fClients[l])
    ELSE IF Followed(l) = {} THEN None
    ELSE NextSibling(CHOOSE a \in Followed(l) : Followed(l) \subseteq AndAbove(fProxy, a))

\* The messages in the queues of S, one by one.
Messages(S) == UNION {{d} \X (1..Len(queue[d])) : d \in S}

\* Messages in the queues of l and of the loopers under it.
CountMessages(l) == Cardinality(Messages(Under(l)))

-----------------------------------------------------------------------------
(* Lockers *)

\* The roots whose lockers the thread of r holds.  A looper that leaves during
\* its dispatch takes the thread's lock along to its new locker.
HeldBy(r) == CASE taskPc[r] = "scan" -> {r}
               [] taskPc[r] = "dispatch" -> {r, Proxy(cur[r])}
               [] OTHER -> {}

LockFree(l) == \A r \in Loopers : Proxy(l) \notin HeldBy(r)

\* One thread can lock all of S: a handler called by the thread of r, or any.
HandlerCanLock(r, S) ==
    taskPc[r] = "dispatch" /\ \A l \in S : LockFree(l) \/ Proxy(l) \in HeldBy(r)
CanLock(S) == \/ \A l \in S : LockFree(l)
              \/ \E r \in Loopers : HandlerCanLock(r, S)

-----------------------------------------------------------------------------
(* Posting *)

\* AddMessage and release_sem under the queue's lock.
SilentPut(l, what) ==               \* seeded fault: no release_sem
    /\ queue' = [queue EXCEPT ![l] = Append(@, what)]
    /\ sem' = sem
Put(l, what) ==
    /\ queue' = [queue EXCEPT ![l] = Append(@, what)]
    /\ sem' = [sem EXCEPT ![Proxy(l)] = @ + 1]

PostMessage(l, what) ==
    /\ alive[l]
    /\ posts < MaxPosts
    /\ Put(l, what)
    /\ posts' = posts + 1
    /\ UNCHANGED <<tree, fThread, fDeconstructing, ears, loop, moves>>

\* An _EVENTS_PENDING_ for the looper only wakes its thread.
PostEventsPending(l) ==
    /\ alive[l]
    /\ posts < MaxPosts
    /\ sem' = [sem EXCEPT ![Proxy(l)] = @ + 1]
    /\ posts' = posts + 1
    /\ UNCHANGED <<tree, fThread, fDeconstructing, queue, ears, loop, moves>>

-----------------------------------------------------------------------------
(* Changing the proxy, running and quitting *)

Without(l) == IF fProxy[l] = None THEN fClients
              ELSE [fClients EXCEPT ![fProxy[l]] = RemoveAt(@, IndexOf(@, l))]

\* Run() of the loopers of S: their threads are about to lock them.
Started(S) == [l \in Loopers |-> IF l \in S THEN "lock" ELSE taskPc[l]]
Start(S) ==
    /\ fThread' = [l \in Loopers |-> l \in S \/ fThread[l]]
    /\ taskPc' = Started(S)

\* delete_sem by the last looper that has the semaphore of l, on which n tokens
\* are left for the threads of S and for others that still wait for it.
Forsake(l, S, n) ==
    LET deaf == S \cup {d \in Loopers \ {l} : hears[d] = l}
    IN  /\ hears' = [d \in Loopers |-> IF d \in deaf THEN None ELSE hears[d]]
        /\ strays' = IF deaf = {} THEN strays ELSE strays + n

\* _ProxyBy(NULL): l and the loopers under it get a semaphore of their own,
\* with a token for each of their messages.
Leave(l) ==
    /\ fProxy' = [fProxy EXCEPT ![l] = None]
    /\ fClients' = Without(l)
    /\ sem' = [sem EXCEPT ![l] = CountMessages(l)]

\* _ProxyBy(p): they share the semaphore of p, which gets these tokens.
Tokenless(l, p) == sem' = [sem EXCEPT ![l] = 0]     \* seeded fault
MoveTokens(l, p) ==
    sem' = [sem EXCEPT ![l] = 0, ![Proxy(p)] = @ + CountMessages(l)]

Join(l, p) ==
    /\ fProxy' = [fProxy EXCEPT ![l] = p]
    /\ fClients' = [Without(l) EXCEPT ![p] = Append(@, l)]
    /\ MoveTokens(l, p)

\* ProxyBy does nothing for loopers that already share a root or for one with
\* a thread.
ProxyBy(l, p) ==
    /\ alive[l] /\ alive[p]
    /\ moves < MaxMoves
    /\ ~fThread[l]
    /\ Proxy(l) # Proxy(p)
    /\ CanLock({l, p})
    /\ Join(l, p)
    /\ Forsake(l, {}, sem[l])
    /\ moves' = moves + 1
    /\ UNCHANGED <<alive, fThread, fDeconstructing, queue, loop, posts>>

ProxyByNone(l) ==
    /\ alive[l]
    /\ moves < MaxMoves
    /\ fProxy[l] # None
    /\ CanLock({l})
    /\ Leave(l)
    /\ moves' = moves + 1
    /\ UNCHANGED <<alive, fDeconstructing, queue, strays, cur, msg, posts>>

\* ProxyBy(NULL), with nobody in between or with Run() and the clone of fSem.
ProxyByNoneAlone(l) ==
    /\ ProxyByNone(l)
    /\ UNCHANGED <<fThread, taskPc, hears>>

ProxyByNoneRun(l) ==
    /\ ProxyByNone(l)
    /\ Start({l})
    /\ hears' = [hears EXCEPT ![l] = Proxy(l)]

Run(l) ==
    /\ alive[l]
    /\ fProxy[l] = None
    /\ ~fThread[l]
    /\ Start({l})
    /\ UNCHANGED <<tree, fDeconstructing, queue, sem, ears, cur, msg, posts, moves>>

\* ~BLooper: l leaves its proxy and each of its clients leaves l; those of S
\* are run in between, and clone the semaphore that goes with l.
Clients(l) == ToSet(fClients[l])
Orphan(l) == sem' = [d \in Loopers |-> IF d = l THEN 0
                                       ELSE IF d \in Clients(l)
                                              THEN CountMessages(d) ELSE sem[d]]

Startable(l) == SUBSET (Clients(l) \cap Runners)

Delete(l, S) ==
    /\ alive' = [alive EXCEPT ![l] = FALSE]
    /\ fProxy' = [d \in Loopers |-> IF d = l \/ fProxy[d] = l THEN None ELSE fProxy[d]]
    /\ fClients' = [Without(l) EXCEPT ![l] = <<>>]
    /\ queue' = [queue EXCEPT ![l] = <<>>]
    /\ Orphan(l)
    /\ Forsake(l, S, IF fProxy[l] = None THEN sem[l] ELSE CountMessages(l))
    /\ fThread' = [d \in Loopers |-> d # l /\ (d \in S \/ fThread[d])]

\* Quit() from outside the looper: a message for a looper with a thread, which
\* is deleted there; else delete.  (For the thread of a looper Quit() is an
\* error; for a handler of a client it would delete the looper being served.)
Quit(l) ==
    /\ alive[l]
    /\ ~fDeconstructing[l]
    /\ \/ LockFree(l)
       \/ \E r \in Loopers : HandlerCanLock(r, {l}) /\ l \notin {r, cur[r]}
    /\ IF fThread[l]
         THEN /\ Put(l, "_QUIT_")
              /\ fDeconstructing' = [fDeconstructing EXCEPT ![l] = TRUE]
              /\ UNCHANGED <<tree, fThread, ears, taskPc>>
         ELSE /\ \E S \in Startable(l) : Delete(l, S) /\ taskPc' = Started(S)
              /\ UNCHANGED fDeconstructing
    /\ UNCHANGED <<cur, msg, posts, moves>>

-----------------------------------------------------------------------------
(* _taskLooper *)

\* A round begins at the looper itself, with its lock.
Begin(r) ==
    /\ taskPc[r] = "lock"
    /\ LockFree(r)
    /\ taskPc' = [taskPc EXCEPT ![r] = "scan"]
    /\ UNCHANGED <<tree, fThread, fDeconstructing, queue, sem, ears, cur, msg, posts, moves>>

\* The thread of r goes to p; cur starts again from the looper itself unless the
\* round goes on.
GoTo(r, p) ==
    /\ taskPc' = [taskPc EXCEPT ![r] = p]
    /\ cur' = [cur EXCEPT ![r] = IF p = "scan" THEN @ ELSE r]

\* flags is 2 for the looper itself and 1 for a client.
AfterQuit(r) == IF cur[r] = r THEN "exited" ELSE "lock"

\* A _QUIT_ at the head stays in the queue, which is deleted with its looper.
TakeQuit(r) ==
    /\ taskPc[r] = "scan"
    /\ queue[cur[r]] # <<>>
    /\ Head(queue[cur[r]]) = "_QUIT_"
    /\ \E S \in Startable(cur[r]) :
        /\ Delete(cur[r], S)
        /\ taskPc' = [Started(S) EXCEPT ![r] = AfterQuit(r)]
    /\ fDeconstructing' = [fDeconstructing EXCEPT ![cur[r]] = TRUE]
    /\ cur' = [cur EXCEPT ![r] = r]
    /\ UNCHANGED <<msg, posts, moves>>

\* NextMessage; without a target (_MessageTarget) the message is deleted.
TakeMessage(r) ==
    /\ taskPc[r] = "scan"
    /\ queue[cur[r]] # <<>>
    /\ Head(queue[cur[r]]) # "_QUIT_"
    /\ queue' = [queue EXCEPT ![cur[r]] = Tail(@)]
    /\ \/ /\ msg' = [msg EXCEPT ![r] = Head(queue[cur[r]])]
          /\ taskPc' = [taskPc EXCEPT ![r] = "dispatch"]
       \/ UNCHANGED <<msg, taskPc>>
    /\ UNCHANGED <<tree, fThread, fDeconstructing, sem, ears, cur, posts, moves>>

WalkEnds(r) == Proxy(cur[r]) # r \/ GetNextClient(cur[r]) = None

\* The queue is empty: on to the next client, or to sleep.
PassOver(r) ==
    /\ taskPc[r] = "scan"
    /\ queue[cur[r]] = <<>>
    /\ IF WalkEnds(r)
         THEN GoTo(r, "wait")
         ELSE cur' = [cur EXCEPT ![r] = GetNextClient(cur[r])] /\ UNCHANGED taskPc
    /\ UNCHANGED <<tree, fThread, fDeconstructing, queue, sem, ears, msg, posts, moves>>

\* Seeded fault: the round goes on from a looper that has left.
BoldAfterDispatch(r) == "scan"
\* isClient: the round starts again when the looper has left.
AfterDispatch(r) == IF Proxy(cur[r]) = r THEN "scan" ELSE "lock"

\* The end of _FilterAndDispatchMessage.  B_QUIT_REQUESTED posts _QUIT_ when
\* QuitRequested() agrees, unless a filter has taken the message.
Dispatch(r) ==
    /\ taskPc[r] = "dispatch"
    /\ \/ msg[r] = "B_QUIT_REQUESTED" /\ Put(cur[r], "_QUIT_")
       \/ UNCHANGED <<queue, sem>>
    /\ msg' = [msg EXCEPT ![r] = "message"]
    /\ GoTo(r, AfterDispatch(r))
    /\ UNCHANGED <<tree, fThread, fDeconstructing, ears, posts, moves>>

\* acquire_sem on the clone that _task has made when the thread started.
AcquireSem(r) ==
    /\ taskPc[r] = "wait"
    /\ IF hears[r] = None
         THEN strays > 0 /\ strays' = strays - 1 /\ UNCHANGED sem
         ELSE /\ sem[hears[r]] > 0
              /\ sem' = [sem EXCEPT ![hears[r]] = @ - 1]
              /\ UNCHANGED strays
    /\ taskPc' = [taskPc EXCEPT ![r] = "lock"]
    /\ UNCHANGED <<tree, fThread, fDeconstructing, queue, hears, cur, msg, posts, moves>>

TaskLooper(r) == Begin(r) \/ TakeQuit(r) \/ TakeMessage(r) \/ PassOver(r)
                   \/ Dispatch(r) \/ AcquireSem(r)

-----------------------------------------------------------------------------

LooperNext ==
    \/ \E l \in Loopers, what \in {"message", "B_QUIT_REQUESTED"} : PostMessage(l, what)
    \/ \E l \in Loopers : PostEventsPending(l) \/ ProxyByNoneAlone(l) \/ Quit(l)
    \/ \E l \in Runners : Run(l) \/ ProxyByNoneRun(l)
    \/ \E l, p \in Loopers : ProxyBy(l, p)
    \/ \E r \in Loopers : TaskLooper(r)

LooperSpec == LooperInit /\ [][LooperNext]_looperVars

\* The kernel runs the threads, and handlers return.
FairLooperSpec == LooperSpec /\ \A r \in Loopers : WF_looperVars(TaskLooper(r))

-----------------------------------------------------------------------------
(* Properties *)

\* The thread of r waits for the semaphore of r, and no other thread does: not
\* after Run() in the middle of ProxyBy(NULL), when the thread of a looper that
\* has left waits for its former tree's and uses up the tokens there.
OwnEars(r) == \A d \in Loopers : (hears[d] = r) = (d = r)

\* A thread that has gone to sleep will be woken while there is a message in
\* the queue of any looper of its tree: loopers that join bring tokens for
\* their messages, those that leave take the messages away, and no round
\* passes over a looper whose message's token is used up.  Excepted are the
\* trees of a looper that Run() has met without its semaphore and of the looper
\* it left (Looper.cpp:583, 1062-1064), where the wakeup can be lost.
LoopWakeupNotLost ==
    \A r \in Loopers :
        (taskPc[r] = "wait" /\ OwnEars(r) /\ \E l \in Ring(r) : queue[l] # <<>>)
            => sem[r] > 0

\* fClients is the inverse of fProxy, without repetition and without deleted
\* loopers, and there is no cycle; a looper with a thread has no proxy, so that
\* no tree is served by two threads (Run and ProxyBy refuse it).
ProxiesFormTrees ==
    \A l \in Loopers :
        /\ fProxy[Proxy(l)] = None
        /\ IsInjective(fClients[l])
        /\ \A d \in Loopers : (d \in Clients(l)) = (fProxy[d] = l)
        /\ fProxy[l] # None => alive[l] /\ alive[fProxy[l]] /\ ~fThread[l]

\* Proxies form trees, and a round never looks at the queue of a looper that is
\* deleted or that has left its tree, although handlers move and delete loopers
\* in the middle of it.
RoundStaysInTree ==
    /\ LooperTypeOK
    /\ ProxiesFormTrees
    /\ \A r \in Loopers :
        /\ taskPc[r] \in {"scan", "dispatch"} => alive[cur[r]]
        /\ taskPc[r] = "scan" => Proxy(cur[r]) = r

\* There is work at l, a message or the Quit() of its thread, and the tree of l
\* has a thread, which hears it.
HasWork(l) == queue[l] # <<>> \/ (fThread[l] /\ fDeconstructing[l])
ToBeServed(l) == HasWork(l) /\ LET r == Proxy(l) IN fThread[r] /\ OwnEars(r)

\* The queue of a looper whose tree has a thread that hears it is emptied,
\* unless the looper goes or the thread is not its tree's any more; and Quit()
\* of such a looper with a thread ends: the thread finds the message and deletes
\* the looper.  (Messages stop coming in this model.)
QueuesAreServed == \A l \in Loopers : []<>~ToBeServed(l)
====
