---- MODULE LooperLock ----
(***************************************************************************)
(* Locking a looper whose locker may be exchanged meanwhile: Lock, Unlock,   *)
(* IsLockedByCurrentThread, ProxyBy and _ProxyBy of BLooper                  *)
(* (src/src/kits/app/Looper.cpp) and lock_looper_of_handler                  *)
(* (src/src/kits/app/private/PrivateHandler.cpp).                            *)
(*                                                                           *)
(* Loopers with the same root share one recursive locker (module Locker).    *)
(* To lock a looper a thread clones its locker under the handlers' lock,     *)
(* lets go of that lock, waits for the locker, and then looks whether the    *)
(* looper still has the same root.  ProxyBy gives a looper and all loopers   *)
(* under it another locker, and the caller keeps its locks.  It is not one   *)
(* section: before it exchanges a looper's locker it locks the looper's      *)
(* queue, and gives up the handlers' lock for that (MessageQueue.cpp:72-78). *)
(* The looper has its new proxy by then and still the old locker.            *)
(*                                                                           *)
(* One action is one section under the handlers' lock, or one operation of   *)
(* the locker.  Loopers are not deleted here (close_locker, Looper.cpp:131).  *)
(***************************************************************************)
EXTENDS Proxies, Integers, FiniteSets

CONSTANTS
    Callers,        \* the threads that lock loopers
    MaxLockers,     \* bound: lockers ever created
    MaxLocks        \* bound: locks that one thread holds on one looper

ASSUME LooperLockAssumption ==
    /\ IsFiniteSet(Callers) /\ IsFiniteSet(Loopers)
    /\ None \notin Loopers \cup Callers
    /\ MaxLockers \in Nat /\ Cardinality(Loopers) <= MaxLockers
    /\ MaxLocks \in Nat

Lockers == 1..MaxLockers

VARIABLES
    fLocker,        \* per looper: its locker
    fLocksCount,    \* per looper: as BLooper counts
    made,           \* lockers created so far
    owner, depth,   \* per locker: the thread that has it and how often
    shut,           \* per locker: close_locker
    lookupPc,       \* per thread: "idle", "waiting" for a locker, "got" it, or
                    \* "moving" a looper
    call,           \* per thread: [looper, locker, root, torn] of its Lock()
    move,           \* per thread: its _ProxyBy
    mine,           \* per thread and looper: locks it got and has not given back
    breached        \* history: a torn lookup passed for a current one

lockers == <<made, owner, depth, shut>>
looperLockVars ==
    <<fProxy, fLocker, fLocksCount, lockers, lookupPc, call, move, mine, breached>>

NoCall == [looper |-> None, locker |-> 0, root |-> None, torn |-> FALSE]

\* looper and those under it, of which todo still have the locker old, move;
\* alone tells that looper had no proxy.
NoMove == [looper |-> None, old |-> 0, todo |-> {}, alone |-> FALSE]

LooperLockTypeOK ==
    /\ fProxy \in [Loopers -> Loopers \cup {None}]
    /\ fLocker \in [Loopers -> Lockers]
    /\ fLocksCount \in [Loopers -> Nat]
    /\ made \in 0..MaxLockers
    /\ owner \in [Lockers -> Callers \cup {None}]
    /\ depth \in [Lockers -> Nat]
    /\ shut \in [Lockers -> BOOLEAN]
    /\ lookupPc \in [Callers -> {"idle", "waiting", "got", "moving"}]
    /\ call \in [Callers -> [looper : Loopers, locker : Lockers, root : Loopers,
                              torn : BOOLEAN] \cup {NoCall}]
    /\ move \in [Callers -> [looper : Loopers, old : Lockers, todo : SUBSET Loopers,
                              alone : BOOLEAN] \cup {NoMove}]
    /\ mine \in [Callers -> [Loopers -> Nat]]
    /\ breached \in BOOLEAN

\* Each looper is created with a locker of its own.
LooperLockInit ==
    /\ fProxy = [l \in Loopers |-> None]
    /\ fLocker \in [Loopers -> 1..Cardinality(Loopers)]
    /\ \A l, m \in Loopers : fLocker[l] = fLocker[m] => l = m
    /\ fLocksCount = [l \in Loopers |-> 0]
    /\ made = Cardinality(Loopers)
    /\ owner = [k \in Lockers |-> None]
    /\ depth = [k \in Lockers |-> 0]
    /\ shut = [k \in Lockers |-> FALSE]
    /\ lookupPc = [t \in Callers |-> "idle"]
    /\ call = [t \in Callers |-> NoCall]
    /\ move = [t \in Callers |-> NoMove]
    /\ mine = [t \in Callers |-> [l \in Loopers |-> 0]]
    /\ breached = FALSE

-----------------------------------------------------------------------------
(* Lockers.  unlock_locker of another's locker fails and changes nothing. *)

Unlocked(k, t, n) ==
    IF owner[k] # t THEN [owner |-> owner[k], depth |-> depth[k]]
    ELSE IF depth[k] <= n THEN [owner |-> None, depth |-> 0]
    ELSE [owner |-> t, depth |-> depth[k] - n]

GiveBack(k, t) ==
    /\ owner' = [owner EXCEPT ![k] = Unlocked(k, t, 1).owner]
    /\ depth' = [depth EXCEPT ![k] = Unlocked(k, t, 1).depth]

-----------------------------------------------------------------------------
(* Lock() and Unlock() *)

\* The looper has a new root and still its former locker.
HalfMoved(l) == \E t \in Callers : l \in move[t].todo

\* lock_looper_of_handler up to the wait: the handlers' lock is let go.
Lock(t, l) ==
    /\ lookupPc[t] = "idle"
    /\ mine[t][l] < MaxLocks
    /\ call' = [call EXCEPT ![t] = [looper |-> l, locker |-> fLocker[l], root |-> Proxy(l),
                                    torn |-> HalfMoved(l)]]
    /\ lookupPc' = [lookupPc EXCEPT ![t] = "waiting"]
    /\ UNCHANGED <<fProxy, fLocker, fLocksCount, lockers, move, mine, breached>>

\* lock_locker_etc on the clone
Acquire(t) ==
    LET k == call[t].locker
    IN  /\ lookupPc[t] = "waiting"
        /\ ~shut[k]
        /\ owner[k] \in {None, t}
        /\ owner' = [owner EXCEPT ![k] = t]
        /\ depth' = [depth EXCEPT ![k] = @ + 1]
        /\ lookupPc' = [lookupPc EXCEPT ![t] = "got"]
        /\ UNCHANGED <<fProxy, fLocker, fLocksCount, made, shut, call, move, mine, breached>>

\* A closed locker, or the end of the timeout of LockWithTimeout.
Fail(t) ==
    /\ lookupPc[t] = "waiting"
    /\ lookupPc' = [lookupPc EXCEPT ![t] = "idle"]
    /\ call' = [call EXCEPT ![t] = NoCall]
    /\ UNCHANGED <<fProxy, fLocker, fLocksCount, lockers, move, mine, breached>>

\* Seeded fault: the locker that was waited for is taken for the looper's.
TrustingSameRoot(t) == TRUE
\* The other half of the test, that the handler still belongs to the looper,
\* holds always here: nothing is deleted.
SameRoot(t) == Proxy(call[t].looper) = call[t].root

\* The rest of lock_looper_of_handler, and the count of LockWithTimeout.
Finish(t) ==
    LET l == call[t].looper
    IN  /\ lookupPc[t] = "got"
        /\ IF SameRoot(t)
             THEN /\ fLocksCount' = [fLocksCount EXCEPT ![l] = @ + 1]
                  /\ mine' = [mine EXCEPT ![t][l] = @ + 1]
                  /\ breached' = (breached \/ call[t].torn)
                  /\ UNCHANGED <<owner, depth>>
             ELSE /\ GiveBack(call[t].locker, t)
                  /\ UNCHANGED <<fLocksCount, mine, breached>>
        /\ lookupPc' = [lookupPc EXCEPT ![t] = "idle"]
        /\ call' = [call EXCEPT ![t] = NoCall]
        /\ UNCHANGED <<fProxy, fLocker, made, shut, move>>

\* CountLocks() counts the locks of whatever thread.
IsLockedByCurrentThread(l) == fLocksCount[l] > 0

\* Called by threads that have the lock: the test above would let others pass.
Unlock(t, l) ==
    /\ lookupPc[t] = "idle"
    /\ mine[t][l] > 0
    /\ IsLockedByCurrentThread(l)
    /\ fLocksCount' = [fLocksCount EXCEPT ![l] = @ - 1]
    /\ GiveBack(fLocker[l], t)
    /\ mine' = [mine EXCEPT ![t][l] = @ - 1]
    /\ UNCHANGED <<fProxy, fLocker, made, shut, lookupPc, call, move, breached>>

-----------------------------------------------------------------------------
(* ProxyBy *)

\* The locks on the loopers of S, one by one.
Locks(S) == UNION {{l} \X (1..fLocksCount[l]) : l \in S}

\* _ProxyBy up to the looper's queue: it has its new proxy.
BeginMove(t, l, p) ==
    /\ fProxy' = [fProxy EXCEPT ![l] = p]
    /\ move' = [move EXCEPT ![t] = [looper |-> l, old |-> fLocker[l], todo |-> Under(l),
                                    alone |-> fProxy[l] = None]]
    /\ lookupPc' = [lookupPc EXCEPT ![t] = "moving"]
    /\ UNCHANGED <<fLocker, fLocksCount, lockers, call, mine, breached>>

\* Bound: with the lockers that moves under way may still create.
RoomForLocker == made + Cardinality({u \in Callers : move[u] # NoMove}) < MaxLockers

ProxyLockersByNone(t, l) ==
    /\ lookupPc[t] = "idle"
    /\ mine[t][l] > 0
    /\ IsLockedByCurrentThread(l)
    /\ Proxy(l) # l
    /\ RoomForLocker
    /\ BeginMove(t, l, None)

ProxyLockersBy(t, l, p) ==
    /\ lookupPc[t] = "idle"
    /\ mine[t][l] > 0 /\ mine[t][p] > 0
    /\ IsLockedByCurrentThread(l) /\ IsLockedByCurrentThread(p)
    /\ Proxy(l) # Proxy(p)
    /\ BeginMove(t, l, p)

\* Seeded fault: the old locker of a looper without proxy is only let go of.
KeptClosed(t) == shut
\* close_locker when there was no proxy; a looper without one only gets one.
Closed(t) ==
    IF move[t].alone THEN [shut EXCEPT ![move[t].old] = TRUE] ELSE shut

\* create_locker, or clone_locker of the proxy's.
NewLocker(d) == IF fProxy[d] = None THEN made + 1 ELSE fLocker[fProxy[d]]

\* Who gives locks on the old locker back when d has the new one: d, a client,
\* for itself, and the looper that moves when none is left and it had a proxy.
Leaving(t, d) ==
    {e \in {d, move[t].looper} :
        e # move[t].looper \/ (move[t].todo = {d} /\ ~move[t].alone)}

\* Looper d, whose proxy has it already, gets the new locker and as many locks on
\* it as it has on the old one; after the last looper the move is over.
Exchange(t, d) ==
    LET m == move[t]
        k == NewLocker(d)
        old == Unlocked(m.old, t, Cardinality(Locks(Leaving(t, d))))
    IN  /\ lookupPc[t] = "moving"
        /\ d \in m.todo /\ (d = m.looper \/ fProxy[d] \notin m.todo)
        /\ k \in Lockers
        /\ owner[k] \in {None, t}
        /\ fLocker' = [fLocker EXCEPT ![d] = k]
        /\ owner' = [owner EXCEPT ![k] = IF fLocksCount[d] > 0 THEN t ELSE @,
                                  ![m.old] = old.owner]
        /\ depth' = [depth EXCEPT ![k] = @ + fLocksCount[d], ![m.old] = old.depth]
        /\ made' = IF fProxy[d] = None THEN k ELSE made
        /\ IF m.todo = {d}
             THEN /\ shut' = Closed(t)
                  /\ move' = [move EXCEPT ![t] = NoMove]
                  /\ lookupPc' = [lookupPc EXCEPT ![t] = "idle"]
             ELSE /\ move' = [move EXCEPT ![t].todo = m.todo \ {d}]
                  /\ UNCHANGED <<shut, lookupPc>>
        /\ UNCHANGED <<fProxy, fLocksCount, call, mine, breached>>

-----------------------------------------------------------------------------

LooperLockNext ==
    \/ \E t \in Callers : Acquire(t) \/ Fail(t) \/ Finish(t)
    \/ \E t \in Callers, l \in Loopers :
        Lock(t, l) \/ Unlock(t, l) \/ ProxyLockersByNone(t, l) \/ Exchange(t, l)
    \/ \E t \in Callers, l, p \in Loopers : ProxyLockersBy(t, l, p)

LooperLockSpec == LooperLockInit /\ [][LooperLockNext]_looperLockVars

-----------------------------------------------------------------------------
(* Properties *)

\* The loopers that lock k, those of a move up to its end.
Using(k) ==
    {l \in Loopers : \/ fLocker[l] = k
                     \/ \E t \in Callers : move[t].looper = l /\ move[t].old = k}

\* Two threads never both have a looper's lock, although its locker is exchanged
\* between the moment a thread looks it up and the moment it gets it: comparing
\* the roots is enough to tell that the locker is still the looper's, if the
\* lookup was not torn.  A torn one, made while ProxyBy(NULL) had given up the
\* handlers' lock to lock a queue (Looper.cpp:1062), has the new root and the
\* former locker, passes the comparison, and with it the lock is worth nothing.
\* Until then the depth of a locker is what its loopers count plus the lookups
\* under way, and its owner is the thread that has the loopers: ProxyBy moves
\* every lock of the loopers it takes along and no other.
LocksFollowLoopers ==
    breached \/
        /\ LooperLockTypeOK
        /\ \A l \in Loopers, t, u \in Callers :
             (mine[t][l] > 0 /\ mine[u][l] > 0) => t = u
        /\ \A k \in Lockers : ~shut[k] =>
             depth[k] = Cardinality(Locks(Using(k)))
                          + Cardinality({t \in Callers : lookupPc[t] = "got" /\ call[t].locker = k})
        /\ \A t \in Callers, l \in Loopers : mine[t][l] > 0 => owner[fLocker[l]] = t

\* A thread that waits for a locker that no looper uses any more gets to look
\* again, also when it looked while the loopers moved: that locker is closed, or
\* free, or held by another such thread.
NobodyWaitsForAbandoned ==
    breached \/
        \A k \in Lockers :
            Using(k) = {} =>
                \/ shut[k]
                \/ owner[k] = None
                \/ lookupPc[owner[k]] = "got" /\ call[owner[k]].locker = k
====
