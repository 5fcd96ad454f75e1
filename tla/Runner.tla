------------------------------- MODULE Runner -------------------------------
(***************************************************************************)
(* BMessageRunner (src/src/kits/app/MessageRunner.cpp) and the part of the *)
(* application's loop that serves the runners:                             *)
(* BApplication::dispatch_message_runners and the wait of                  *)
(* BLooper::NextLooperMessage.                                             *)
(*                                                                         *)
(* Runners are known by their addresses, which are used again after a      *)
(* delete.  sRunnerList holds them or NULL; the index of a runner is its   *)
(* token.  One action is one section under the handlers' lock.  The lock   *)
(* is given up inside SendMessage and PostMessage, while they wait for the *)
(* lock of a message queue (BMessageQueue::LockWithTimeout), so other      *)
(* threads may make, change and delete runners in the middle of a scan     *)
(* ("sending") and between a change and its wakeup (posts).                *)
(*                                                                         *)
(* Time moves in steps of the shortest wait (50 ms).  A scan reads the     *)
(* clock once, and its sends wait: until the loop goes on to wait or to    *)
(* dispatch, ages are those at that reading and late is what has passed    *)
(* since.  The application's object may be made after the first runners.   *)
(***************************************************************************)
EXTENDS Integers, Sequences, FiniteSets, SequencesExt

CONSTANTS
  Runners,      \* addresses of runners
  Intervals,    \* the intervals clients ask for, 0 among them
  Counts,       \* the numbers of messages clients ask for; -1: without end
  MaxPosts,     \* bound: wakeups under way or not yet taken
  MaxLate,      \* bound: the time from a scan's start to the wait after it
  NULL

ASSUME RunnerAssumption ==
  /\ Intervals \subseteq Nat /\ IsFiniteSet(Intervals) /\ 0 \in Intervals
  /\ Counts \subseteq Int
  /\ MaxPosts \in Nat /\ MaxLate \in Nat
  /\ NULL \notin Runners

VARIABLES
  live,         \* the runners that exist
  fToken, fInterval, fCount,
  aimed,        \* fTarget is a valid messenger and fMessage is set
  age,          \* the time since fPrevSendTime; -1: not sent since set up
  sRunnerList,
  sRunnerMinimumInterval,
  posts,        \* changes whose PostMessage has not reached the semaphore yet
  sem,          \* units of the application's semaphore
  at,           \* where the application's thread is
  i, runner,    \* the scan's index and the runner it is sending for
  left,         \* what is left of the wait
  late,         \* the time from the scan's reading of the clock to the wait
  be_app,       \* the application's object is made
  unheard       \* history: a runner was made active without be_app, and no
                \* change has marked the minimum since

setup == <<live, fToken, fInterval, fCount, aimed, sRunnerList>>
loop == <<at, i, runner, left, late>>
app == <<be_app, unheard>>
vars == <<setup, age, sRunnerMinimumInterval, posts, sem, loop, app>>

Forever == 1 + CHOOSE n \in Intervals : \A k \in Intervals : k <= n

(* A length of time, as far as it matters to any interval. *)
Capped(t) == IF t > Forever THEN Forever ELSE t

Init ==
  /\ live = {}
  /\ fToken = [r \in Runners |-> -1]
  /\ fInterval = [r \in Runners |-> 0]
  /\ fCount = [r \in Runners |-> 0]
  /\ aimed = [r \in Runners |-> FALSE]
  /\ age = [r \in Runners |-> -1]
  /\ sRunnerList = <<>>
  /\ sRunnerMinimumInterval = 0
  /\ posts = 0 /\ sem = 0
  /\ at = "loop" /\ i = 0 /\ runner = NULL /\ left = 0 /\ late = 0
  /\ be_app = FALSE /\ unheard = FALSE

-----------------------------------------------------------------------------
(* Clients *)

(* The test of lines 73 and 256: the runner has something to send. *)
Sends(count, interval, aim) == count # 0 /\ interval > 0 /\ aim

Active(r) == r \in live /\ Sends(fCount[r], fInterval[r], aimed[r])

(* The handlers' lock is free: the application is not inside a scan. *)
Unlocked == at # "scan"

(* A change that makes or leaves a runner active marks the minimum as      *)
(* stale and posts _EVENTS_PENDING_, which only wakes the application; it  *)
(* does neither while there is no application.                             *)
Announce(active) ==
  /\ UNCHANGED be_app
  /\ IF active /\ be_app
     THEN /\ sRunnerMinimumInterval' = -1
          /\ posts' = posts + 1
          /\ unheard' = FALSE
     ELSE /\ unheard' = (unheard \/ active)
          /\ UNCHANGED <<sRunnerMinimumInterval, posts>>

(* The slot a new runner takes: the first NULL, or one more at the end. *)
FreeSlot ==
  IF \E k \in DOMAIN sRunnerList : sRunnerList[k] = NULL
  THEN SelectInSeq(sRunnerList, LAMBDA e : e = NULL)
  ELSE Len(sRunnerList) + 1

Create(r, interval, count, aim) ==
  /\ Unlocked /\ r \notin live /\ posts + sem < MaxPosts
  /\ live' = live \cup {r}
  /\ fInterval' = [fInterval EXCEPT ![r] = interval]
  /\ fCount' = [fCount EXCEPT ![r] = count]
  /\ aimed' = [aimed EXCEPT ![r] = aim]
  /\ age' = [age EXCEPT ![r] = -1]
  /\ fToken' = [fToken EXCEPT ![r] = FreeSlot - 1]
  /\ sRunnerList' = [k \in 1 .. (IF FreeSlot > Len(sRunnerList) THEN FreeSlot ELSE Len(sRunnerList)) |->
                       IF k = FreeSlot THEN r ELSE sRunnerList[k]]
  /\ Announce(Sends(count, interval, aim))
  /\ UNCHANGED <<sem, loop>>

(* The list after the entry at token is taken out: the last one goes, any  *)
(* other becomes NULL.                                                     *)
Removed(token) ==
  IF token = Len(sRunnerList) - 1
  THEN SubSeq(sRunnerList, 1, token)
  ELSE [sRunnerList EXCEPT ![token + 1] = NULL]

Delete(r) ==
  /\ Unlocked /\ r \in live
  /\ live' = live \ {r}
  /\ sRunnerList' = Removed(fToken[r])
  /\ fToken' = [fToken EXCEPT ![r] = -1]
  /\ fInterval' = [fInterval EXCEPT ![r] = 0]
  /\ fCount' = [fCount EXCEPT ![r] = 0]
  /\ aimed' = [aimed EXCEPT ![r] = FALSE]
  /\ age' = [age EXCEPT ![r] = -1]
  /\ UNCHANGED <<sRunnerMinimumInterval, posts, sem, loop, app>>

(* What every setter does besides its assignment. *)
Restart(r) ==
  /\ Unlocked /\ r \in live /\ posts + sem < MaxPosts
  /\ age' = [age EXCEPT ![r] = -1]
  /\ UNCHANGED <<live, fToken, sRunnerList, sem, loop>>

(* SetTarget and SetMessage *)
SetAim(r, aim) ==
  /\ Restart(r)
  /\ aimed' = [aimed EXCEPT ![r] = aim]
  /\ Announce(Sends(fCount[r], fInterval[r], aim))
  /\ UNCHANGED <<fInterval, fCount>>

SetInterval(r, interval) ==
  /\ Restart(r)
  /\ fInterval' = [fInterval EXCEPT ![r] = interval]
  /\ Announce(Sends(fCount[r], interval, aimed[r]))
  /\ UNCHANGED <<fCount, aimed>>

SetCount(r, count) ==
  /\ Restart(r)
  /\ fCount' = [fCount EXCEPT ![r] = count]
  /\ Announce(Sends(count, fInterval[r], aimed[r]))
  /\ UNCHANGED <<fInterval, aimed>>

(* The one setter that wakes nobody. *)
SetReplyTo(r) ==
  /\ Restart(r)
  /\ UNCHANGED <<fInterval, fCount, aimed, sRunnerMinimumInterval, posts, app>>

(* PostMessage gets the queue's lock and releases the semaphore. *)
Post ==
  /\ posts > 0
  /\ posts' = posts - 1
  /\ sem' = sem + 1
  /\ UNCHANGED <<setup, age, sRunnerMinimumInterval, loop, app>>

(* BApplication::Init sets be_app.  The pulse runner it makes before, in   *)
(* the same section and with a count of 0, is a Create of its own here.    *)
InitApp ==
  /\ ~be_app
  /\ be_app' = TRUE
  /\ UNCHANGED <<setup, age, sRunnerMinimumInterval, posts, sem, loop, unheard>>

-----------------------------------------------------------------------------
(* The application's loop *)

(* dispatch_message_runners up to its loop: a minimum of 0 means that      *)
(* there is nothing to send.                                               *)
BeginScan ==
  /\ be_app /\ at = "loop"
  /\ at' = IF sRunnerMinimumInterval = 0 THEN "served" ELSE "scan"
  /\ sRunnerMinimumInterval' = 0
  /\ UNCHANGED <<setup, age, posts, sem, i, runner, left, late, app>>

Due(r) == age[r] < 0 \/ age[r] >= fInterval[r]

(* The minimum after an entry that has t to go. *)
Lowered(t) ==
  IF sRunnerMinimumInterval = 0 \/ t < sRunnerMinimumInterval
  THEN t ELSE sRunnerMinimumInterval

PassOver(r) ==
  /\ r = NULL \/ ~Active(r)
  /\ i' = i + 1
  /\ UNCHANGED <<age, sRunnerMinimumInterval, at, runner>>

NotYet(r) ==
  /\ r # NULL /\ Active(r) /\ ~Due(r)
  /\ sRunnerMinimumInterval' = Lowered(fInterval[r] - age[r])
  /\ i' = i + 1
  /\ UNCHANGED <<age, at, runner>>

(* fPrevSendTime is set, and SendMessage gives the lock up. *)
Send(r) ==
  /\ r # NULL /\ Active(r) /\ Due(r)
  /\ age' = [age EXCEPT ![r] = 0]
  /\ runner' = r
  /\ at' = "sending"
  /\ UNCHANGED <<sRunnerMinimumInterval, i>>

Scan ==
  /\ at = "scan" /\ i < Len(sRunnerList)
  /\ LET r == sRunnerList[i + 1] IN PassOver(r) \/ NotYet(r) \/ Send(r)
  /\ UNCHANGED <<setup, posts, sem, left, late, app>>

(* Seeded fault: only the mark is looked at. *)
MarkedChanged == sRunnerMinimumInterval < 0

(* The list or a runner changed while the lock was given up.  ItemAt is    *)
(* NULL behind the end of the list.                                        *)
Changed ==
  \/ i >= Len(sRunnerList)
  \/ sRunnerList[i + 1] # runner
  \/ sRunnerMinimumInterval < 0

CountAfter(sent) ==
  IF sent /\ fCount[runner] > 0 THEN fCount[runner] - 1 ELSE fCount[runner]

(* Seeded fault: only the runners that were not due count. *)
NextOfOthers(sent) == sRunnerMinimumInterval

(* What the entry just sent for adds to the minimum. *)
NextOf(sent) ==
  IF Sends(CountAfter(sent), fInterval[runner], aimed[runner])
  THEN Lowered(fInterval[runner]) ELSE sRunnerMinimumInterval

(* SendMessage came back, with the message in the target's queue or not.   *)
(* After a change the loop starts again, behind the first entry.           *)
SendReturns(sent) ==
  /\ at = "sending"
  /\ at' = "scan"
  /\ runner' = NULL
  /\ IF Changed
     THEN /\ i' = 1
          /\ UNCHANGED <<fCount, sRunnerMinimumInterval>>
     ELSE /\ i' = i + 1
          /\ fCount' = [fCount EXCEPT ![runner] = CountAfter(sent)]
          /\ sRunnerMinimumInterval' = NextOf(sent)
  /\ UNCHANGED <<live, fToken, fInterval, aimed, sRunnerList, age, posts, sem, left, late, app>>

EndScan ==
  /\ at = "scan" /\ i >= Len(sRunnerList)
  /\ at' = "served" /\ i' = 0
  /\ UNCHANGED <<setup, age, sRunnerMinimumInterval, posts, sem, runner, left, late, app>>

(* The ages after a time t has passed. *)
Older(t) == [r \in Runners |-> IF age[r] < 0 THEN age[r] ELSE Capped(age[r] + t)]

(* The queues held a message: it is dispatched, and the loop starts again. *)
Dispatch ==
  /\ at = "served"
  /\ at' = "loop" /\ late' = 0
  /\ age' = Older(late)
  /\ UNCHANGED <<setup, sRunnerMinimumInterval, posts, sem, i, runner, left, app>>

(* The queues were empty.  The wait is as long as the minimum and at least *)
(* one step, or without end.                                               *)
BeginWait ==
  /\ at = "served"
  /\ at' = "waiting"
  /\ age' = Older(late)
  /\ left' = IF sRunnerMinimumInterval = 0 THEN Forever
             ELSE IF sRunnerMinimumInterval > 1 THEN sRunnerMinimumInterval ELSE 1
  /\ UNCHANGED <<setup, sRunnerMinimumInterval, posts, sem, i, runner, late, app>>

Woken ==
  /\ at = "waiting" /\ sem > 0
  /\ sem' = sem - 1
  /\ at' = "loop" /\ left' = 0 /\ late' = 0
  /\ UNCHANGED <<setup, age, sRunnerMinimumInterval, posts, i, runner, app>>

TimedOut ==
  /\ at = "waiting" /\ left = 0
  /\ at' = "loop" /\ late' = 0
  /\ UNCHANGED <<setup, age, sRunnerMinimumInterval, posts, sem, i, runner, left, app>>

(* Time passes in waits and while messages are dispatched. *)
Tick ==
  /\ at = "loop" \/ (at = "waiting" /\ left > 0)
  /\ age' = Older(1)
  /\ left' = IF at = "waiting" /\ left < Forever THEN left - 1 ELSE left
  /\ UNCHANGED <<setup, sRunnerMinimumInterval, posts, sem, at, i, runner, late, app>>

(* Time passes while SendMessage waits, 50 ms and until it has the locks   *)
(* again, and before the wait, while the loop goes through the queues.     *)
TickLate ==
  /\ at \in {"sending", "served"} /\ late < MaxLate
  /\ late' = late + 1
  /\ UNCHANGED <<setup, age, sRunnerMinimumInterval, posts, sem, at, i, runner, left, app>>

Change ==
  \E r \in Runners :
    \/ \E n \in Intervals, c \in Counts, a \in BOOLEAN : Create(r, n, c, a)
    \/ Delete(r)
    \/ \E a \in BOOLEAN : SetAim(r, a)
    \/ \E n \in Intervals : SetInterval(r, n)
    \/ \E c \in Counts : SetCount(r, c)
    \/ SetReplyTo(r)

Serve ==
  \/ BeginScan \/ Scan \/ EndScan
  \/ \E sent \in BOOLEAN : SendReturns(sent)
  \/ Dispatch \/ BeginWait \/ Woken \/ TimedOut

Next == Change \/ InitApp \/ Post \/ Serve \/ Tick \/ TickLate

Spec == Init /\ [][Next]_vars

-----------------------------------------------------------------------------
(* Properties *)

(* Type invariant; the destructor's "Unable to remove runner" can not      *)
(* happen: every runner lies at its token, and nothing else is listed.     *)
TypeOK ==
  /\ live \subseteq Runners
  /\ fInterval \in [Runners -> Intervals]
  /\ fCount \in [Runners -> Int]
  /\ aimed \in [Runners -> BOOLEAN]
  /\ \A r \in Runners : age[r] \in -1 .. Forever
  /\ sRunnerMinimumInterval \in -1 .. Forever
  /\ posts + sem <= MaxPosts
  /\ at \in {"loop", "scan", "sending", "served", "waiting"}
  /\ runner \in Runners \cup {NULL}
  /\ left \in 0 .. Forever /\ late \in 0 .. MaxLate
  /\ be_app \in BOOLEAN /\ unheard \in BOOLEAN
  /\ Range(sRunnerList) \ {NULL} = live
  /\ \A r \in live : fToken[r] + 1 \in DOMAIN sRunnerList
                     /\ sRunnerList[fToken[r] + 1] = r

(* A runner that another thread deletes while the application sends for it *)
(* is not touched any more when the send comes back.                       *)
DeletedIsLeftAlone ==
  /\ TypeOK
  /\ at = "sending" /\ ~Changed => runner \in live

(* When the application sleeps and no wakeup is under way, it sleeps past  *)
(* the time of an active runner by no more than what passed between the    *)
(* scan's reading of the clock and the wait, and never without end beside  *)
(* an active runner.  A runner made active before there was an application *)
(* is served only once a later change has marked the minimum.              *)
WakesInTime ==
  at = "waiting" /\ posts = 0 /\ sem = 0 /\ ~unheard =>
    \A r \in Runners :
      Active(r) => LET gone == IF age[r] < 0 THEN 0 ELSE age[r]
                   IN  /\ left < Forever
                       /\ left <= 1 \/ left <= fInterval[r] - gone + late

=============================================================================
