# A TLA+ verification project for BHAPI

BHAPI is a C++ toolkit with the programming interface of BeOS, grown from ETK++.
This directory holds TLA+ models of its core, the TLC configurations that check
them on small instances, and proofs that TLAPS checks for every instance. Paths
are relative to the directory that holds `src/`; the toolkit's own code is under
`src/src/`.

    tlc -workers 2 -config MCPort.cfg MCPort      # one run
    tlapm PortProofs.tla                          # one module's proofs

## 1. Inventory

### The kernel wrappers (`src/src/wrappers`)

Everything that blocks in the toolkit blocks in one of these. They are plain
functions on `void*` handles, declared in `src/src/os/kernel.h`; objects are
shared by reference counts, and every object can be *closed*, which makes its
waiters fail.

| component | state | operations | what makes it correct |
|---|---|---|---|
| locker (`posix/BHAPI_wrapper_locker.cpp`) | `holderThreadId`, `lockCount`, `closed`, `refCount`; two mutexes (`iLocker` for the fields, `Locker` for the lock) and a condition variable | create, clone, delete, close, lock (with a timeout), unlock, count | one owner, recorded alike in three places; nobody sleeps beside a free lock; nobody gets a closed one; close and deadlines end every wait |
| semaphore (`posix/BHAPI_wrapper_semaphore.cpp`) | `count`, `acquiringCount`, `closed`, `no_clone`, `refCount`; a mutex and a condition variable (local), or two `sem_t` and `minAcquiringCount` (named) | create, clone, delete, close, acquire n (with a timeout), release n (with flags), count, info | units are conserved and taken all or none; the sum of waiting requests is exact; a release wakes whom it suffices for |
| port (`BHAPI_wrapper_port.cpp`) | an array of messages, `queue_count`, `closed`, two wait counts, two semaphores, a lock | create, open, delete, close, write, read, peek at a size (each with a timeout), count | bounded FIFO; a token for every waiter whose condition holds; close drains and then fails |
| thread (`posix/BHAPI_wrapper_thread.cpp`) | a global list of threads; per thread `running`, `exited`, `status`, exit callbacks | create, open, resume, suspend, wait, exit, on_exit, priority | a thread runs once, after it was resumed; waiters get its status; callbacks run once |
| area (`posix/BHAPI_wrapper_area.cpp`) | named shared memory | create, clone, resize, protect, delete | a name is unlinked once, by the one who may |
| simple locker (in the locker's file) | a bare mutex | create, delete, lock, unlock | nothing beyond the mutex |

### The application kit (`src/src/kits/app`)

| component | state | operations | what makes it correct |
|---|---|---|---|
| looper | a message queue, a ring of handlers, a tree of client loopers behind a proxy, a thread and a locker | Run, Quit, PostMessage, AddHandler, RemoveHandler, ProxyBy, the message loop | every message posted to a running looper is dispatched once and in order; Quit ends the loop; rings and counts agree |
| message queue | a linked list and a locker | add, remove, next, find | order and count |
| handler, observers | the chain of next handlers, lists of watchers | SetNextHandler, StartWatching, SendNotices | a watcher hears of exactly what it asked for |
| messenger, tokens | a target by token and port | SendMessage with or without a reply | the right target or an error |
| runner, invoker, application, clipboard, message, filter | built on the above | | |

### How they interact

A port is built from a locker (a semaphore of one unit in a named port) and two
semaphores; a named semaphore or port lives in an area. A looper keeps its queue
behind a locker, is woken through a semaphore and runs in a thread; a messenger
finds it by a token, and a synchronous call waits at a named port that it creates.
So the order is bottom up: what a module assumes of the one below is what that one is shown to
implement (`CountingSemaphore`, `RecursiveLock`, `BoundedFifo`).

### What is hard

- Interleavings: waiters of several kinds on one condition variable; tokens that
  outlive the waiter they were meant for; a close between a wakeup and the moment
  the woken thread gets the mutex.
- Time: a deadline that passes at the same time as the release or the close.
- Failing waits: both `lock_locker_etc` (line 267) and `acquire_sem_etc`
  (line 753) leave their mutex locked when `pthread_cond_wait` fails with anything
  but a timeout.
- Boundaries: counters are checked before they are changed.
- Sharing: references are cloned and dropped by several threads while others wait.

- Moving targets (application kit): a lock, a semaphore, a token or a list entry is
  looked up under one lock and used after it was given up, while loopers change
  their proxy, handlers and runners are deleted and their numbers used again.
- Chains: a named semaphore has no broadcast, so each waiter has to pass the wakeup
  on; the caller of a synchronous call is freed by the deletion of the last message
  that can answer it.

`PROJECT.json` lists the hazards at their lines with the properties aimed at them.

### Left aside

The Win32 and BeOS twins of the wrappers (same interface over another system's
objects), the interface, render, storage, media, network, tracker, package and
debugger kits (drawing, files and I/O, much of it copied), the copied kernel
sources and driver headers, and the vendored libraries. `PROJECT.json` lists them
all as components.

## 2. What is modelled

One action is one section of code under the object's internal lock: a whole call,
or the part of a call between two waits. A thread's place between sections is in
`pc` (`procPc`, `userPc`, `lookupPc`, `taskPc` in areas, tokens and loopers). Null handles are left out; messages, thread identities and times are
abstract. A timeout is one of four kinds that the code tells apart: negative
(refused), equal to the current time (do not wait), a deadline, and for ever.
`Statuses` are the codes the calls return.

`Handles.tla` is what locker, semaphore, port and thread share: which thread owns which reference.
The code keeps only the number; the table states the discipline of its clients,
that a thread makes a call only with a reference it owns and does not delete it
inside the call. What is proved of these four rests on that discipline.

### Locker (`Locker.tla`)

`mutex` is the owner of the pthread mutex `Locker`, `holder` and `lockCount` the
two fields; `iLocker` names a thread that left the internal mutex locked (the
failed wait). `create_locker`, `clone_locker`, `delete_locker`, `close_locker`,
`lock_locker_etc` (up to its first wait), `LockAgain`, `LockTimedOut`,
`LockWaitFailed` (the loop after a wait), `unlock_locker`; `Expire` and
`SpuriousWakeup` are the environment. `RecursiveLock.tla` is the abstract lock:
an owner, a depth, and a shut flag after which nobody new gets it.

### Semaphore (`Semaphore.tla`)

The local semaphore, with requests of any size on one condition variable.
`unannounced` is a history variable: units were released with
`B_DO_NOT_RESCHEDULE` and nothing has been broadcast since. `iMutex` names a
thread that hangs on the mutex it already holds (the failed wait).
`CountingSemaphore.tla` is the abstract one.

### Port (`Port.tla`)

The local port, over two abstract counting semaphores. `readerSem` holds the
tokens that *writers* wait for and `writerSem` those *readers* wait for, as in the
code. A call in the waiting loop is `waiting` (in `acquire_sem`), has a `token`,
or is `expired`; `WriterAgain`, `ReaderAgain` and `GiveUp` are the loop body after
each. The shift of the queue is the `memmove` on an array of slots, so that the
FIFO property is about it. `BoundedFifo.tla` is the abstract queue. A named port
has the same loops under another lock; its life cycle is not modelled. The
semaphores' own limit is left out: reaching it takes 2^63 tokens.

### Named semaphore (`SemaphoreIPC.tla`)

The variant on two process-shared `sem_t`, with the same `acquire_sem_etc` and
`release_sem_etc` but another way to wait. `remoteSem` is the value of the one that
waiters sleep on; the other is the lock of a section. A release posts once
(`PostIfWaiting`); whoever leaves the loop, served or not, posts for the next one
(`PassOn`), so posts are left over; a waiter woken in vain goes back to sleep and
passes its post on, unless `minAcquiringCount` says that there is too little for
everybody (`SleepOn`). It is shown to implement the same `CountingSemaphore`. Names, clones and
deletes go through an area and are left out.

### Area (`Area.tla`)

Processes that use one name. `name` leads to a segment of shared memory; a segment
lives on without its name. The file takes no lock, so an action is one system call:
`create_area`, `UnlinkTaken` and `CreateAgain` are the two tries of the code,
`SizeAndMap` its `ftruncate` and `mmap`, `clone_area` and `MapClone` the two halves of
a clone, `b_resize_area` and `Resize` those of a resize, which opens the segment again
by its name. `Die` ends a process anywhere in between and leaves the name behind.
`takenOver` is history: a name was unlinked that a living creator had.

### Thread (`Thread.tla`)

One thread and its clients. `child` is where the new thread is in
`b_spawn_thread_func`, from its bare wait for the start to the last exit callback; a
client's `pc` is where it is in create, resume, wait or delete. `AddThread` is the
part of `create_thread` that runs after `pthread_create` and writes `running` and
`exited` without the thread's locker. `Knock` is one turn of the loops that broadcast
until the thread is under way. `startled` records that the bare wait returned
unprompted. A wait that finds the thread exited at its first look goes to
`joiningGone`, the only way to return without writing the caller's status.

### Tokens (`Tokens.tla`)

The depot of tokens (`Token.cpp`), what `PrivateHandler.cpp` reads through it, and
the constructors, copies and destructor of `BMessenger`. `slots` is the list of
records with their `vitalities`; a queued message carries only the number and the time
stamp of its target, so its record may belong to another handler by the time it is
read. `birth`, `meant` and `reached` are history: which handler a messenger or message
was made for, and which it came to.

### Looper (`Proxies.tla`, `Looper.tla`, `LooperLock.tla`)

`Proxies` is what the two others share: `fProxy` and `_Proxy()`, the walk along it. What the walk meets is the least set that has the looper
and, with a looper, its proxy, so that a walk needs no recursion.

`Looper` has the trees of proxies (`fClients`, the inverse of `fProxy`), a queue per looper, one
semaphore per tree and the thread of its root: `TaskLooper` takes messages from the
queues of its tree in turn (`cur`), dispatches, and sleeps when a whole round found
nothing. While a message is dispatched its handler may post, quit, and move or
delete loopers of its own tree. `ProxyBy` moves a looper and those under it to
another tree and brings tokens for their messages (`MoveTokens`). `_ProxyBy` gives up
the handlers' lock before each looper gets its new semaphore (lines 1062, 1087:
`BMessageQueue::Lock` lets go of it while it waits). A post or a step of a round in that gap
is the same as one before or after, so a move is one action; `Run()` is not, since a
looper that leaves has no proxy by then and no semaphore of its own yet. `ProxyByNoneRun`,
and the set `S` of `Delete`, are the moves with `Run()` in the gap. `hears` is the
semaphore that a thread has cloned, `strays` the tokens on semaphores that no looper
has any more (pooled: a thread that waits for one of these may be woken by a token of
another, which only adds behaviours).

`LooperLock` has the lockers that `Looper` takes for granted: `Lock` looks the locker up
under the handlers' lock, `Acquire` waits for it without, and `Finish` compares the
roots. Here the gap of `_ProxyBy` is between actions: `BeginMove`
(of `ProxyLockersBy` and `ProxyLockersByNone`) sets the proxy, then each looper that
moves gets its new locker and the caller's nested locks in an `Exchange` of its own,
proxies before clients; the last one unlocks or closes the old locker. A lookup of a
looper that has its new root and still the old locker is `torn`; `breached` is history:
a torn lookup passed the comparison of roots. Callers unlock only what they have
locked, and call `ProxyBy` with both loopers locked. Nothing is deleted in this module.

### Message runner (`Runner.tla`)

`BMessageRunner` and the two places of the application that serve it:
`dispatch_message_runners` (`BeginScan`, `Scan`, `SendReturns`, `EndScan`) and the wait
of `NextLooperMessage` (`BeginWait`, `Woken`, `TimedOut`). The handlers' lock is given
up inside `SendMessage` (`at = "sending"`) and inside the `PostMessage` of a setter
(`posts`), so runners are made, changed and deleted there. `Tick` moves the clock by
50 ms, the shortest wait, and `TickLate` moves it while the scan sends and before the
wait: the scan has read the clock once, so ages stay those of that reading and `late`
is what has passed since. `InitApp` sets `be_app`; runners made or changed before it are
neither marked nor announced, which `unheard` records.

### Synchronous calls (`Reply.tla`)

`BMessenger::SendMessage` with a reply, `BMessage`'s copy constructor, assignment and
destructor as far as they touch the reply port, and `SendReply`. Each call makes a
port, all of them under the name "port" (Messenger.cpp:337), so that they are named
ports: `name` is the port it leads to, `source` the one a message has open, `stem` the
call a message stems from. Making a port takes the name from whoever has it, copying a
message opens whatever has the name, and the caller's deletion unlinks the name
(`Rename`, `UnlinkArea`, `UnlinkSems`: the area and the semaphores go one by one). Only
the caller's own message and the queued one close their port (`fNoticeSource`). The port
itself is a queue of one message, as in `BoundedFifo`. `robbed` (a call lost the name
before it posted) and `overlap` (a call began while messages of another lived) are
history.

## 3. Runs

| run | configuration | what it shows |
|---|---|---|
| `locker` | 2 threads, 3 references, nesting to 2, failing waits | ownership agrees in its three records (`OwnerConsistent`), nobody sleeps beside a free or closed lock (`NoLostWakeup`), the object is freed with the last reference (`RefsAccounted`), refinement of `RecursiveLock`, which never gets a new owner once shut; a close and a deadline end every wait (`WaitsEnd`) |
| `semaphore` | 2 threads, amounts -1 to 2, limit 3, failing waits, silent releases | no lost wakeup, exact `acquiringCount`, refinement of `CountingSemaphore` (units are taken all or none), `WaitsEnd` |
| `semaphore_release_all` | 2 threads | a *violation*: see the finding below |
| `port` | 2 threads, 2 messages, capacity 2 | no waiter is without a token while its condition holds (`NoStrandedWaiter`); refinement of `BoundedFifo`; no waiter stays beside a message, room or a closed port (`WaitersAreServed`); a timed call outlasts its deadline only while messages keep passing |
| `thread` | 2 clients, 2 references, 2 callbacks, 1 suspension, spurious wakeups, failing allocations | the record is not used after it was freed and an abandoned thread does not run (`NoUseAfterFree`); callbacks run once, newest first, with the reference there (`CallbacksRun`); the state reported is the state (`StateReported`); a wait delivers the thread's status, and only for a thread that had exited before the call may it deliver nothing (`WaitReportsExit`); the loops of broadcasts and the waits end |
| `sem_ipc` | 3 threads that ask for two units, grants of -1 to 2 | exact `acquiringCount`; a post or a woken thread is on its way whenever a sleeper could go (`PostOnItsWay`); refinement of `CountingSemaphore`; the chain of posts reaches everybody (`ChainReachesWaiters`) |
| `area` | 3 processes, 4 segments, sizes 1 and 2 | one creator per segment, nobody has mapped one without a size (`SegmentsAreSound`); unless a living creator's name was taken, every creator has its name and the size it mapped (`NamesStayWithCreators`) |
| `tokens` | a looper, a handler, 2 messengers, a message, 4 creations | references are exact (`ReferencesCounted`); messengers and messages come to the handler they were made for or to none (`TargetsAreTheRightOnes`) |
| `looper` | 3 loopers, 2 with threads, 2 posts, 2 moves | proxies form trees and a round stays in its tree (`RoundStaysInTree`); no message lies in a tree whose thread sleeps without a token (`LoopWakeupNotLost`); queues are served and quits end (`QueuesAreServed`); both except the trees that `Run()` in the gap of `ProxyBy(NULL)` has left with another's semaphore (`OwnEars`) |
| `looper_lock` | 2 threads, 3 loopers, 6 lockers | one thread has a looper, and the lock's depth is what was locked, across `ProxyBy` (`LocksFollowLoopers`); nobody sleeps on a lock left behind (`NobodyWaitsForAbandoned`); both until a torn lookup has passed (`breached`) |
| `runner` | 3 runners, intervals 0 to 2, counts -1 to 1, 1 wakeup under way, 1 step of delay | a runner deleted during a send is not touched (`DeletedIsLeftAlone`); the application sleeps past the next due time by no more than the delay since the scan read the clock, and never without end (`WakesInTime`) |
| `reply` | 2 calls, one with a timeout, and a copy | somebody is left who answers or closes the port, unless the call was robbed of its name (`CallerIsNotForgotten`); an accepted reply arrives, and without overlap it is the call's own (`AcceptedReplyArrives`); callers and repliers return (`CallsReturn`) |

Bounds. For locker, semaphore and port two threads are a waiter and somebody who
serves or beats it. That the bounds hide nothing of the invariants, the properties of
steps and the refinements is what the proofs show, which hold for any number; for
liveness the bounds are all there is. The chain of posts needs a third thread. Counter limits (2 to
4 instead of 2^63) are low so that overflow happens. Two slots and two messages make
the shift of the array visible. In the port, `MaxTokens` bounds left-over tokens: it
holds back new calls only, never a call in the loop, so that it cannot hide a
progress failure. Three loopers are the fewest where a looper that has a client
moves; three processes, where two create while a third has the old segment. Two calls are a
call and one that takes its name. `MCLooperLock.cfg` has the constraint `Unbreached`:
states after a breach are not explored further, where both properties hold by their
exception. `MaxLate` of one step is one send that waits; the proof has no such bound. The
numbers of posts, moves, segments, creations and suspensions bound the length of a
behaviour. Deadlock checking is off where objects are freed or such a number is used
up; the wakeup invariants and the liveness properties say what it would.

Symmetry is used only in runs without liveness (`area`, `tokens`, `looper_lock`,
`runner`), over processes, segments, messengers, threads, loopers or runners that
nothing tells apart.

Fairness. Weak fairness for a thread that was woken: the internal mutexes are held
for a bounded time, and the scheduler lets a runnable thread run. Strong fairness
for the deadline of a locker's, semaphore's or thread's wait: it is absolute, so
however often the thread is woken in vain, a wait after that time ends with
ETIMEDOUT. For the port it is weak only: each wait is a new call of
`acquire_sem_etc`, which takes a unit it finds without a look at the clock. A post of
a `sem_t` goes to some sleeper, not to a particular one. A looper's thread runs and
its handlers return; a reply's run assumes that whoever has a message deletes it in
the end. Where `pthread_cond_wait` may fail, the progress properties except the
threads that meet the mutex left locked, as section 1 says.

Each property has a seeded fault in the module (definitions commented "Seeded
fault") under which TLC finds it violated.

### Finding

`src/src/os/kernel.h:113` documents `B_RELEASE_ALL` as "all waiting threads will
be woken up, count will be zeroed". `release_sem_etc` compares its flags with
`B_DO_NOT_RESCHEDULE` only and treats any other value as a plain release, so the
count grows. `B_RELEASE_IF_WAITING_ONLY` is ignored likewise.

### What else the modelling showed

Behaviour that the models include or that their properties except, where the
repository says little about what is intended:

- Named semaphore: with requests of different sizes `PostOnItsWay` fails.
  `minAcquiringCount` forgets the smaller of two requests, the post is swallowed by a
  waiter it does not suffice for, and the smaller sleeps beside enough units.
- Thread: a spurious wakeup at the bare wait of line 247 starts the thread before
  `create_thread` writes `running = 0` (line 417); it is then reported as ready for
  good and `resume_thread` refuses it, which `src/tests/thread-suspend-test.cpp:70-73`
  takes for a failure.
- Area: `create_area` takes the name from a creator that is alive (lines 124-130). From
  then on that creator's delete, resize or failing create hits the newer segment, since
  all go by the name. `NamesStayWithCreators` fails without its exception.
- Looper's lockers: `_ProxyBy` gives up the handlers' lock after it has set `fProxy` and
  before it exchanges `fLocker` (Looper.cpp:1062). With `l` a client of `r`, thread `t` holds `l`
  and calls `l->ProxyBy(NULL)`; in the gap `u` looks `l` up and finds the new root `l` and
  the old locker; `t` goes on, takes its new locker and unlocks the old one; `u` gets the
  old one, the comparison at PrivateHandler.cpp:137 passes, and both have `l`. The comment
  before `ProxyBy` (1002-1016) calls the sequence that begins so a "thread safe method".
  `LocksFollowLoopers` fails without its exception, in such a trace. `ProxyBy(p)` is safe: a
  looper without a proxy has its old locker closed (1107).
- Looper: in the same gap `Run()` (457) finds no proxy and starts a thread, which clones
  the former tree's semaphore (583) and then sleeps there beside its own messages, and
  uses up tokens of the former tree. (A clone between `delete_sem` and the assignment of
  lines 1063 and 1064 would read a dangling handle; `fSem` is not guarded against it. Nor
  is a looper guarded that is run while `~BLooper` takes it from its proxy. Both are left out.)
- Looper: `IsLockedByCurrentThread` (Looper.cpp:313) asks whether anybody has locked,
  so a stray `Unlock` passes and lowers the holder's count. `quit_all_loopers`
  (Application.cpp:464-526) has no way out of its loop while only loopers that
  depend on others when they quit remain.
- Handlers: `AddHandler` (Looper.cpp:185) and `SetNextHandler` (Handler.cpp:411) leave
  handlers out of the ring; the first `StartWatching` of an observer (Handler.cpp:216)
  does not record what it watches.
- Runner: a change of any runner during a send (Application.cpp:265) starts the scan
  again without counting the message, so a finite runner may send one more. The scan
  reads the clock once (252) and a send may wait 50 ms (263), so the wait that follows may
  end that much too late for the runners not yet due. A runner made active before there
  is an application (MessageRunner.cpp:74) is not served until another change.
- Synchronous calls: the reply port of every call has the same name (Messenger.cpp:337).
  A call that creates its port after another has created and before that one's
  `_PostMessage` has copied the message takes the name; the first call's queued message
  then opens the second's port, or none, and the first caller waits for ever. A copy made
  later opens the port of the latest call, and answers that one. `CallerIsNotForgotten`
  and `AcceptedReplyArrives` fail without their exceptions.
- Reply: `SendReply` (Message.cpp:2157) prepares a copy of the reply and sends the
  original.

## 4. Proofs

| module | theorems | argument |
|---|---|---|
| `HandlesProofs` | lemmas on tables of references | cardinality of the owned references |
| `LockerProofs` (locker) | `LockerTypeOK`, `OwnerIsConsistent`, `WakeupsAreNotLost`, `RefsAreAccounted`, `ClosedForGood`, `Refinement` | `IInv` adds to the type the equality of `holder` and `mutex` and the equivalence of a zero count with a free mutex; without it the recursive path could raise the depth of another thread's lock |
| `LockerProofs` (`LooperLock`) | `LooperLocksFollow`, `LooperNobodyAbandoned` | see below |
| `LockerProofs` (`Looper`) | `LooperRoundInTree`, `LooperNoLostWakeup` | see below |
| `SemaphoreProofs` | `SemaphoreTypeOK`, `SemaphoreWakeups`, `AcquiringIsExact`, `SemaphoreRefs`, `SemaphoreRefinement` | `acquiringCount` never goes below zero only because it is the sum of the waiting requests, stated as the cardinality of the set `Pending` of (thread, unit) pairs |
| `PortProofs` | `PortTypeOK`, `WaitersAreCounted`, `NobodyIsStranded`, `PortRefs`, `PortRefinement` | `NoStrandedWaiter` is inductive only with `WaitCountsExact`: a write releases `readerWaitCount` tokens, which must be at least the readers still in `acquire_sem`. A waiter starts only while its condition fails, so none is owed a token then; taking one lowers both sides by one |
| `SemaphoreIPCProofs` | `NamedAcquiringIsExact`, `CloseIsPassedOn`, `PostsArePassedOn`, `NamedSemaphoreRefinement` | see below |
| `SemaphoreIPCProofs` (`Area`) | `AreaSegmentsSound`, `AreaNamesStay` | see below |
| `ThreadProofs` | `ObjectOutlivesUse`, `ExitCallbacksRun`, `RunStateIsTrue`, `WaitsReportTheExit` | see below |
| `ReplyProofs` | `CallerHasHope`, `AcceptedReplyIsSeen` | see below |
| `ReplyProofs` (`Tokens`) | `TokensCounted`, `TokensTargets` | see below |
| `RunnerProofs` | `DeletedRunnerIsLeftAlone`, `RunnersAreServedInTime` | see below |

The theorems hold for any finite set of references, any number of threads (finite
for the semaphores, the port and the loopers' locks), any amounts, capacity, messages,
limits, callbacks, runners and intervals, any number of processes and segments, and
any finite number of handlers, messengers and queued messages, and of loopers in trees
of any shape. The only assumptions are those on the constants (`HandlesAssumption`, and
one named after each module), all evaluated by TLC too. The proofs about
`Area`, `Tokens`, `LooperLock` and `Looper` are in the module of a component they are
built on or work with, which extends both; that is why their specifications have names
of their own (`AreaSpec`, `TokensSpec`, `LooperLockSpec`, `LooperSpec`).

`CloseIsFinal`, `WaitCountsExact` and the `RefsAccounted` of semaphore, port and thread
are stated for the proofs and proved outright; no run repeats them. All inductive
invariants but those of locker, semaphore and port were checked by TLC on instances
like those of section 3 before they were proved.

Named semaphore. `close_sem` and `release_sem_etc` post only if `acquiringCount` is
positive, so a sleeper is told only because it is counted: the wakeups need
`acquiringCount = Cardinality(Pending)`, and that each call inside asks for at least one
unit. A post that is taken makes somebody awake, and whoever is awake posts before it
sleeps or leaves: hence `Stirring`. For a close that holds whatever the requests are
(`CloseOnItsWay`). For units it takes the hypothesis `OneSize` of `PostsArePassedOn`,
that no two positive requests differ; it is not a convenience, since without it the
property fails (section 3). Until the semaphore is created its fields are those of
`Fresh`, so that creation is the abstract one's initial state.

Thread. Where the thread is (`child`) determines how many references it owns to itself
(`OwnReferences`), where its callbacks are (`CallbacksInCourse`: in the object before the
exit, then with the thread, the newest first and the drop of its references behind
them) and what `running` and `exited` say (`FieldsFollow`, with the exception of a thread
that started unprompted). The object is listed exactly while somebody refers to it
(`RefsAccounted`), and made and ended by one client at a time (`OneBuilder`). Then
nobody inside a call can meet a freed object. Whoever joins has seen `exited`
(`JoinersKnow`), and whoever does so from `joining` has the status, which is what
`WaitReportsExit`, a property of steps, needs.

Reply. A call that has made its port and not posted has the name, or is `robbed`
(`NamedUntilPosted`); so the message it queues opens the call's own port, and that
message closes it when it goes, however the name moves afterwards. Before a call begins
nothing leads to its port (`NothingYet`), a message that is being replied to refers to a
port (`RepliesAreHeld`), and a reply accepted while the caller waits is in the port when
it looks (`AcceptedIsQueued`). Without overlap everything that lives stems from the one
call under way (`OneByOne`), and so does the reply.

Runner. `Listed` says that each runner lies at its token and only there, over lists with
holes, truncation and reuse of slots; with `runner # NULL` during a send it gives
`DeletedIsLeftAlone`. `WakesInTime` needs to know what the scan has established half-way
(`ScanCovers`): unless it is marked, `sRunnerMinimumInterval` is positive and no longer
than the time left for every active runner before index `i`, and the entry at `i`
that is being sent for is, if active, still the one that was sent for. From this it
follows that the scan may start again behind the first entry, without resetting the
minimum, as the code does. A change that makes a runner active marks the minimum and has
a wakeup on its way. During the scan and up to the wait the invariant is about the
ages at the scan's reading of the clock; when the wait begins they grow by `late`, which
is what the wait may be too long by. That `Forever`
exists and that the first free slot does are `GreatestNatural` and `LeastNatural`, from the
well-foundedness of the naturals.

Area. Whatever a process has open or mapped has been created (`SegmentsAreUsed`), and a
new segment is one that never was, so no two processes create the same one and the one
that sizes it is its creator (`OneCreator`). A mapping is made only after a size was
found, and a segment that has a size never loses it (`MappedHaveSize`). For
`NamesStayWithCreators`, an original's segment is the name's until somebody else unlinks
it, which is a take-over, and a resize that is half-way has then opened the segment of
its own area (`ResizesOwn`). A process that dies takes only what was its own.

Tokens. `TokensInv` names who refers to a record: the handler it was made for, each
messenger that holds it, each constructor and each delivery that is half-way. A reference
count is the cardinality of these sets, and a step adds or removes one element of one of
them. The list of records is trimmed at its end while free ones lie in the middle, so
the argument is about positions: a record in use stays where it is, and a number is used
again only at a position nobody refers to. For a queued message, which holds no
reference, it is the time stamp: a handler made later at the same number has a later one
(`LetterAims`).

Looper's lockers. `LockInv` is inductive until a torn lookup has passed. It says that two
loopers that no move has still to reach have the same locker if and only if they have
the same root (`SettledShareLockers`); those still to be moved have the old locker, which
the mover holds, so that nobody else moves in their tree (`MovesAreSound`). A lookup gives
up the handlers' lock before it waits, so what it knows may be stale; but if it was not
torn and its locker is neither closed nor about to be, the root it compares with is
still the root of that locker's loopers (`CallsAreCurrent`). The depth of a locker is the
number of locks on its loopers plus the lookups that have acquired it and not compared
yet (`LocksCounted`), all of them of its owner; an `Exchange` takes the locks of one looper
from one sum to the other.

Looper. A message brings a token to the semaphore of its tree, and a thread uses one up
whenever it wakes, which need not be the one of the message it then finds. So
`LoopWakeupNotLost` is inductive only with an account of what is owed (`TokensSuffice`): a
tree has a token for each message, but for one while its thread is between its wakeup
and the next message; and if that debt is open in the middle of a round, the loopers
that the round has passed over have tokens for all of their messages (what is there
came in behind it). At the end of the round every looper has been passed over and the
debt is gone. This takes that a round passes over nobody unseen. The loopers still to
come (`Ahead`) are those under the current one and those behind it, or behind a looper
above it, in the order of `fClients`; `NextFacts` shows of `_GetNextClient` that who was
ahead of a looper is the next one or ahead of that. And it takes that the tree stays as
it is during a round: a step that moves or deletes loopers takes the lockers of their
trees, no two threads hold one (`LocksApart`), and a thread in a round holds its own. A
looper that leaves during its own dispatch takes the lock along, which is why
`AfterDispatch` has to look at the root again. When trees are cut or joined, tokens are
counted anew over the loopers that move (`CutStep`, `LoopJoin`). The account is of the
trees whose root's thread waits for their semaphore and no other thread does (`OwnEars`);
a looper without a thread has nobody elsewhere (`EarsAgree`), so only `Run()` in a gap
takes a tree out of it. That proxies form trees
is `Rooted`: every walk ends. With the walk as a least closed set, that it still ends
after a move follows without induction on its length.

Only model-checked is liveness (`WaitsEnd`, `WaitersAreServed`, `TimedCallReturns`,
`KnockingEnds`, `ChainReachesWaiters`, `QueuesAreServed`, `CallsReturn`), which is out of
the prover's reach. That a port's semaphores behave as `CountingSemaphore` is
`SemaphoreRefinement` for safety; that a waiter with a token available gets it is the
fairness assumed of `TakeToken`, which `SemaphoreWakeups` justifies.

## 5. Not modelled

- The ring of handlers and the observer lists: one thread at a time changes them, and
  what is interesting about them is in the list above.
- The life cycle of named semaphores and ports through their areas, but for the name
  that synchronous calls share (there the area and the three semaphores of a port are
  one object, which nobody can open once the first is unlinked); the parts of the
  thread that set priorities or wrap the current thread; condition variables of the
  thread that fail; signals that interrupt `sem_wait` in `lock_sem_inter`.
- The deletion of loopers in `LooperLock` (`close_locker` at Looper.cpp:131 and the first
  half of the comparison at PrivateHandler.cpp:137); `Looper` has it, with lockers taken
  for granted.
- `NextLooperMessage` called from a handler (a loop inside a loop), filters, the list
  of all loopers, `quit_all_loopers`, the clipboard, a synchronous call from a looper's
  own thread to itself.
- A message's typed fields and their flattening: data.
- Everything under "Left aside" in section 1.

## 6. Plan

1. `quit_all_loopers` with the loopers' list, and the nested loop of
   `NextLooperMessage`.
2. The life cycle of named semaphores and ports, composed from `Area` and
   `SemaphoreIPC`.
3. Handler ring and observers.
