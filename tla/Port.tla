---- MODULE Port ----
(***************************************************************************)
(* The message port (src/src/wrappers/BHAPI_wrapper_port.cpp), a bounded     *)
(* queue between threads built from a lock and two semaphores.               *)
(*                                                                           *)
(* A reader that finds the queue empty waits on writerSem, a writer that     *)
(* finds it full on readerSem.  A write releases one token of writerSem for  *)
(* every reader that waits, a read one of readerSem for every writer that    *)
(* waits, so tokens outlive the waiters they were meant for and a waiter     *)
(* that gets one has to look again.  The port lock (a locker, or a semaphore *)
(* of one unit in a named port) is held in every section between two calls   *)
(* of acquire_sem; one action is one such section.  The semaphores are       *)
(* abstract CountingSemaphores, which Semaphore implements.                  *)
(***************************************************************************)
EXTENDS Handles, Integers, Sequences

CONSTANTS
    Messages,       \* (code, contents) of a message
    NoMessage,      \* an empty slot
    Capacity,       \* queue_length
    MaxTokens,      \* bound: no read or write starts with more tokens about
    MaxRefCount     \* B_MAXUINT32

ASSUME PortAssumption ==
    /\ IsFiniteSet(Threads)
    /\ NoMessage \notin Messages
    /\ Capacity \in Nat \ {0}
    /\ MaxTokens \in Nat
    /\ MaxRefCount \in Nat \ {0}

Timeouts == {"negative", "now", "deadline", "forever"}

Statuses == {"none", "B_OK", "B_ERROR", "B_BAD_VALUE", "B_WOULD_BLOCK",
             "B_TIMED_OUT"}

VARIABLES
    phase,              \* "absent", "live" or "freed": the port itself
    slots,              \* queueBuffer, one message to a slot
    queue_count,
    closed,
    readerWaitCount,    \* readers inside the waiting loop
    writerWaitCount,    \* writers inside the waiting loop
    readerSem,          \* tokens that writers wait for
    writerSem,          \* tokens that readers wait for
    refCount,
    refOwner,           \* the table of client references
    pc,                 \* per thread: "idle", "waiting" in acquire_sem,
                        \* "token" (it got one) or "expired" (it did not)
    op,                 \* per thread: "read", "peek" or "write"
    msg,                \* per thread: the message it writes
    timeout,            \* per thread: the timeout of its call
    got,                \* the message that was read or seen last
    status              \* what the last completed call returned

queueVars == <<slots, queue_count, closed>>
waitVars == <<readerWaitCount, writerWaitCount, readerSem, writerSem>>
lifeVars == <<phase, refCount, refOwner>>
callVars == <<op, msg, timeout>>
vars == <<phase, slots, queue_count, closed, readerWaitCount, writerWaitCount,
          readerSem, writerSem, refCount, refOwner, pc, op, msg, timeout, got,
          status>>

\* The two semaphores, which the port never closes.  Their limit, B_MAXINT64
\* units, is out of reach.
ReaderSem == INSTANCE CountingSemaphore
               WITH units <- readerSem, shut <- FALSE, MaxUnits <- 0
WriterSem == INSTANCE CountingSemaphore
               WITH units <- writerSem, shut <- FALSE, MaxUnits <- 0

\* The calls inside a waiting loop: those of readers (and peekers), of writers.
Readers == {t \in Threads : pc[t] # "idle" /\ op[t] \in {"read", "peek"}}
Writers == {t \in Threads : pc[t] # "idle" /\ op[t] = "write"}

TypeOK ==
    /\ phase \in {"absent", "live", "freed"}
    /\ slots \in [1..Capacity -> Messages \cup {NoMessage}]
    /\ queue_count \in 0..Capacity
    /\ \A i \in 1..queue_count : slots[i] \in Messages
    /\ closed \in BOOLEAN
    /\ readerWaitCount \in Nat
    /\ writerWaitCount \in Nat
    /\ readerSem \in Nat
    /\ writerSem \in Nat
    /\ refCount \in 0..MaxRefCount
    /\ refOwner \in Tables
    /\ pc \in [Threads -> {"idle", "waiting", "token", "expired"}]
    /\ op \in [Threads -> {"read", "peek", "write"}]
    /\ msg \in [Threads -> Messages \cup {NoMessage}]
    /\ \A t \in Writers : msg[t] \in Messages
    /\ timeout \in [Threads -> Timeouts]
    /\ got \in Messages \cup {NoMessage}
    /\ status \in Statuses

Init ==
    /\ phase = "absent"
    /\ slots = [i \in 1..Capacity |-> NoMessage]
    /\ queue_count = 0
    /\ closed = FALSE
    /\ readerWaitCount = 0
    /\ writerWaitCount = 0
    /\ readerSem = 0
    /\ writerSem = 0
    /\ refCount = 0
    /\ refOwner = NoRefs
    /\ pc = [t \in Threads |-> "idle"]
    /\ op = [t \in Threads |-> "read"]
    /\ msg = [t \in Threads |-> NoMessage]
    /\ timeout = [t \in Threads |-> "forever"]
    /\ got = NoMessage
    /\ status = "none"

-----------------------------------------------------------------------------
(* Helpers *)

\* A thread starts a call with a reference of its own.
Calling(t) ==
    /\ phase = "live"
    /\ pc[t] = "idle"
    /\ Owns(refOwner, t)

Return(s) == status' = s

\* The bound on tokens.  It holds back new calls only, so that a call in the
\* waiting loop is never kept from going on.
Headroom == readerSem <= MaxTokens /\ writerSem <= MaxTokens

\* Seeded fault: one message more than queue_length.
LateHasRoom == queue_count <= Capacity
HasRoom == queue_count < Capacity

\* Seeded fault: one token too few.
ShortPush(m) ==
    /\ slots' = [slots EXCEPT ![queue_count + 1] = m]
    /\ queue_count' = queue_count + 1
    /\ WriterSem!Add(IF readerWaitCount > 0 THEN readerWaitCount - 1 ELSE 0)
    /\ UNCHANGED readerSem

\* Copy a message behind the last one, and release a token for every waiting
\* reader.
Push(m) ==
    /\ slots' = [slots EXCEPT ![queue_count + 1] = m]
    /\ queue_count' = queue_count + 1
    /\ WriterSem!Add(readerWaitCount)
    /\ UNCHANGED readerSem

\* Seeded fault: the memmove is one message short.
ShortShift ==
    /\ got' = slots[1]
    /\ slots' = [i \in 1..Capacity |->
                    IF i < queue_count - 1 THEN slots[i + 1] ELSE slots[i]]
    /\ queue_count' = queue_count - 1
    /\ ReaderSem!Add(writerWaitCount)
    /\ UNCHANGED writerSem

\* Seeded fault: no token for the writers.
SilentShift ==
    /\ got' = slots[1]
    /\ slots' = [i \in 1..Capacity |->
                    IF i < queue_count THEN slots[i + 1] ELSE slots[i]]
    /\ queue_count' = queue_count - 1
    /\ UNCHANGED <<readerSem, writerSem>>

\* Copy the first message out, move the others down one slot with a memmove of
\* queue_count - 1 messages, and release a token for every waiting writer.
Shift ==
    /\ got' = slots[1]
    /\ slots' = [i \in 1..Capacity |->
                    IF i < queue_count THEN slots[i + 1] ELSE slots[i]]
    /\ queue_count' = queue_count - 1
    /\ ReaderSem!Add(writerWaitCount)
    /\ UNCHANGED writerSem

\* read_port_etc takes the first message, port_buffer_size_etc looks at its
\* size and leaves it.
Fetch(o) ==
    IF o = "read"
      THEN Shift
      ELSE /\ got' = slots[1]
           /\ UNCHANGED <<slots, queue_count, readerSem, writerSem>>

-----------------------------------------------------------------------------
(* Life cycle *)

create_port_for_local(t) ==
    /\ phase = "absent"
    /\ phase' = "live"
    /\ refCount' = 1
    /\ refOwner' \in GivenTo(refOwner, t)
    /\ UNCHANGED <<queueVars, waitVars, callVars, pc, got, status>>

\* t opens the port once more for u; NULL is recorded as B_ERROR.
open_port_by_source(t, u) ==
    /\ Calling(t)
    /\ IF refCount >= MaxRefCount \/ refCount = 0 \/ closed
         THEN /\ Return("B_ERROR")
              /\ UNCHANGED <<refCount, refOwner>>
         ELSE /\ refCount' = refCount + 1
              /\ refOwner' \in GivenTo(refOwner, u)
              /\ Return("B_OK")
    /\ UNCHANGED <<phase, queueVars, waitVars, callVars, pc, got>>

LastRef(c) == c = 0

delete_port(t) ==
    /\ Calling(t)
    /\ refOwner' \in TakenFrom(refOwner, t)
    /\ refCount' = refCount - 1
    /\ phase' = IF LastRef(refCount') THEN "freed" ELSE "live"
    /\ Return("B_OK")
    /\ UNCHANGED <<queueVars, waitVars, callVars, pc, got>>

\* A token for every waiter of either kind.
WakeAll ==
    /\ ReaderSem!Add(writerWaitCount)
    /\ WriterSem!Add(readerWaitCount)

close_port(t) ==
    /\ Calling(t)
    /\ IF closed
         THEN Return("B_ERROR") /\ UNCHANGED <<closed, readerSem, writerSem>>
         ELSE Return("B_OK") /\ closed' = TRUE /\ WakeAll
    /\ UNCHANGED <<lifeVars, slots, queue_count, readerWaitCount,
                   writerWaitCount, callVars, pc, got>>

-----------------------------------------------------------------------------
(* The calls up to the first wait *)

\* Into the waiting loop.
StartWaiting(t, o, m, w) ==
    /\ w \in {"deadline", "forever"}
    /\ pc' = [pc EXCEPT ![t] = "waiting"]
    /\ op' = [op EXCEPT ![t] = o]
    /\ msg' = [msg EXCEPT ![t] = m]
    /\ timeout' = [timeout EXCEPT ![t] = w]
    /\ UNCHANGED <<slots, queue_count, readerSem, writerSem, got, status>>

\* A call that returns at once and leaves the queue alone.
Refused(s) ==
    /\ Return(s)
    /\ UNCHANGED <<slots, queue_count, waitVars, callVars, pc, got>>

\* A write with valid arguments.
Write(t, m, w) ==
    \/ /\ closed
       /\ Refused("B_ERROR")
    \/ /\ ~closed
       /\ HasRoom
       /\ Push(m)
       /\ Return("B_OK")
       /\ UNCHANGED <<readerWaitCount, writerWaitCount, callVars, pc, got>>
    \/ /\ ~closed
       /\ ~HasRoom
       /\ w = "now"
       /\ Refused("B_WOULD_BLOCK")
    \/ /\ ~closed
       /\ ~HasRoom
       /\ StartWaiting(t, "write", m, w)
       /\ writerWaitCount' = writerWaitCount + 1
       /\ UNCHANGED readerWaitCount

write_port_etc(t, m, w) ==
    /\ Calling(t)
    /\ Headroom
    /\ IF w = "negative" THEN Refused("B_BAD_VALUE") ELSE Write(t, m, w)
    /\ UNCHANGED <<lifeVars, closed>>

\* A read or a peek with valid arguments: a closed port still gives out its
\* messages.
Read(t, o, w) ==
    \/ /\ queue_count > 0
       /\ Fetch(o)
       /\ Return("B_OK")
       /\ UNCHANGED <<readerWaitCount, writerWaitCount, callVars, pc>>
    \/ /\ queue_count = 0
       /\ closed
       /\ Refused("B_ERROR")
    \/ /\ queue_count = 0
       /\ ~closed
       /\ w = "now"
       /\ Refused("B_WOULD_BLOCK")
    \/ /\ queue_count = 0
       /\ ~closed
       /\ StartWaiting(t, o, NoMessage, w)
       /\ readerWaitCount' = readerWaitCount + 1
       /\ UNCHANGED writerWaitCount

read_port_etc(t, w) ==
    /\ Calling(t)
    /\ Headroom
    /\ IF w = "negative" THEN Refused("B_BAD_VALUE") ELSE Read(t, "read", w)
    /\ UNCHANGED <<lifeVars, closed>>

port_buffer_size_etc(t, w) ==
    /\ Calling(t)
    /\ IF w = "negative" THEN Refused("B_BAD_VALUE") ELSE Read(t, "peek", w)
    /\ UNCHANGED <<lifeVars, closed>>

-----------------------------------------------------------------------------
(* The waiting loop *)

\* acquire_sem returns B_OK.
TakeToken(t) ==
    /\ pc[t] = "waiting"
    /\ IF op[t] = "write"
         THEN ReaderSem!Remove(1) /\ UNCHANGED writerSem
         ELSE WriterSem!Remove(1) /\ UNCHANGED readerSem
    /\ pc' = [pc EXCEPT ![t] = "token"]
    /\ UNCHANGED <<lifeVars, queueVars, readerWaitCount, writerWaitCount,
                   callVars, got, status>>

\* acquire_sem_etc fails at the deadline, even if a token has come.
Expire(t) ==
    /\ pc[t] = "waiting"
    /\ timeout[t] = "deadline"
    /\ pc' = [pc EXCEPT ![t] = "expired"]
    /\ UNCHANGED <<lifeVars, queueVars, waitVars, callVars, got, status>>

\* The way out of the loop; op, msg and timeout, the call's own, go with it.
LeaveLoop(t, s) ==
    /\ pc' = [pc EXCEPT ![t] = "idle"]
    /\ IF op[t] = "write"
         THEN writerWaitCount' = writerWaitCount - 1 /\ UNCHANGED readerWaitCount
         ELSE readerWaitCount' = readerWaitCount - 1 /\ UNCHANGED writerWaitCount
    /\ op' = [op EXCEPT ![t] = "read"]
    /\ msg' = [msg EXCEPT ![t] = NoMessage]
    /\ timeout' = [timeout EXCEPT ![t] = "forever"]
    /\ Return(s)

\* Nothing for t yet: wait for another token.
WaitAgain(t) ==
    /\ pc' = [pc EXCEPT ![t] = "waiting"]
    /\ UNCHANGED <<slots, queue_count, waitVars, callVars, got, status>>

\* A writer with a token has the port lock again.
WriterAgain(t) ==
    /\ pc[t] = "token"
    /\ op[t] = "write"
    /\ \/ /\ closed
          /\ LeaveLoop(t, "B_ERROR")
          /\ UNCHANGED <<slots, queue_count, readerSem, writerSem, got>>
       \/ /\ ~closed
          /\ HasRoom
          /\ Push(msg[t])
          /\ LeaveLoop(t, "B_OK")
          /\ UNCHANGED got
       \/ /\ ~closed
          /\ ~HasRoom
          /\ WaitAgain(t)
    /\ UNCHANGED <<lifeVars, closed>>

\* A reader or peeker with a token has the port lock again.
ReaderAgain(t) ==
    /\ pc[t] = "token"
    /\ op[t] # "write"
    /\ \/ /\ queue_count > 0
          /\ Fetch(op[t])
          /\ LeaveLoop(t, "B_OK")
       \/ /\ queue_count = 0
          /\ closed
          /\ LeaveLoop(t, "B_ERROR")
          /\ UNCHANGED <<slots, queue_count, readerSem, writerSem, got>>
       \/ /\ queue_count = 0
          /\ ~closed
          /\ WaitAgain(t)
    /\ UNCHANGED <<lifeVars, closed>>

\* Seeded fault: a failed wait is tried again.
RetryGiveUp(t) ==
    /\ pc[t] = "expired"
    /\ WaitAgain(t)
    /\ UNCHANGED <<lifeVars, closed>>

\* A call whose acquire_sem_etc failed returns what that returned: B_TIMED_OUT,
\* or B_WOULD_BLOCK if the deadline was the very time of the call.
GiveUp(t) ==
    /\ pc[t] = "expired"
    /\ \E s \in {"B_TIMED_OUT", "B_WOULD_BLOCK"} : LeaveLoop(t, s)
    /\ UNCHANGED <<lifeVars, queueVars, readerSem, writerSem, got>>

port_count == queue_count

-----------------------------------------------------------------------------

Resume(t) == WriterAgain(t) \/ ReaderAgain(t) \/ GiveUp(t)

Next ==
    \E t \in Threads :
        \/ create_port_for_local(t)
        \/ \E u \in Threads : open_port_by_source(t, u)
        \/ delete_port(t)
        \/ close_port(t)
        \/ \E m \in Messages, w \in Timeouts : write_port_etc(t, m, w)
        \/ \E w \in Timeouts : read_port_etc(t, w) \/ port_buffer_size_etc(t, w)
        \/ TakeToken(t)
        \/ Expire(t)
        \/ Resume(t)

Spec == Init /\ [][Next]_vars

\* A waiter for whom there is always a token gets one in the end (what
\* SemaphoreProofs shows: it does not sleep while there are units), a thread
\* that is done waiting gets the port lock, and a wait that goes on without a
\* token meets its deadline.
Fairness ==
    \A t \in Threads :
        WF_vars(TakeToken(t)) /\ WF_vars(Resume(t)) /\ WF_vars(Expire(t))

FairSpec == Spec /\ Fairness

-----------------------------------------------------------------------------
(* Properties *)

\* The wait counts are the numbers of calls inside the waiting loops; every
\* release of tokens is computed from them.
WaitCountsExact ==
    /\ readerWaitCount = Cardinality(Readers)
    /\ writerWaitCount = Cardinality(Writers)

\* No waiter is stranded: while there is a message (or the port is closed)
\* there is a token for every reader still in acquire_sem, and while there is
\* room (or the port is closed) one for every writer, whatever tokens others
\* took, wasted or left behind when they timed out.
NoStrandedWaiter ==
    /\ queue_count > 0 \/ closed =>
        writerSem >= Cardinality({t \in Readers : pc[t] = "waiting"})
    /\ queue_count < Capacity \/ closed =>
        readerSem >= Cardinality({t \in Writers : pc[t] = "waiting"})

\* refCount counts the references clients own; the port is freed with the last
\* one, and nobody is inside a call then.
RefsAccounted ==
    /\ refCount = Cardinality(Owned(refOwner))
    /\ phase = "live" <=> Owned(refOwner) # {}
    /\ \A t \in Threads : pc[t] # "idle" => Owns(refOwner, t)

\* A message does not lie in the queue while a reader waits for one, nor does
\* room go unused while a writer waits for it: the waiter returns, or others
\* have emptied or filled the queue; and close_port lets every waiter go.
WaitersAreServed ==
    \A t \in Threads :
        /\ t \in Readers /\ (queue_count > 0 \/ closed)
           ~> t \notin Readers \/ (queue_count = 0 /\ ~closed)
        /\ t \in Writers /\ (queue_count < Capacity \/ closed)
           ~> t \notin Writers \/ (queue_count = Capacity /\ ~closed)

\* A call with a deadline returns, unless messages pass through the queue for
\* ever: acquire_sem_etc takes a token it finds without a look at the clock, so
\* a stream of messages that others win can keep the call past its deadline,
\* and nothing else can.
TimedCallReturns ==
    \A t \in Threads :
        \/ []<>(pc[t] = "idle" \/ timeout[t] # "deadline")
        \/ []<><<queue_count' # queue_count>>_vars

\* The messages in the queue, first to last.
Queue == [i \in 1..queue_count |-> slots[i]]

Abstract == INSTANCE BoundedFifo WITH queue <- Queue, shut <- closed

\* The port implements a bounded FIFO queue: "after you calling close_port the
\* next write_port... function call will be failed, the next read_port...
\* function call will be failed when queue is empty" (src/src/os/kernel.h).
ImplementsBoundedFifo == Abstract!Spec
====
