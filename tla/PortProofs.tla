---- MODULE PortProofs ----
(***************************************************************************)
(* Proofs about Port for any number of threads, messages and slots.          *)
(*                                                                           *)
(* NoStrandedWaiter is inductive only together with WaitCountsExact: a write *)
(* releases readerWaitCount tokens, and that this is one for every reader    *)
(* still in acquire_sem needs the count to be that of the calls in the loop. *)
(***************************************************************************)
EXTENDS Port, HandlesProofs

\* The calls still in acquire_sem.
WaitingReaders == {t \in Readers : pc[t] = "waiting"}
WaitingWriters == {t \in Writers : pc[t] = "waiting"}

\* The queue is an array with queue_count messages at its head.
QueueOK ==
    /\ slots \in [1..Capacity -> Messages \cup {NoMessage}]
    /\ queue_count \in 0..Capacity
    /\ \A i \in 1..queue_count : slots[i] \in Messages

IInv ==
    /\ TypeOK
    /\ WaitCountsExact
    /\ NoStrandedWaiter
    /\ RefsAccounted

-----------------------------------------------------------------------------
(* Counting threads *)

\* Sets of threads are finite, and a part is no larger than the whole.
LEMMA ThreadSets ==
    ASSUME NEW B \in SUBSET Threads, NEW A \in SUBSET B
    PROVE  /\ IsFiniteSet(A) /\ IsFiniteSet(B)
           /\ Cardinality(A) \in Nat /\ Cardinality(B) \in Nat
           /\ Cardinality(A) <= Cardinality(B)
<1>1. IsFiniteSet(Threads)
  BY PortAssumption DEF PortAssumption
<1>2. IsFiniteSet(B)
  BY <1>1, FS_Subset
<1>3. IsFiniteSet(A) /\ Cardinality(A) <= Cardinality(B)
  BY <1>2, FS_Subset
<1> QED BY <1>2, <1>3, FS_CardinalityType

\* The numbers that the invariant compares.
LEMMA WaiterSets ==
    /\ Cardinality(Readers) \in Nat
    /\ Cardinality(Writers) \in Nat
    /\ Cardinality(WaitingReaders) \in Nat
    /\ Cardinality(WaitingWriters) \in Nat
    /\ Cardinality(WaitingReaders) <= Cardinality(Readers)
    /\ Cardinality(WaitingWriters) <= Cardinality(Writers)
<1>1. /\ Readers \in SUBSET Threads
      /\ Writers \in SUBSET Threads
      /\ WaitingReaders \in SUBSET Readers
      /\ WaitingWriters \in SUBSET Writers
  BY DEF Readers, Writers, WaitingReaders, WaitingWriters
<1> QED BY <1>1, ThreadSets

\* One thread joins or leaves a set of threads.
LEMMA OneThread ==
    ASSUME NEW A \in SUBSET Threads, NEW t \in Threads
    PROVE  /\ t \notin A => Cardinality(A \cup {t}) = Cardinality(A) + 1
           /\ t \in A => Cardinality(A \ {t}) = Cardinality(A) - 1
  BY ThreadSets, FS_AddElement, FS_RemoveElement

\* A call enters its waiting loop.
LEMMA Enter ==
    ASSUME TypeOK, NEW t \in Threads, NEW o \in {"read", "peek", "write"},
           pc[t] = "idle",
           pc' = [pc EXCEPT ![t] = "waiting"], op' = [op EXCEPT ![t] = o]
    PROVE  /\ o = "write" => /\ Cardinality(Writers') = Cardinality(Writers) + 1
                             /\ Readers' = Readers
                             /\ WaitingReaders' = WaitingReaders
                             /\ Writers' = Writers \cup {t}
           /\ o # "write" => /\ Cardinality(Readers') = Cardinality(Readers) + 1
                             /\ Writers' = Writers
                             /\ WaitingWriters' = WaitingWriters
<1>1. CASE o = "write"
  <2>1. Writers' = Writers \cup {t} /\ t \notin Writers
    BY <1>1 DEF TypeOK, Writers
  <2>2. Readers' = Readers /\ WaitingReaders' = WaitingReaders
    BY <1>1 DEF TypeOK, Readers, WaitingReaders
  <2>3. Writers \in SUBSET Threads
    BY DEF Writers
  <2> QED BY <1>1, <2>1, <2>2, <2>3, OneThread
<1>2. CASE o # "write"
  <2>1. Readers' = Readers \cup {t} /\ t \notin Readers
    BY <1>2 DEF TypeOK, Readers
  <2>2. Writers' = Writers /\ WaitingWriters' = WaitingWriters
    BY <1>2 DEF TypeOK, Writers, WaitingWriters
  <2>3. Readers \in SUBSET Threads
    BY DEF Readers
  <2> QED BY <1>2, <2>1, <2>2, <2>3, OneThread
<1> QED BY <1>1, <1>2

\* A call leaves its waiting loop, with a token or after its deadline.
LEMMA Leave ==
    ASSUME TypeOK, NEW t \in Threads, pc[t] \in {"token", "expired"},
           pc' = [pc EXCEPT ![t] = "idle"], op' = [op EXCEPT ![t] = "read"]
    PROVE  /\ op[t] = "write" =>
                /\ Cardinality(Writers') = Cardinality(Writers) - 1
                /\ Readers' = Readers
           /\ op[t] # "write" =>
                /\ Cardinality(Readers') = Cardinality(Readers) - 1
                /\ Writers' = Writers
           /\ Writers' \subseteq Writers \ {t}
           /\ WaitingReaders' = WaitingReaders
           /\ WaitingWriters' = WaitingWriters
<1>1. Readers' = Readers \ {t} /\ Writers' = Writers \ {t}
  BY DEF TypeOK, Readers, Writers
<1>2. WaitingReaders' = WaitingReaders /\ WaitingWriters' = WaitingWriters
  BY DEF TypeOK, Readers, Writers, WaitingReaders, WaitingWriters
<1>3. Readers \in SUBSET Threads /\ Writers \in SUBSET Threads
  BY DEF Readers, Writers
<1>4. op[t] = "write" => t \in Writers /\ t \notin Readers
  BY DEF Readers, Writers
<1>5. op[t] # "write" => t \in Readers /\ t \notin Writers
  BY DEF TypeOK, Readers, Writers
<1> QED BY <1>1, <1>2, <1>3, <1>4, <1>5, OneThread

\* A call that waits gets a token or expires.
LEMMA StopWaiting ==
    ASSUME TypeOK, NEW t \in Threads, pc[t] = "waiting",
           NEW p \in {"token", "expired"},
           pc' = [pc EXCEPT ![t] = p], op' = op
    PROVE  /\ Readers' = Readers
           /\ Writers' = Writers
           /\ WaitingReaders' = WaitingReaders \ {t}
           /\ WaitingWriters' = WaitingWriters \ {t}
           /\ op[t] = "write" => t \in WaitingWriters
           /\ op[t] # "write" => t \in WaitingReaders
           /\ op[t] = "write" => WaitingReaders' = WaitingReaders
           /\ op[t] # "write" => WaitingWriters' = WaitingWriters
  BY DEF TypeOK, Readers, Writers, WaitingReaders, WaitingWriters

\* A call with a useless token waits again.
LEMMA GoBack ==
    ASSUME TypeOK, NEW t \in Threads, pc[t] = "token",
           pc' = [pc EXCEPT ![t] = "waiting"], op' = op
    PROVE  /\ Readers' = Readers
           /\ Writers' = Writers
           /\ op[t] = "write" => WaitingReaders' = WaitingReaders
           /\ op[t] # "write" => WaitingWriters' = WaitingWriters
  BY DEF TypeOK, Readers, Writers, WaitingReaders, WaitingWriters

\* A step that leaves pc and op alone.
LEMMA SameCalls ==
    ASSUME pc' = pc, op' = op
    PROVE  /\ Readers' = Readers
           /\ Writers' = Writers
           /\ WaitingReaders' = WaitingReaders
           /\ WaitingWriters' = WaitingWriters
  BY DEF Readers, Writers, WaitingReaders, WaitingWriters

-----------------------------------------------------------------------------
(* The queue *)

\* Writing a message where there is room.
LEMMA PushFacts ==
    ASSUME TypeOK, HasRoom, NEW m \in Messages, Push(m)
    PROVE  /\ QueueOK'
           /\ queue_count' = queue_count + 1
           /\ readerSem' = readerSem
           /\ writerSem' = writerSem + readerWaitCount
<1>1. slots' = [slots EXCEPT ![queue_count + 1] = m]
  BY DEF Push
<1>2. queue_count' = queue_count + 1 /\ queue_count + 1 \in 1..Capacity
  BY PortAssumption DEF Push, HasRoom, TypeOK, PortAssumption
<1>3. QueueOK'
  BY <1>1, <1>2, PortAssumption DEF QueueOK, TypeOK, PortAssumption
<1> QED BY <1>2, <1>3 DEF Push, WriterSem!Add

\* Reading the first message.
LEMMA ShiftFacts ==
    ASSUME TypeOK, queue_count > 0, Shift
    PROVE  /\ QueueOK'
           /\ queue_count' = queue_count - 1
           /\ got' \in Messages
           /\ writerSem' = writerSem
           /\ readerSem' = readerSem + writerWaitCount
<1>1. slots' = [i \in 1..Capacity |->
                    IF i < queue_count THEN slots[i + 1] ELSE slots[i]]
  BY DEF Shift
<1>2. queue_count' = queue_count - 1 /\ queue_count \in 1..Capacity
  BY PortAssumption DEF Shift, TypeOK, PortAssumption
<1>3. QueueOK'
  <2>1. slots' \in [1..Capacity -> Messages \cup {NoMessage}]
    BY <1>1, <1>2, PortAssumption DEF TypeOK, PortAssumption
  <2>2. \A i \in 1..(queue_count - 1) : slots'[i] \in Messages
    BY <1>1, <1>2, PortAssumption DEF TypeOK, PortAssumption
  <2> QED BY <1>2, <2>1, <2>2, PortAssumption DEF QueueOK, PortAssumption
<1>4. got' \in Messages
  BY <1>2 DEF Shift, TypeOK
<1> QED BY <1>2, <1>3, <1>4 DEF Shift, ReaderSem!Add

\* What a reader or peeker that finds a message does to the queue and tokens.
LEMMA FetchFacts ==
    ASSUME TypeOK, queue_count > 0, NEW o, Fetch(o)
    PROVE  /\ QueueOK'
           /\ queue_count' \in {queue_count, queue_count - 1}
           /\ got' \in Messages
           /\ writerSem' = writerSem
           /\ \/ readerSem' = readerSem + writerWaitCount
              \/ readerSem' = readerSem /\ queue_count' = queue_count
<1>1. CASE o = "read"
  BY <1>1, ShiftFacts DEF Fetch
<1>2. CASE o # "read"
  <2>1. UNCHANGED <<slots, queue_count, readerSem, writerSem>> /\ got' = slots[1]
    BY <1>2 DEF Fetch
  <2>2. slots[1] \in Messages
    BY DEF TypeOK
  <2> QED BY <2>1, <2>2 DEF QueueOK, TypeOK
<1> QED BY <1>1, <1>2

-----------------------------------------------------------------------------
(* The invariant *)

\* A step that touches neither the references nor the phase, and starts calls
\* only in threads that own a reference, keeps RefsAccounted.
LEMMA RefsUntouched ==
    ASSUME RefsAccounted, UNCHANGED lifeVars,
           \A t \in Threads : pc'[t] # "idle" => Owns(refOwner, t)
    PROVE  RefsAccounted'
  BY DEF RefsAccounted, lifeVars

\* The same waiters, or fewer, with no fewer tokens and no better a queue.
LEMMA NobodyNew ==
    ASSUME TypeOK, TypeOK', WaitCountsExact, NoStrandedWaiter,
           WaitingReaders' \subseteq WaitingReaders,
           WaitingWriters' \subseteq WaitingWriters,
           \/ /\ writerSem' >= writerSem
              /\ queue_count' <= queue_count
              /\ closed' = closed
           \/ writerSem' = writerSem + readerWaitCount,
           \/ /\ readerSem' >= readerSem
              /\ queue_count' >= queue_count
              /\ closed' = closed
           \/ readerSem' = readerSem + writerWaitCount
    PROVE  NoStrandedWaiter'
<1>1. /\ WaitingReaders \in SUBSET Threads
      /\ WaitingWriters \in SUBSET Threads
      /\ WaitingReaders' \in SUBSET WaitingReaders
      /\ WaitingWriters' \in SUBSET WaitingWriters
  BY DEF WaitingReaders, WaitingWriters, Readers, Writers
<1>2. /\ Cardinality(WaitingReaders') \in Nat
      /\ Cardinality(WaitingWriters') \in Nat
      /\ Cardinality(WaitingReaders') <= Cardinality(WaitingReaders)
      /\ Cardinality(WaitingWriters') <= Cardinality(WaitingWriters)
  BY <1>1, ThreadSets
<1>3. /\ queue_count > 0 \/ closed => writerSem >= Cardinality(WaitingReaders)
      /\ queue_count < Capacity \/ closed =>
            readerSem >= Cardinality(WaitingWriters)
  BY DEF NoStrandedWaiter, WaitingReaders, WaitingWriters
<1>4. /\ readerWaitCount >= Cardinality(WaitingReaders)
      /\ writerWaitCount >= Cardinality(WaitingWriters)
  BY WaiterSets DEF WaitCountsExact
<1>5. /\ readerWaitCount \in Nat /\ writerWaitCount \in Nat
      /\ readerSem \in Nat /\ writerSem \in Nat
      /\ readerSem' \in Nat /\ writerSem' \in Nat
      /\ queue_count \in Nat /\ queue_count' \in Nat /\ Capacity \in Nat
  BY PortAssumption DEF TypeOK, PortAssumption
<1>6. queue_count' > 0 \/ closed' => writerSem' >= Cardinality(WaitingReaders')
  BY <1>2, <1>3, <1>4, <1>5, WaiterSets
<1>7. queue_count' < Capacity \/ closed' =>
        readerSem' >= Cardinality(WaitingWriters')
  BY <1>2, <1>3, <1>4, <1>5, WaiterSets
<1> QED BY <1>6, <1>7 DEF NoStrandedWaiter, WaitingReaders, WaitingWriters

\* Initially the queue is empty, nobody waits and no reference is owned.
LEMMA InitInv == Init => IInv
<1> SUFFICES ASSUME Init PROVE IInv OBVIOUS
<1>1. /\ refOwner \in Tables
      /\ Owned(refOwner) = {}
      /\ Cardinality(Owned(refOwner)) = 0
  BY NoRefsOwned DEF Init
<1>2. Readers = {} /\ Writers = {} /\ WaitingReaders = {} /\ WaitingWriters = {}
  BY DEF Init, Readers, Writers, WaitingReaders, WaitingWriters
<1>3. TypeOK
  <2>1. /\ queue_count \in 0..Capacity
        /\ refCount \in 0..MaxRefCount
        /\ slots \in [1..Capacity -> Messages \cup {NoMessage}]
        /\ \A i \in 1..queue_count : slots[i] \in Messages
    BY PortAssumption DEF Init, PortAssumption
  <2>2. /\ readerWaitCount \in Nat /\ writerWaitCount \in Nat
        /\ readerSem \in Nat /\ writerSem \in Nat
    BY DEF Init
  <2>3. /\ pc \in [Threads -> {"idle", "waiting", "token", "expired"}]
        /\ op \in [Threads -> {"read", "peek", "write"}]
        /\ msg \in [Threads -> Messages \cup {NoMessage}]
        /\ timeout \in [Threads -> Timeouts]
        /\ status \in Statuses
    BY DEF Init, Timeouts, Statuses
  <2> QED BY <1>1, <1>2, <2>1, <2>2, <2>3, Zenon DEF Init, TypeOK
<1>4. WaitCountsExact
  BY <1>2, FS_EmptySet DEF Init, WaitCountsExact
<1>5. NoStrandedWaiter
  BY <1>2, FS_EmptySet DEF Init, NoStrandedWaiter, WaitingReaders, WaitingWriters
<1>6. RefsAccounted
  BY <1>1 DEF Init, RefsAccounted
<1> QED BY <1>3, <1>4, <1>5, <1>6 DEF IInv

\* Life cycle: these steps leave the queue, the tokens and the calls alone.
LEMMA LifeSteps ==
    ASSUME IInv, NEW t \in Threads,
           \/ create_port_for_local(t)
           \/ \E u \in Threads : open_port_by_source(t, u)
           \/ delete_port(t)
    PROVE  IInv'
<1> USE PortAssumption, HandlesAssumption
        DEF IInv, PortAssumption, HandlesAssumption
<1>1. /\ UNCHANGED <<slots, queue_count, closed, readerWaitCount,
                     writerWaitCount, readerSem, writerSem, op, msg, timeout,
                     pc, got>>
      /\ status' \in Statuses
  BY DEF create_port_for_local, open_port_by_source, delete_port, queueVars,
         waitVars, callVars, Return, Statuses, TypeOK
<1>2. WaitCountsExact' /\ NoStrandedWaiter'
  BY <1>1, SameCalls
     DEF WaitCountsExact, NoStrandedWaiter, Readers, Writers
<1>3. phase' \in {"absent", "live", "freed"} /\ refCount' \in 0..MaxRefCount
      /\ refOwner' \in Tables /\ RefsAccounted'
  <2>1. CASE create_port_for_local(t)
    <3>1. Cardinality(Owned(refOwner)) = 0 /\ Owned(refOwner) = {}
      BY <2>1, OwnedFinite DEF create_port_for_local, RefsAccounted
    <3>2. /\ refOwner' \in Tables
          /\ Cardinality(Owned(refOwner')) = Cardinality(Owned(refOwner)) + 1
          /\ Owned(refOwner') # {}
          /\ \A u \in Threads : Owns(refOwner, u) => Owns(refOwner', u)
      BY <2>1, GiveRef DEF create_port_for_local, TypeOK
    <3> QED BY <1>1, <2>1, <3>1, <3>2 DEF create_port_for_local, RefsAccounted
  <2>2. ASSUME NEW u \in Threads, open_port_by_source(t, u)
        PROVE  /\ phase' \in {"absent", "live", "freed"}
               /\ refCount' \in 0..MaxRefCount
               /\ refOwner' \in Tables /\ RefsAccounted'
    <3>1. CASE UNCHANGED <<refCount, refOwner>>
      BY <1>1, <2>2, <3>1
         DEF open_port_by_source, TypeOK, RefsAccounted
    <3>2. CASE /\ refCount < MaxRefCount
               /\ refCount' = refCount + 1
               /\ refOwner' \in GivenTo(refOwner, u)
      <4>1. /\ refOwner' \in Tables
            /\ Cardinality(Owned(refOwner')) = Cardinality(Owned(refOwner)) + 1
            /\ Owned(refOwner') # {}
            /\ \A v \in Threads : Owns(refOwner, v) => Owns(refOwner', v)
        BY <3>2, GiveRef DEF TypeOK
      <4> QED BY <1>1, <2>2, <3>2, <4>1
              DEF open_port_by_source, Calling, TypeOK, RefsAccounted
    <3> QED BY <2>2, <3>1, <3>2 DEF open_port_by_source, TypeOK
  <2>3. CASE delete_port(t)
    <3>1. /\ refOwner' \in Tables
          /\ Cardinality(Owned(refOwner')) = Cardinality(Owned(refOwner)) - 1
          /\ Cardinality(Owned(refOwner')) \in Nat
          /\ Owned(refOwner') = {} <=> Cardinality(Owned(refOwner')) = 0
          /\ \A u \in Threads : u # t /\ Owns(refOwner, u) => Owns(refOwner', u)
      BY <2>3, DropRef DEF delete_port, TypeOK
    <3>2. /\ refCount' = Cardinality(Owned(refOwner'))
          /\ refCount' \in 0..MaxRefCount
      BY <2>3, <3>1 DEF delete_port, RefsAccounted, TypeOK
    <3>3. /\ phase' \in {"absent", "live", "freed"}
          /\ phase' = "live" <=> Owned(refOwner') # {}
      BY <2>3, <3>1, <3>2 DEF delete_port, LastRef
    <3> QED BY <1>1, <2>3, <3>1, <3>2, <3>3
            DEF delete_port, Calling, RefsAccounted
  <2> QED BY <2>1, <2>2, <2>3
<1>4. TypeOK'
  BY <1>1, <1>3 DEF TypeOK, Writers
<1> QED BY <1>2, <1>3, <1>4

\* close_port releases a token for every waiter.
LEMMA CloseStep ==
    ASSUME IInv, NEW t \in Threads, close_port(t)
    PROVE  IInv'
<1> USE DEF IInv
<1>1. UNCHANGED <<phase, refCount, refOwner, slots, queue_count,
                  readerWaitCount, writerWaitCount, op, msg, timeout, pc, got>>
  BY DEF close_port, lifeVars, callVars
<1>2. /\ \/ UNCHANGED <<closed, readerSem, writerSem>>
         \/ /\ closed' = TRUE
            /\ readerSem' = readerSem + writerWaitCount
            /\ writerSem' = writerSem + readerWaitCount
      /\ status' \in Statuses
  BY DEF close_port, WakeAll, ReaderSem!Add, WriterSem!Add, Return, Statuses
<1>3. TypeOK'
  <2>1. closed' \in BOOLEAN
    BY <1>2, Zenon DEF TypeOK
  <2>2. readerSem' \in Nat /\ writerSem' \in Nat
    BY <1>2 DEF TypeOK
  <2> QED BY <1>1, <1>2, <2>1, <2>2 DEF TypeOK, Writers
<1>4. WaitCountsExact'
  BY <1>1, SameCalls DEF WaitCountsExact
<1>5. NoStrandedWaiter'
  BY <1>1, <1>2, <1>3, SameCalls, NobodyNew DEF TypeOK
<1>6. RefsAccounted'
  BY <1>1 DEF RefsAccounted
<1> QED BY <1>3, <1>4, <1>5, <1>6

\* A call that is refused at once changes nothing but the status.
LEMMA RefusedStep ==
    ASSUME IInv, NEW s \in Statuses, Refused(s), UNCHANGED <<lifeVars, closed>>
    PROVE  IInv'
<1>1. /\ UNCHANGED <<phase, refCount, refOwner, slots, queue_count, closed,
                     readerWaitCount, writerWaitCount, readerSem, writerSem,
                     op, msg, timeout, pc, got>>
      /\ status' = s
  BY DEF Refused, Return, lifeVars, waitVars, callVars
<1> QED BY <1>1, SameCalls
        DEF IInv, TypeOK, WaitCountsExact, NoStrandedWaiter, RefsAccounted,
            Readers, Writers

\* A call that waits: a writer when the queue is full, a reader or peeker when
\* it is empty, so that nobody is owed a token for it.
LEMMA WaitStep ==
    ASSUME IInv, NEW t \in Threads, NEW w, NEW o \in {"read", "peek", "write"},
           NEW m \in Messages \cup {NoMessage},
           o = "write" => m \in Messages,
           Calling(t), ~closed, StartWaiting(t, o, m, w),
           UNCHANGED <<lifeVars, closed>>,
           IF o = "write"
             THEN /\ ~HasRoom
                  /\ writerWaitCount' = writerWaitCount + 1
                  /\ UNCHANGED readerWaitCount
             ELSE /\ queue_count = 0
                  /\ readerWaitCount' = readerWaitCount + 1
                  /\ UNCHANGED writerWaitCount
    PROVE  IInv'
<1> USE DEF IInv
<1>1. /\ UNCHANGED <<phase, refCount, refOwner, slots, queue_count, closed,
                     readerSem, writerSem, got, status>>
      /\ w \in {"deadline", "forever"}
      /\ pc' = [pc EXCEPT ![t] = "waiting"]
      /\ op' = [op EXCEPT ![t] = o]
      /\ msg' = [msg EXCEPT ![t] = m]
      /\ timeout' = [timeout EXCEPT ![t] = w]
  BY DEF StartWaiting, lifeVars
<1>2. pc[t] = "idle" /\ Owns(refOwner, t)
  BY DEF Calling
<1>3. /\ readerWaitCount \in Nat /\ writerWaitCount \in Nat
      /\ readerWaitCount' \in Nat /\ writerWaitCount' \in Nat
  BY DEF TypeOK
<1>4. TypeOK'
  <2>1. \A u \in Writers' : msg'[u] \in Messages
    BY <1>1, <1>2 DEF TypeOK, Writers
  <2> QED BY <1>1, <1>3, <2>1 DEF TypeOK, Timeouts
<1>5. WaitCountsExact'
  BY <1>1, <1>2, <1>3, Enter DEF WaitCountsExact
<1>6. NoStrandedWaiter'
  <2>1. CASE o = "write"
    <3>1. WaitingReaders' = WaitingReaders
      BY <1>1, <1>2, <2>1, Enter
    <3>2. ~(queue_count' < Capacity) /\ ~closed'
      BY <1>1, <2>1 DEF HasRoom
    <3> QED BY <1>1, <3>1, <3>2
            DEF NoStrandedWaiter, WaitingReaders
  <2>2. CASE o # "write"
    <3>1. WaitingWriters' = WaitingWriters
      BY <1>1, <1>2, <2>2, Enter
    <3>2. ~(queue_count' > 0) /\ ~closed'
      BY <1>1, <2>2
    <3> QED BY <1>1, <3>1, <3>2
            DEF NoStrandedWaiter, WaitingWriters
  <2> QED BY <2>1, <2>2
<1>7. RefsAccounted'
  BY <1>1, <1>2, RefsUntouched DEF RefsAccounted, TypeOK
<1> QED BY <1>4, <1>5, <1>6, <1>7

\* A write up to its first wait.
LEMMA WriteStep ==
    ASSUME IInv, NEW t \in Threads, NEW m \in Messages, NEW w \in Timeouts,
           write_port_etc(t, m, w)
    PROVE  IInv'
<1>1. Calling(t) /\ UNCHANGED <<lifeVars, closed>>
  BY DEF write_port_etc
<1>2. ASSUME NEW s \in Statuses, Refused(s) PROVE IInv'
  BY <1>1, <1>2, RefusedStep
<1>3. CASE /\ HasRoom
           /\ Push(m)
           /\ Return("B_OK")
           /\ UNCHANGED <<readerWaitCount, writerWaitCount, callVars, pc, got>>
  <2> USE DEF IInv
  <2>1. /\ QueueOK'
        /\ queue_count' = queue_count + 1
        /\ readerSem' = readerSem
        /\ writerSem' = writerSem + readerWaitCount
    BY <1>3, PushFacts
  <2>2. UNCHANGED <<phase, refCount, refOwner, closed, readerWaitCount,
                    writerWaitCount, op, msg, timeout, pc, got>>
    BY <1>1, <1>3 DEF lifeVars, callVars
  <2>3. TypeOK'
    BY <1>3, <2>1, <2>2 DEF TypeOK, QueueOK, Writers, Return, Statuses
  <2>4. WaitCountsExact'
    BY <2>2, SameCalls DEF WaitCountsExact
  <2>5. NoStrandedWaiter'
    BY <2>1, <2>2, <2>3, SameCalls, NobodyNew DEF TypeOK
  <2>6. RefsAccounted'
    BY <2>2 DEF RefsAccounted
  <2> QED BY <2>3, <2>4, <2>5, <2>6
<1>4. CASE /\ ~closed
           /\ ~HasRoom
           /\ StartWaiting(t, "write", m, w)
           /\ writerWaitCount' = writerWaitCount + 1
           /\ UNCHANGED readerWaitCount
  BY <1>1, <1>4, WaitStep
<1> QED BY <1>2, <1>3, <1>4 DEF write_port_etc, Write, Statuses

\* A read or a peek up to its first wait.
LEMMA ReadStep ==
    ASSUME IInv, NEW t \in Threads, NEW o \in {"read", "peek"},
           NEW w \in Timeouts, Calling(t), UNCHANGED <<lifeVars, closed>>,
           Refused("B_BAD_VALUE") \/ Read(t, o, w)
    PROVE  IInv'
<1>1. ASSUME NEW s \in Statuses, Refused(s) PROVE IInv'
  BY <1>1, RefusedStep
<1>2. CASE /\ queue_count > 0
           /\ Fetch(o)
           /\ Return("B_OK")
           /\ UNCHANGED <<readerWaitCount, writerWaitCount, callVars, pc>>
  <2> USE DEF IInv
  <2>1. /\ QueueOK'
        /\ queue_count' \in {queue_count, queue_count - 1}
        /\ got' \in Messages
        /\ writerSem' = writerSem
        /\ \/ readerSem' = readerSem + writerWaitCount
           \/ readerSem' = readerSem /\ queue_count' = queue_count
    BY <1>2, FetchFacts
  <2>2. UNCHANGED <<phase, refCount, refOwner, closed, readerWaitCount,
                    writerWaitCount, op, msg, timeout, pc>>
    BY <1>2 DEF lifeVars, callVars
  <2>3. TypeOK'
    BY <1>2, <2>1, <2>2 DEF TypeOK, QueueOK, Writers, Return, Statuses
  <2>4. WaitCountsExact'
    BY <2>2, SameCalls DEF WaitCountsExact
  <2>5. NoStrandedWaiter'
    BY <2>1, <2>2, <2>3, SameCalls, NobodyNew DEF TypeOK
  <2>6. RefsAccounted'
    BY <2>2 DEF RefsAccounted
  <2> QED BY <2>3, <2>4, <2>5, <2>6
<1>3. CASE /\ queue_count = 0
           /\ ~closed
           /\ StartWaiting(t, o, NoMessage, w)
           /\ readerWaitCount' = readerWaitCount + 1
           /\ UNCHANGED writerWaitCount
  BY <1>3, WaitStep
<1> QED BY <1>1, <1>2, <1>3 DEF Read, Statuses

\* The way out of the waiting loop, with whatever it did to the queue.
LEMMA LeaveStep ==
    ASSUME IInv, NEW t \in Threads, NEW s \in Statuses,
           pc[t] \in {"token", "expired"}, LeaveLoop(t, s),
           UNCHANGED <<lifeVars, closed>>,
           QueueOK', got' \in Messages \cup {NoMessage},
           \/ writerSem' = writerSem /\ queue_count' <= queue_count
           \/ writerSem' = writerSem + readerWaitCount,
           \/ readerSem' = readerSem /\ queue_count' >= queue_count
           \/ readerSem' = readerSem + writerWaitCount
    PROVE  IInv'
<1> USE DEF IInv
<1>1. /\ UNCHANGED <<phase, refCount, refOwner, closed>>
      /\ pc' = [pc EXCEPT ![t] = "idle"]
      /\ op' = [op EXCEPT ![t] = "read"]
      /\ msg' = [msg EXCEPT ![t] = NoMessage]
      /\ timeout' = [timeout EXCEPT ![t] = "forever"]
      /\ status' = s
      /\ IF op[t] = "write"
           THEN /\ writerWaitCount' = writerWaitCount - 1
                /\ UNCHANGED readerWaitCount
           ELSE /\ readerWaitCount' = readerWaitCount - 1
                /\ UNCHANGED writerWaitCount
  BY DEF LeaveLoop, Return, lifeVars
<1>2. /\ op[t] = "write" => /\ Cardinality(Writers') = Cardinality(Writers) - 1
                            /\ Readers' = Readers
      /\ op[t] # "write" => /\ Cardinality(Readers') = Cardinality(Readers) - 1
                            /\ Writers' = Writers
      /\ Writers' \subseteq Writers \ {t}
      /\ WaitingReaders' = WaitingReaders
      /\ WaitingWriters' = WaitingWriters
  BY <1>1, Leave
<1>3. WaitCountsExact'
  BY <1>1, <1>2, WaiterSets DEF WaitCountsExact
<1>4. readerWaitCount' \in Nat /\ writerWaitCount' \in Nat
  <2>1. /\ IsFiniteSet(Readers') /\ IsFiniteSet(Writers')
        /\ Cardinality(Readers') \in Nat /\ Cardinality(Writers') \in Nat
    <3>1. Readers' \in SUBSET Threads /\ Writers' \in SUBSET Threads
      BY DEF Readers, Writers
    <3> QED BY <3>1, ThreadSets
  <2> QED BY <1>3, <2>1 DEF WaitCountsExact
<1>5. readerSem' \in Nat /\ writerSem' \in Nat
  BY DEF TypeOK
<1>6. TypeOK'
  <2>1. \A u \in Writers' : msg'[u] \in Messages
    BY <1>1, <1>2 DEF TypeOK, Writers
  <2> QED BY <1>1, <1>4, <1>5, <2>1 DEF TypeOK, QueueOK, Timeouts
<1>7. NoStrandedWaiter'
  BY <1>1, <1>2, <1>6, NobodyNew DEF TypeOK
<1>8. RefsAccounted'
  BY <1>1, RefsUntouched DEF RefsAccounted, TypeOK, lifeVars
<1> QED BY <1>3, <1>6, <1>7, <1>8

\* The steps inside acquire_sem: a token is taken or the deadline passes.
LEMMA AcquireSteps ==
    ASSUME IInv, NEW t \in Threads, TakeToken(t) \/ Expire(t)
    PROVE  IInv'
<1> USE DEF IInv
<1>1. /\ UNCHANGED <<phase, refCount, refOwner, slots, queue_count, closed,
                     readerWaitCount, writerWaitCount, op, msg, timeout, got,
                     status>>
      /\ pc[t] = "waiting"
  BY DEF TakeToken, Expire, lifeVars, queueVars, waitVars, callVars
<1>2. PICK p \in {"token", "expired"} : pc' = [pc EXCEPT ![t] = p]
  BY DEF TakeToken, Expire
<1>3. /\ Readers' = Readers
      /\ Writers' = Writers
      /\ WaitingReaders' = WaitingReaders \ {t}
      /\ WaitingWriters' = WaitingWriters \ {t}
      /\ op[t] = "write" => t \in WaitingWriters
      /\ op[t] # "write" => t \in WaitingReaders
      /\ op[t] = "write" => WaitingReaders' = WaitingReaders
      /\ op[t] # "write" => WaitingWriters' = WaitingWriters
  BY <1>1, <1>2, StopWaiting
<1>4. readerSem' \in Nat /\ writerSem' \in Nat
  BY DEF TakeToken, Expire, waitVars, ReaderSem!Remove, WriterSem!Remove, TypeOK
<1>5. TypeOK'
  BY <1>1, <1>2, <1>3, <1>4 DEF TypeOK
<1>6. WaitCountsExact'
  BY <1>1, <1>3 DEF WaitCountsExact
<1>7. RefsAccounted'
  BY <1>1, <1>2, RefsUntouched DEF RefsAccounted, TypeOK, lifeVars
<1>8. NoStrandedWaiter'
  <2>1. CASE Expire(t)
    <3>1. UNCHANGED <<readerSem, writerSem>>
      BY <2>1 DEF Expire, waitVars
    <3> QED BY <1>1, <1>3, <1>5, <3>1, NobodyNew DEF TypeOK
  <2>2. CASE TakeToken(t) /\ op[t] = "write"
    <3>1. readerSem' = readerSem - 1 /\ writerSem' = writerSem
      BY <2>2 DEF TakeToken, ReaderSem!Remove
    <3>2. Cardinality(WaitingWriters') = Cardinality(WaitingWriters) - 1
      <4>1. WaitingWriters \in SUBSET Threads
        BY DEF WaitingWriters, Writers
      <4> QED BY <1>3, <2>2, <4>1, OneThread
    <3>3. queue_count' < Capacity \/ closed' =>
            readerSem' >= Cardinality(WaitingWriters')
      BY <1>1, <3>1, <3>2, WaiterSets
         DEF NoStrandedWaiter, WaitingWriters, TypeOK
    <3>4. queue_count' > 0 \/ closed' =>
            writerSem' >= Cardinality(WaitingReaders')
      BY <1>1, <1>3, <2>2, <3>1 DEF NoStrandedWaiter, WaitingReaders
    <3> QED BY <3>3, <3>4 DEF NoStrandedWaiter, WaitingReaders, WaitingWriters
  <2>3. CASE TakeToken(t) /\ op[t] # "write"
    <3>1. writerSem' = writerSem - 1 /\ readerSem' = readerSem
      BY <2>3 DEF TakeToken, WriterSem!Remove
    <3>2. Cardinality(WaitingReaders') = Cardinality(WaitingReaders) - 1
      <4>1. WaitingReaders \in SUBSET Threads
        BY DEF WaitingReaders, Readers
      <4> QED BY <1>3, <2>3, <4>1, OneThread
    <3>3. queue_count' > 0 \/ closed' =>
            writerSem' >= Cardinality(WaitingReaders')
      BY <1>1, <3>1, <3>2, WaiterSets
         DEF NoStrandedWaiter, WaitingReaders, TypeOK
    <3>4. queue_count' < Capacity \/ closed' =>
            readerSem' >= Cardinality(WaitingWriters')
      BY <1>1, <1>3, <2>3, <3>1 DEF NoStrandedWaiter, WaitingWriters
    <3> QED BY <3>3, <3>4 DEF NoStrandedWaiter, WaitingReaders, WaitingWriters
  <2> QED BY <2>1, <2>2, <2>3
<1> QED BY <1>5, <1>6, <1>7, <1>8

\* A useless token: a writer finds the queue full, a reader finds it empty.
LEMMA AgainStep ==
    ASSUME IInv, NEW t \in Threads, pc[t] = "token", WaitAgain(t), ~closed,
           UNCHANGED <<lifeVars, closed>>,
           IF op[t] = "write" THEN ~HasRoom ELSE queue_count = 0
    PROVE  IInv'
<1> USE DEF IInv
<1>1. /\ UNCHANGED <<phase, refCount, refOwner, slots, queue_count, closed,
                     readerWaitCount, writerWaitCount, readerSem, writerSem,
                     op, msg, timeout, got, status>>
      /\ pc' = [pc EXCEPT ![t] = "waiting"]
  BY DEF WaitAgain, lifeVars, waitVars, callVars
<1>2. /\ Readers' = Readers
      /\ Writers' = Writers
      /\ op[t] = "write" => WaitingReaders' = WaitingReaders
      /\ op[t] # "write" => WaitingWriters' = WaitingWriters
  BY <1>1, GoBack
<1>3. TypeOK'
  BY <1>1, <1>2 DEF TypeOK
<1>4. WaitCountsExact'
  BY <1>1, <1>2 DEF WaitCountsExact
<1>5. NoStrandedWaiter'
  <2>1. CASE op[t] = "write"
    BY <1>1, <1>2, <2>1 DEF HasRoom, NoStrandedWaiter, WaitingReaders
  <2>2. CASE op[t] # "write"
    BY <1>1, <1>2, <2>2 DEF NoStrandedWaiter, WaitingWriters
  <2> QED BY <2>1, <2>2
<1>6. RefsAccounted'
  BY <1>1, RefsUntouched DEF RefsAccounted, TypeOK, lifeVars
<1> QED BY <1>3, <1>4, <1>5, <1>6

\* A call inside the loop goes on.
LEMMA ResumeSteps ==
    ASSUME IInv, NEW t \in Threads, Resume(t)
    PROVE  IInv'
<1> USE DEF IInv
<1>1. UNCHANGED <<lifeVars, closed>>
  BY DEF Resume, WriterAgain, ReaderAgain, GiveUp, queueVars
<1>2. ASSUME NEW s \in Statuses, pc[t] \in {"token", "expired"},
             LeaveLoop(t, s),
             UNCHANGED <<slots, queue_count, readerSem, writerSem, got>>
      PROVE  IInv'
  <2>1. QueueOK' /\ got' \in Messages \cup {NoMessage} /\ queue_count \in Int
    BY <1>2 DEF QueueOK, TypeOK
  <2> QED BY <1>1, <1>2, <2>1, LeaveStep
<1>3. CASE WriterAgain(t)
  <2>1. CASE closed
    BY <1>2, <1>3, <2>1 DEF WriterAgain, Statuses
  <2>2. CASE ~closed /\ HasRoom
    <3>1. /\ Push(msg[t]) /\ LeaveLoop(t, "B_OK") /\ UNCHANGED got
          /\ pc[t] = "token"
      BY <1>3, <2>2 DEF WriterAgain
    <3>2. msg[t] \in Messages
      BY <1>3 DEF WriterAgain, TypeOK, Writers
    <3>3. /\ QueueOK'
          /\ queue_count' = queue_count + 1
          /\ readerSem' = readerSem
          /\ writerSem' = writerSem + readerWaitCount
      BY <2>2, <3>1, <3>2, PushFacts
    <3>4. queue_count' >= queue_count
      BY <3>3 DEF TypeOK
    <3>5. "B_OK" \in Statuses /\ got' \in Messages \cup {NoMessage}
      BY <3>1 DEF Statuses, TypeOK
    <3> QED BY <1>1, <3>1, <3>3, <3>4, <3>5, LeaveStep
  <2>3. CASE ~closed /\ ~HasRoom
    BY <1>1, <1>3, <2>3, AgainStep DEF WriterAgain
  <2> QED BY <2>1, <2>2, <2>3
<1>4. CASE ReaderAgain(t)
  <2>1. CASE queue_count > 0
    <3>1. Fetch(op[t]) /\ LeaveLoop(t, "B_OK") /\ pc[t] = "token"
      BY <1>4, <2>1 DEF ReaderAgain
    <3>2. /\ QueueOK'
          /\ queue_count' \in {queue_count, queue_count - 1}
          /\ got' \in Messages
          /\ writerSem' = writerSem
          /\ \/ readerSem' = readerSem + writerWaitCount
             \/ readerSem' = readerSem /\ queue_count' = queue_count
      BY <2>1, <3>1, FetchFacts
    <3>3. /\ queue_count' <= queue_count
          /\ queue_count' = queue_count => queue_count' >= queue_count
      BY <3>2 DEF TypeOK
    <3>4. "B_OK" \in Statuses
      BY DEF Statuses
    <3> QED BY <1>1, <3>1, <3>2, <3>3, <3>4, LeaveStep
  <2>2. CASE queue_count = 0 /\ closed
    BY <1>2, <1>4, <2>2 DEF ReaderAgain, Statuses
  <2>3. CASE queue_count = 0 /\ ~closed
    BY <1>1, <1>4, <2>3, AgainStep DEF ReaderAgain
  <2> QED BY <2>1, <2>2, <2>3 DEF TypeOK
<1>5. CASE GiveUp(t)
  BY <1>2, <1>5 DEF GiveUp, queueVars, Statuses
<1> QED BY <1>3, <1>4, <1>5 DEF Resume

\* Every step of the port preserves the invariant.
LEMMA NextInv == IInv /\ [Next]_vars => IInv'
<1> SUFFICES ASSUME IInv, [Next]_vars PROVE IInv' OBVIOUS
<1>1. CASE UNCHANGED vars
  BY <1>1 DEF vars, IInv, TypeOK, WaitCountsExact, NoStrandedWaiter,
              RefsAccounted, Readers, Writers
<1>2. ASSUME NEW t \in Threads,
             \/ create_port_for_local(t)
             \/ \E u \in Threads : open_port_by_source(t, u)
             \/ delete_port(t)
             \/ close_port(t)
      PROVE  IInv'
  BY <1>2, LifeSteps, CloseStep
<1>3. ASSUME NEW t \in Threads, NEW m \in Messages, NEW w \in Timeouts,
             write_port_etc(t, m, w)
      PROVE  IInv'
  BY <1>3, WriteStep
<1>4. ASSUME NEW t \in Threads, NEW w \in Timeouts,
             read_port_etc(t, w) \/ port_buffer_size_etc(t, w)
      PROVE  IInv'
  BY <1>4, ReadStep DEF read_port_etc, port_buffer_size_etc
<1>5. ASSUME NEW t \in Threads, TakeToken(t) \/ Expire(t) \/ Resume(t)
      PROVE  IInv'
  BY <1>5, AcquireSteps, ResumeSteps
<1> QED BY <1>1, <1>2, <1>3, <1>4, <1>5 DEF Next

\* The invariant holds for any number of threads, messages and slots.
THEOREM PortInvariant == Spec => []IInv
  BY InitInv, NextInv, PTL DEF Spec

\* The queue stays within its slots and holds messages only.
THEOREM PortTypeOK == Spec => []TypeOK
  BY PortInvariant, PTL DEF IInv

\* The wait counts are the numbers of calls inside the waiting loops.
THEOREM WaitersAreCounted == Spec => []WaitCountsExact
  BY PortInvariant, PTL DEF IInv

\* While there is a message there is a token for every reader that waits, and
\* while there is room one for every writer.
THEOREM NobodyIsStranded == Spec => []NoStrandedWaiter
  BY PortInvariant, PTL DEF IInv

\* The port is freed with its last reference and nobody inside.
THEOREM PortRefs == Spec => []RefsAccounted
  BY PortInvariant, PTL DEF IInv

-----------------------------------------------------------------------------
(* The bounded queue *)

\* The messages in the queue form a sequence of length queue_count.
LEMMA QueueIsSeq ==
    ASSUME TypeOK
    PROVE  Queue \in Seq(Messages) /\ Len(Queue) = queue_count
<1>1. queue_count \in Nat /\ queue_count <= Capacity /\ Capacity \in Nat
  BY PortAssumption DEF TypeOK, PortAssumption
<1> QED BY <1>1 DEF Queue, TypeOK

\* Writing at queue_count appends.
LEMMA PushIsPut ==
    ASSUME TypeOK, HasRoom, ~closed, NEW m \in Messages, Push(m),
           UNCHANGED <<closed, got>>
    PROVE  Abstract!Next
<1>1. Queue \in Seq(Messages) /\ Len(Queue) = queue_count
  BY QueueIsSeq
<1>2. queue_count \in Nat /\ queue_count + 1 \in 1..Capacity
  BY PortAssumption DEF TypeOK, PortAssumption, HasRoom
<1>3. Queue' = [i \in 1..(queue_count + 1) |-> slots'[i]]
  BY DEF Queue, Push
<1>4. \A i \in 1..(queue_count + 1) :
          slots'[i] = IF i = queue_count + 1 THEN m ELSE slots[i]
  BY <1>2, PortAssumption DEF Push, TypeOK, PortAssumption
<1>5. Append(Queue, m) =
        [i \in 1..(queue_count + 1) |-> IF i = queue_count + 1 THEN m
                                                               ELSE slots[i]]
  BY <1>1, <1>2 DEF Queue
<1>6. Queue' = Append(Queue, m)
  BY <1>3, <1>4, <1>5
<1>7. Abstract!Put(m)
  BY <1>1, <1>6 DEF Abstract!Put, HasRoom
<1> QED BY <1>7 DEF Abstract!Next

\* The memmove takes the head off.
LEMMA FetchIsGet ==
    ASSUME TypeOK, queue_count > 0, NEW o, Fetch(o), UNCHANGED closed
    PROVE  Abstract!Next
<1>1. Queue \in Seq(Messages) /\ Len(Queue) = queue_count
  BY QueueIsSeq
<1>2. queue_count \in Nat /\ queue_count \in 1..Capacity
  BY PortAssumption DEF TypeOK, PortAssumption
<1>3. Queue # <<>> /\ Head(Queue) = slots[1]
  BY <1>1, <1>2 DEF Queue
<1>4. CASE o = "read"
  <2>1. /\ got' = slots[1]
        /\ queue_count' = queue_count - 1
        /\ slots' = [i \in 1..Capacity |->
                        IF i < queue_count THEN slots[i + 1] ELSE slots[i]]
    BY <1>4 DEF Fetch, Shift
  <2>2. Queue' = [i \in 1..(queue_count - 1) |-> slots'[i]]
    BY <2>1 DEF Queue
  <2>3. \A i \in 1..(queue_count - 1) : slots'[i] = slots[i + 1]
    BY <1>2, <2>1, PortAssumption DEF PortAssumption
  <2>4. Tail(Queue) = [i \in 1..(queue_count - 1) |-> slots[i + 1]]
    BY <1>1, <1>2, <1>3 DEF Queue
  <2>5. Queue' = Tail(Queue)
    BY <2>2, <2>3, <2>4
  <2> QED BY <1>3, <2>1, <2>5 DEF Abstract!Next, Abstract!Get
<1>5. CASE o # "read"
  <2>1. got' = slots[1] /\ Queue' = Queue
    BY <1>5 DEF Fetch, Queue
  <2> QED BY <1>3, <2>1 DEF Abstract!Next, Abstract!Look
<1> QED BY <1>4, <1>5

\* The port implements the bounded queue.
THEOREM PortRefinement == Spec => ImplementsBoundedFifo
<1>1. Init => Abstract!Init
  BY DEF Init, Abstract!Init, Queue
<1>2. IInv /\ [Next]_vars => [Abstract!Next]_Abstract!vars
  <2> SUFFICES ASSUME IInv, [Next]_vars
               PROVE  [Abstract!Next]_Abstract!vars
    OBVIOUS
  <2> USE DEF IInv
  <2>1. ASSUME UNCHANGED <<slots, queue_count, closed, got>>
        PROVE  [Abstract!Next]_Abstract!vars
    BY <2>1 DEF Abstract!vars, Queue
  <2>2. CASE UNCHANGED vars
    BY <2>1, <2>2 DEF vars
  <2>3. ASSUME NEW t \in Threads,
               \/ create_port_for_local(t)
               \/ \E u \in Threads : open_port_by_source(t, u)
               \/ delete_port(t)
               \/ TakeToken(t)
               \/ Expire(t)
               \/ GiveUp(t)
        PROVE  [Abstract!Next]_Abstract!vars
    BY <2>1, <2>3 DEF create_port_for_local, open_port_by_source, delete_port,
                      TakeToken, Expire, GiveUp, queueVars
  <2>4. ASSUME NEW t \in Threads, close_port(t)
        PROVE  [Abstract!Next]_Abstract!vars
    <3>1. CASE closed
      BY <2>1, <2>4, <3>1 DEF close_port
    <3>2. CASE ~closed
      BY <2>4, <3>2 DEF close_port, Queue, Abstract!Next, Abstract!Shut
    <3> QED BY <3>1, <3>2
  <2>5. ASSUME NEW t \in Threads, NEW m \in Messages, NEW w \in Timeouts,
               write_port_etc(t, m, w)
        PROVE  [Abstract!Next]_Abstract!vars
    <3>1. CASE ~closed /\ HasRoom /\ Push(m) /\ UNCHANGED got
      BY <2>5, <3>1, PushIsPut DEF write_port_etc
    <3>2. CASE UNCHANGED <<slots, queue_count, got>>
      BY <2>1, <2>5, <3>2 DEF write_port_etc
    <3> QED BY <2>5, <3>1, <3>2 DEF write_port_etc, Write, Refused, StartWaiting
  <2>6. ASSUME NEW t \in Threads, NEW o \in {"read", "peek"},
               NEW w \in Timeouts, UNCHANGED closed,
               Refused("B_BAD_VALUE") \/ Read(t, o, w)
        PROVE  [Abstract!Next]_Abstract!vars
    <3>1. CASE queue_count > 0 /\ Fetch(o)
      BY <2>6, <3>1, FetchIsGet
    <3>2. CASE UNCHANGED <<slots, queue_count, got>>
      BY <2>1, <2>6, <3>2
    <3> QED BY <2>6, <3>1, <3>2 DEF Read, Refused, StartWaiting
  <2>7. ASSUME NEW t \in Threads, WriterAgain(t)
        PROVE  [Abstract!Next]_Abstract!vars
    <3>1. CASE ~closed /\ HasRoom
      <4>1. msg[t] \in Messages
        BY <2>7 DEF WriterAgain, TypeOK, Writers
      <4> QED BY <2>7, <3>1, <4>1, PushIsPut DEF WriterAgain
    <3>2. CASE closed \/ ~HasRoom
      BY <2>1, <2>7, <3>2 DEF WriterAgain, WaitAgain
    <3> QED BY <3>1, <3>2
  <2>8. ASSUME NEW t \in Threads, ReaderAgain(t)
        PROVE  [Abstract!Next]_Abstract!vars
    <3>1. CASE queue_count > 0
      BY <2>8, <3>1, FetchIsGet DEF ReaderAgain
    <3>2. CASE ~(queue_count > 0)
      BY <2>1, <2>8, <3>2 DEF ReaderAgain, WaitAgain
    <3> QED BY <3>1, <3>2
  <2>9. ASSUME NEW t \in Threads, NEW w \in Timeouts,
               read_port_etc(t, w) \/ port_buffer_size_etc(t, w)
        PROVE  [Abstract!Next]_Abstract!vars
    BY <2>6, <2>9 DEF read_port_etc, port_buffer_size_etc
  <2> QED BY <2>2, <2>3, <2>4, <2>5, <2>7, <2>8, <2>9 DEF Next, Resume
<1> QED
  BY <1>1, <1>2, PortInvariant, PTL
     DEF Spec, ImplementsBoundedFifo, Abstract!Spec
====
