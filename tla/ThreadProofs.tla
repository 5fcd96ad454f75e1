---- MODULE ThreadProofs ----
(***************************************************************************)
(* Proofs about Thread for any number of clients and references, any         *)
(* results, any number of exit callbacks and suspensions, with or without    *)
(* failing allocations and spurious wakeups.                                 *)
(*                                                                           *)
(* The argument goes by where the new thread is: that determines how many    *)
(* references it owns to itself, where its callbacks are, and what running   *)
(* and exited say.  With the clients' references it determines whether the   *)
(* object may go.                                                            *)
(***************************************************************************)
EXTENDS Thread, HandlesProofs, SequenceTheorems

\* Where the new thread is: before its function, in it, and after it.
Early == {"none", "born", "asleep", "woken", "starting", "refused"}
Working == {"running", "suspended", "resumed"}
Over == {"exiting", "dropped", "gone"}

\* Where a client has to own a reference.
Inside == {"resuming", "waking", "asleep", "woken", "expired", "joining",
           "joiningGone"}

\* n callbacks, the newest first, and the m references dropped behind them.
Course(n, m) == [i \in 1..(n + m) |-> IF i <= n THEN n + 1 - i ELSE Drop]

\* The first k of the added callbacks, as they ran.
Countdown(k) == [i \in 1..k |-> added + 1 - i]

\* The thread is in the list while it, or a client, refers to it; whoever is
\* inside a call on it does.
RefsAccounted ==
    /\ phase = "listed" <=> own > 0 \/ Owned(refOwner) # {}
    /\ \A c \in Threads : pc[c] \in Inside => Owns(refOwner, c)

\* The object is made and ended by one client at a time.
OneBuilder ==
    /\ \A c \in Threads : pc[c] = "creating" => phase = "created"
    /\ \A c \in Threads : pc[c] \in {"deleting", "reaping"} => phase = "unlisted"
    /\ \A c, d \in Threads :
        /\ pc[c] \in {"creating", "deleting", "reaping"}
        /\ pc[d] \in {"creating", "deleting", "reaping"}
        => c = d

\* The thread's own references, and what it does with the object, follow from
\* where it is.
OwnReferences ==
    /\ child \in Early \cup {"gone"} => own = 0
    /\ child \in Working \cup {"registering", "unregistered"} => own = 1
    /\ phase = "absent" <=> child = "none"
    /\ phase = "freed" => child \in Over

\* The callbacks are in the object until the exit and then with the thread,
\* which runs them down and drops its references behind them.
CallbacksInCourse ==
    /\ exit_callbacks = IF child \in Working THEN Course(added, 1) ELSE <<>>
    /\ leaving = IF child \in {"exiting", "dropped"}
                   THEN Course(added - Len(ran), own) ELSE <<>>
    /\ ran = Countdown(Len(ran))
    /\ Len(ran) <= added
    /\ child \notin Over => Len(ran) = 0
    /\ child \notin Over \cup Working => added = 0
    /\ child = "gone" => Len(ran) = added
    /\ Len(ran) < added /\ child \in Over => own > 0

\* running and exited say where the thread is, unless it started unprompted
\* and create_thread wrote over them.
FieldsFollow ==
    /\ exited => child \in Over
    /\ child \in {"none", "born", "asleep", "woken"} => running = 0
    /\ ~startled =>
        /\ phase = "created" => child \in {"born", "asleep"}
        /\ child \in Over => exited
        /\ child \in {"starting", "refused", "registering", "unregistered",
                      "running"} => running = 1
        /\ child \in {"suspended", "resumed"} => running = 2

\* Whoever joins the thread has seen its exit, and has its value unless it
\* came too late to wait.
JoinersKnow ==
    \A c \in Threads :
        /\ pc[c] \in {"joining", "joiningGone"} => exited
        /\ pc[c] = "joining" => result[c] = tstatus

IInv ==
    /\ TypeOK
    /\ RefsAccounted
    /\ OneBuilder
    /\ OwnReferences
    /\ CallbacksInCourse
    /\ FieldsFollow
    /\ JoinersKnow

-----------------------------------------------------------------------------
(* Callbacks in course *)

\* A course is a sequence of callbacks and drops.
LEMMA CourseType ==
    ASSUME NEW n \in 0..MaxCallbacks, NEW m \in Nat
    PROVE  /\ Course(n, m) \in Seq(Callbacks \cup {Drop})
           /\ Len(Course(n, m)) = n + m
           /\ \A i \in 1..(n + m) :
                Course(n, m)[i] = IF i <= n THEN n + 1 - i ELSE Drop
<1> USE ThreadAssumption DEF ThreadAssumption, Callbacks, Drop, Course
<1>1. \A i \in 1..(n + m) :
        (IF i <= n THEN n + 1 - i ELSE 0) \in (1..MaxCallbacks) \cup {0}
  OBVIOUS
<1>2. n + m \in Nat
  OBVIOUS
<1> QED BY <1>1, <1>2

\* The first part of it, for those who need no more.
LEMMA CourseInSeq ==
    ASSUME NEW n \in 0..MaxCallbacks, NEW m \in Nat
    PROVE  Course(n, m) \in Seq(Callbacks \cup {Drop})
BY CourseType

\* Nothing is left of an empty course; one drop is a course.
LEMMA ShortCourses == Course(0, 0) = <<>> /\ Course(0, 1) = <<Drop>>
<1>1. Course(0, 0) = <<>>
  BY DEF Course
<1>2. Course(0, 1) = <<Drop>>
  BY DEF Course
<1> QED BY <1>1, <1>2

\* The callbacks come first, the newest of them at the head.
LEMMA CourseHead ==
    ASSUME NEW n \in 0..MaxCallbacks, NEW m \in Nat, n + m > 0
    PROVE  /\ Course(n, m) # <<>>
           /\ Head(Course(n, m)) = IF n > 0 THEN n ELSE Drop
           /\ n > 0 => Tail(Course(n, m)) = Course(n - 1, m)
           /\ n = 0 => Tail(Course(n, m)) = Course(0, m - 1)
<1> USE ThreadAssumption DEF ThreadAssumption
<1> DEFINE C == Course(n, m)
<1>1. /\ C \in Seq(Callbacks \cup {Drop})
      /\ Len(C) = n + m
      /\ \A i \in 1..(n + m) : C[i] = IF i <= n THEN n + 1 - i ELSE Drop
  BY CourseType
<1>2. C # <<>>
  BY <1>1, EmptySeq
<1>3. Head(C) = C[1]
  BY <1>1, <1>2
<1>4. Head(C) = IF n > 0 THEN n ELSE Drop
  BY <1>1, <1>3
<1>5. /\ Tail(C) \in Seq(Callbacks \cup {Drop})
      /\ Len(Tail(C)) = n + m - 1
      /\ \A i \in 1..(n + m - 1) : Tail(C)[i] = C[i + 1]
  BY <1>1, <1>2, HeadTailProperties
<1>6. ASSUME n > 0 PROVE Tail(C) = Course(n - 1, m)
  <2> DEFINE D == Course(n - 1, m)
  <2>1. /\ D \in Seq(Callbacks \cup {Drop})
        /\ Len(D) = n + m - 1
        /\ \A i \in 1..(n + m - 1) : D[i] = IF i <= n - 1 THEN n - i ELSE Drop
    <3>1. n - 1 \in 0..MaxCallbacks /\ (n - 1) + m = n + m - 1
      BY <1>6
    <3>2. /\ D \in Seq(Callbacks \cup {Drop})
          /\ Len(D) = (n - 1) + m
          /\ \A i \in 1..((n - 1) + m) :
                D[i] = IF i <= n - 1 THEN (n - 1) + 1 - i ELSE Drop
      BY <3>1, CourseType
    <3> QED BY <3>1, <3>2
  <2>2. \A i \in 1..(n + m - 1) : Tail(C)[i] = D[i]
    BY <1>1, <1>5, <1>6, <2>1
  <2> HIDE DEF C, D
  <2>3. Tail(C) = D
    BY <1>5, <2>1, <2>2, SeqEqual
  <2> QED BY <2>3 DEF D
<1>7. ASSUME n = 0 PROVE Tail(C) = Course(0, m - 1)
  <2> DEFINE D == Course(0, m - 1)
  <2>1. /\ D \in Seq(Callbacks \cup {Drop})
        /\ Len(D) = n + m - 1
        /\ \A i \in 1..(n + m - 1) : D[i] = Drop
    <3>1. 0 \in 0..MaxCallbacks /\ m - 1 \in Nat
      BY <1>7, ThreadAssumption DEF ThreadAssumption
    <3>2. /\ D \in Seq(Callbacks \cup {Drop})
          /\ Len(D) = 0 + (m - 1)
          /\ \A i \in 1..(0 + (m - 1)) :
                D[i] = IF i <= 0 THEN 0 + 1 - i ELSE Drop
      BY <3>1, CourseType
    <3>3. 0 + (m - 1) = n + m - 1
      BY <1>7
    <3> QED BY <3>2, <3>3
  <2>2. \A i \in 1..(n + m - 1) : Tail(C)[i] = D[i]
    BY <1>1, <1>5, <1>7, <2>1
  <2> HIDE DEF C, D
  <2>3. Tail(C) = D
    BY <1>5, <2>1, <2>2, SeqEqual
  <2> QED BY <2>3 DEF D
<1> QED BY <1>2, <1>4, <1>6, <1>7

\* on_exit_thread puts the newest callback in front.
LEMMA CoursePush ==
    ASSUME NEW n \in 0..MaxCallbacks, n + 1 <= MaxCallbacks, NEW m \in Nat
    PROVE  <<n + 1>> \o Course(n, m) = Course(n + 1, m)
<1> USE ThreadAssumption DEF ThreadAssumption
<1> DEFINE C == Course(n, m)
           D == Course(n + 1, m)
           E == <<n + 1>> \o C
           S == Callbacks \cup {Drop}
<1>1. /\ C \in Seq(S)
      /\ Len(C) = n + m
      /\ \A i \in 1..(n + m) : C[i] = IF i <= n THEN n + 1 - i ELSE Drop
  BY CourseType
<1>2. /\ D \in Seq(S)
      /\ Len(D) = n + 1 + m
      /\ \A i \in 1..(n + 1 + m) : D[i] = IF i <= n + 1 THEN n + 2 - i ELSE Drop
  BY CourseType
<1>3. <<n + 1>> \in Seq(S) /\ Len(<<n + 1>>) = 1 /\ <<n + 1>>[1] = n + 1
  BY DEF Callbacks
<1>4. /\ E \in Seq(S)
      /\ Len(E) = 1 + (n + m)
      /\ \A i \in 1..(1 + (n + m)) :
            E[i] = IF i <= 1 THEN <<n + 1>>[i] ELSE C[i - 1]
  BY <1>1, <1>3, ConcatProperties
<1>5. \A i \in 1..(n + 1 + m) : E[i] = D[i]
  BY <1>1, <1>2, <1>3, <1>4
<1> HIDE DEF C, D, E, S
<1>6. Len(E) = Len(D)
  BY <1>2, <1>4
<1>7. E = D
  BY <1>2, <1>4, <1>5, <1>6, SeqEqual
<1> QED BY <1>7 DEF C, D, E

\* b_exit_thread has one more reference to drop, behind all the callbacks.
LEMMA CourseAppend ==
    ASSUME NEW n \in 0..MaxCallbacks
    PROVE  Append(Course(n, 1), Drop) = Course(n, 2)
<1> USE ThreadAssumption DEF ThreadAssumption
<1> DEFINE C == Course(n, 1)
           D == Course(n, 2)
           E == Append(C, Drop)
           S == Callbacks \cup {Drop}
<1>1. /\ C \in Seq(S)
      /\ Len(C) = n + 1
      /\ \A i \in 1..(n + 1) : C[i] = IF i <= n THEN n + 1 - i ELSE Drop
  BY CourseType
<1>2. /\ D \in Seq(S)
      /\ Len(D) = n + 2
      /\ \A i \in 1..(n + 2) : D[i] = IF i <= n THEN n + 1 - i ELSE Drop
  BY CourseType
<1>3. /\ E \in Seq(S)
      /\ Len(E) = n + 1 + 1
      /\ \A i \in 1..(n + 1) : E[i] = C[i]
      /\ E[n + 1 + 1] = Drop
  BY <1>1, AppendProperties
<1>4. \A i \in 1..(n + 2) : E[i] = D[i]
  BY <1>1, <1>2, <1>3
<1> HIDE DEF C, D, E, S
<1>5. E = D
  BY <1>2, <1>3, <1>4, SeqEqual
<1> QED BY <1>5 DEF C, D, E

\* The next callback to run extends the countdown.
LEMMA CountdownStep ==
    ASSUME added \in 0..MaxCallbacks, NEW k \in Nat, k < added
    PROVE  /\ Countdown(k) \in Seq(Callbacks)
           /\ Len(Countdown(k)) = k
           /\ Append(Countdown(k), added - k) = Countdown(k + 1)
           /\ Countdown(k + 1) \in Seq(Callbacks)
           /\ Len(Countdown(k + 1)) = k + 1
<1> USE ThreadAssumption DEF ThreadAssumption
<1>1. ASSUME NEW j \in Nat, j <= added
      PROVE  /\ Countdown(j) \in Seq(Callbacks)
             /\ Len(Countdown(j)) = j
             /\ \A i \in 1..j : Countdown(j)[i] = added + 1 - i
  BY <1>1 DEF Countdown, Callbacks
<1> DEFINE C == Countdown(k)
           D == Countdown(k + 1)
           E == Append(C, added - k)
<1>2. /\ C \in Seq(Callbacks) /\ Len(C) = k
      /\ \A i \in 1..k : C[i] = added + 1 - i
  BY <1>1
<1>3. /\ D \in Seq(Callbacks) /\ Len(D) = k + 1
      /\ \A i \in 1..(k + 1) : D[i] = added + 1 - i
  BY <1>1
<1>4. added - k \in Callbacks
  BY DEF Callbacks
<1>5. /\ E \in Seq(Callbacks)
      /\ Len(E) = k + 1
      /\ \A i \in 1..k : E[i] = C[i]
      /\ E[k + 1] = added - k
  BY <1>2, <1>4, AppendProperties
<1>6. \A i \in 1..(k + 1) : E[i] = D[i]
  BY <1>2, <1>3, <1>5
<1> HIDE DEF C, D, E
<1>7. E = D
  BY <1>3, <1>5, <1>6, SeqEqual
<1> QED BY <1>2, <1>3, <1>7 DEF C, D, E

-----------------------------------------------------------------------------
(* Frames *)

\* A step at which clients at most wake up.
Stirred ==
    /\ pc' \in [Threads -> {"idle", "creating", "resuming", "waking", "asleep",
                            "woken", "expired", "joining", "joiningGone", "dropped",
                            "deleting", "reaping"}]
    /\ \A c \in Threads :
        pc'[c] = pc[c] \/ (pc[c] = "asleep" /\ pc'[c] = "woken")

\* pthread_cond_broadcast does no more to the clients.
LEMMA Broadcast ==
    ASSUME TypeOK, pc' = pc \/ pc' = WokenClients(pc)
    PROVE  Stirred
  BY DEF TypeOK, Stirred, WokenClients

\* What a step of the thread has to respect to leave its clients as they are.
LEMMA ClientsFrame ==
    ASSUME IInv, Stirred, UNCHANGED <<refOwner, result>>,
           phase' = phase \/ phase = "listed",
           phase' = "listed" <=> own' > 0 \/ Owned(refOwner) # {},
           exited => exited' /\ tstatus' = tstatus
    PROVE  RefsAccounted' /\ OneBuilder' /\ JoinersKnow'
<1> USE DEF IInv, Stirred
<1>1. RefsAccounted'
  BY DEF RefsAccounted, Inside, Owned, Owns
<1>2. OneBuilder'
  BY DEF OneBuilder
<1>3. JoinersKnow'
  BY DEF JoinersKnow
<1> QED BY <1>1, <1>2, <1>3

\* A client that owns a reference is one of a thread in the list.
LEMMA OwnersListed ==
    ASSUME IInv, NEW c \in Threads, Owns(refOwner, c)
    PROVE  phase = "listed" /\ Owned(refOwner) # {}
<1>1. Owned(refOwner) # {}
  BY HandlesAssumption DEF Owns, Owned, HandlesAssumption
<1> QED BY <1>1 DEF IInv, RefsAccounted

\* UnrefThread finds no references left exactly if there are none.
LEMMA LastReference ==
    ASSUME NEW n \in Nat, NEW table
    PROVE  Last(n + Cardinality(Owned(table))) <=> n = 0 /\ Owned(table) = {}
<1> DEFINE k == Cardinality(Owned(table))
<1>1. k \in Nat /\ (Owned(table) = {} <=> k = 0)
  BY OwnedFinite
<1> HIDE DEF k
<1>2. n + k = 0 <=> n = 0 /\ k = 0
  BY <1>1
<1> QED BY <1>1, <1>2 DEF Last, k

-----------------------------------------------------------------------------
(* The invariant *)

\* Initially there is no thread.
LEMMA InitInv == Init => IInv
<1> SUFFICES ASSUME Init PROVE IInv OBVIOUS
<1> USE ThreadAssumption, HandlesAssumption
        DEF Init, ThreadAssumption, HandlesAssumption
<1>1. refOwner \in Tables /\ Owned(refOwner) = {}
  BY NoRefsOwned
<1>2. TypeOK
  <2>1. /\ exit_callbacks \in Seq(Callbacks \cup {Drop})
        /\ leaving \in Seq(Callbacks \cup {Drop})
        /\ ran \in Seq(Callbacks)
    OBVIOUS
  <2>2. /\ pc \in [Threads -> {"idle", "creating", "resuming", "waking",
                               "asleep", "woken", "expired", "joining", "joiningGone",
                               "dropped", "deleting", "reaping"}]
        /\ timeout \in [Threads -> Timeouts]
        /\ result \in [Threads -> Results \cup {InitialStatus, Unwritten}]
        /\ status \in Statuses
        /\ child \in Places
    BY DEF Timeouts, Statuses, Places
  <2>3. /\ running \in 0..2 /\ own \in 0..2
        /\ added \in 0..MaxCallbacks /\ suspends \in 0..MaxSuspends
    OBVIOUS
  <2> QED BY <1>1, <2>1, <2>2, <2>3 DEF TypeOK
<1>3. RefsAccounted /\ OneBuilder /\ JoinersKnow
  BY <1>1 DEF RefsAccounted, Inside, OneBuilder, JoinersKnow
<1>4. OwnReferences /\ FieldsFollow
  BY DEF OwnReferences, FieldsFollow, Early, Working, Over
<1>5. CallbacksInCourse
  <2>1. Countdown(0) = <<>>
    BY DEF Countdown
  <2>2. Len(<<>>) = 0
    OBVIOUS
  <2> QED BY <2>1, <2>2 DEF CallbacksInCourse, Working, Over
<1> QED BY <1>2, <1>3, <1>4, <1>5 DEF IInv

\* Steps of the new thread up to its function.
LEMMA StartInv ==
    ASSUME IInv,
           \/ WaitForStart \/ Start \/ TakeOwnReference \/ Refused \/ Register
           \/ Unregistered
    PROVE  IInv'
<1> USE ThreadAssumption DEF IInv, ThreadAssumption
<1>1. CASE WaitForStart
  <2>1. TypeOK'
    BY <1>1 DEF WaitForStart, object, clients, history, TypeOK, Places
  <2>2. RefsAccounted' /\ OneBuilder' /\ JoinersKnow'
    BY <1>1, ClientsFrame, Broadcast
       DEF WaitForStart, object, clients, RefsAccounted
  <2>3. OwnReferences' /\ FieldsFollow'
    BY <1>1 DEF WaitForStart, object, history, OwnReferences, FieldsFollow,
                Early, Working, Over
  <2>4. CallbacksInCourse'
    BY <1>1 DEF WaitForStart, object, history, CallbacksInCourse, Working, Over,
                Course, Countdown
  <2> QED BY <2>1, <2>2, <2>3, <2>4
<1>2. CASE Start
  <2>1. UNCHANGED <<phase, tstatus, exit_callbacks, refOwner, own, leaving,
                    timeout, status, result, startled, added, ran, suspends>>
    BY <1>2 DEF Start, history
  <2>2. TypeOK'
    <3>1. Stirred
      BY <1>2, Broadcast DEF Start
    <3>2. /\ func' = FALSE \/ func' = func
          /\ exited' = TRUE \/ exited' = exited
          /\ running' \in 0..2
          /\ child' \in Places
      BY <1>2 DEF Start, TypeOK, Places
    <3>3. func' \in BOOLEAN /\ exited' \in BOOLEAN
      BY <3>2 DEF TypeOK
    <3> QED BY <2>1, <3>1, <3>2, <3>3 DEF TypeOK, Stirred
  <2>3. RefsAccounted' /\ OneBuilder' /\ JoinersKnow'
    BY <1>2, <2>1, ClientsFrame, Broadcast DEF Start, RefsAccounted
  <2>4. OwnReferences' /\ FieldsFollow'
    BY <1>2, <2>1 DEF Start, OwnReferences, FieldsFollow, Early, Working, Over
  <2>5. CallbacksInCourse'
    BY <1>2, <2>1 DEF Start, CallbacksInCourse, Working, Over, Course, Countdown
  <2> QED BY <2>2, <2>3, <2>4, <2>5
<1>3. CASE TakeOwnReference
  <2>1. UNCHANGED <<phase, running, exited, tstatus, func, exit_callbacks,
                    refOwner, leaving, pc, timeout, status, result, startled,
                    added, ran, suspends>>
    BY <1>3 DEF TakeOwnReference, clients, history
  <2>2. TypeOK'
    BY <1>3, <2>1 DEF TakeOwnReference, TypeOK, Places, OwnReferences, Early
  <2>3. RefsAccounted' /\ OneBuilder' /\ JoinersKnow'
    BY <1>3, <2>1, ClientsFrame, Broadcast
       DEF TakeOwnReference, RefThread, RefsAccounted, OwnReferences, Early
  <2>4. OwnReferences' /\ FieldsFollow'
    BY <1>3, <2>1
       DEF TakeOwnReference, OwnReferences, FieldsFollow, Early, Working, Over
  <2>5. CallbacksInCourse'
    BY <1>3, <2>1
       DEF TakeOwnReference, CallbacksInCourse, Working, Over, Course, Countdown
  <2> QED BY <2>2, <2>3, <2>4, <2>5
<1>4. CASE Refused
  <2>1. UNCHANGED <<phase, running, tstatus, func, exit_callbacks, refOwner, own,
                    leaving, timeout, status, result, startled, added, ran,
                    suspends>>
    BY <1>4 DEF Refused, history
  <2>2. TypeOK'
    BY <1>4, <2>1 DEF Refused, WokenClients, TypeOK, Places
  <2>3. RefsAccounted' /\ OneBuilder' /\ JoinersKnow'
    BY <1>4, <2>1, ClientsFrame, Broadcast DEF Refused, RefsAccounted
  <2>4. OwnReferences' /\ FieldsFollow'
    BY <1>4, <2>1 DEF Refused, OwnReferences, FieldsFollow, Early, Working, Over
  <2>5. CallbacksInCourse'
    BY <1>4, <2>1 DEF Refused, CallbacksInCourse, Working, Over, Course, Countdown
  <2> QED BY <2>2, <2>3, <2>4, <2>5
<1>5. CASE Register
  <2>1. UNCHANGED <<phase, running, exited, tstatus, func, refOwner, own,
                    leaving, pc, timeout, status, result, startled, added, ran,
                    suspends>>
    BY <1>5 DEF Register, clients, history
  <2>2. /\ child = "registering" /\ exit_callbacks = <<>> /\ added = 0
        /\ \/ child' = "running" /\ exit_callbacks' = Course(0, 1)
           \/ child' = "unregistered" /\ exit_callbacks' = <<>>
    <3>1. child = "registering" /\ exit_callbacks = <<>> /\ added = 0
      BY <1>5 DEF Register, CallbacksInCourse, Working, Over
    <3>2. <<Drop>> \o <<>> = <<Drop>>
      OBVIOUS
    <3> QED BY <1>5, <3>1, <3>2, ShortCourses DEF Register
  <2>3. TypeOK'
    <3>1. exit_callbacks' \in Seq(Callbacks \cup {Drop})
      <4>1. Course(0, 1) \in Seq(Callbacks \cup {Drop})
        BY CourseInSeq
      <4>2. <<>> \in Seq(Callbacks \cup {Drop})
        OBVIOUS
      <4> QED BY <2>2, <4>1, <4>2
    <3> QED BY <2>1, <2>2, <3>1 DEF TypeOK, Places
  <2>4. RefsAccounted' /\ OneBuilder' /\ JoinersKnow'
    BY <2>1, ClientsFrame, Broadcast DEF RefsAccounted
  <2>5. OwnReferences' /\ FieldsFollow'
    BY <2>1, <2>2 DEF OwnReferences, FieldsFollow, Early, Working, Over
  <2>6. CallbacksInCourse'
    BY <2>1, <2>2 DEF CallbacksInCourse, Working, Over, Countdown
  <2> QED BY <2>3, <2>4, <2>5, <2>6
<1>6. CASE Unregistered
  <2>1. UNCHANGED <<phase, tstatus, func, refOwner, own, timeout, status, result,
                    startled, added, ran, suspends>>
    BY <1>6 DEF Unregistered, history
  <2>2. /\ child = "unregistered" /\ child' = "exiting"
        /\ own = 1 /\ added = 0 /\ Len(ran) = 0
        /\ running' = 0 /\ exited' = TRUE
        /\ exit_callbacks' = <<>>
        /\ leaving' = <<Drop>>
        /\ pc' = WokenClients(pc)
    BY <1>6 DEF Unregistered, CallbacksInCourse, OwnReferences, Working, Over
  <2>3. TypeOK'
    <3>1. /\ exit_callbacks' \in Seq(Callbacks \cup {Drop})
          /\ leaving' \in Seq(Callbacks \cup {Drop})
      BY <2>2
    <3>2. Stirred
      BY <2>2, Broadcast
    <3> QED BY <2>1, <2>2, <3>1, <3>2 DEF TypeOK, Places, Stirred
  <2>4. RefsAccounted' /\ OneBuilder' /\ JoinersKnow'
    BY <2>1, <2>2, ClientsFrame, Broadcast DEF RefsAccounted
  <2>5. OwnReferences' /\ FieldsFollow'
    BY <2>1, <2>2 DEF OwnReferences, FieldsFollow, Early, Working, Over
  <2>6. CallbacksInCourse'
    BY <2>1, <2>2, ShortCourses DEF CallbacksInCourse, Working, Over, Countdown
  <2> QED BY <2>3, <2>4, <2>5, <2>6
<1> QED BY <1>1, <1>2, <1>3, <1>4, <1>5, <1>6

\* What the thread's function may do, and its return.
LEMMA FunctionInv ==
    ASSUME IInv,
           \/ \E f \in Callbacks : on_exit_thread(f)
           \/ b_suspend_thread \/ Resumed
           \/ \E r \in Results : ReturnFromFunction(r) \/ b_exit_thread(r)
    PROVE  IInv'
<1> USE ThreadAssumption DEF IInv, ThreadAssumption
<1>1. ASSUME NEW f \in Callbacks, on_exit_thread(f) PROVE IInv'
  <2>1. /\ UNCHANGED <<phase, running, exited, tstatus, func, refOwner, own,
                       child, leaving, pc, timeout, status, result, startled,
                       ran, suspends>>
        /\ child = "running"
        /\ f = added + 1 /\ added' = added + 1
        /\ exit_callbacks' = <<added + 1>> \o exit_callbacks
    BY <1>1 DEF on_exit_thread, Accept, thread, clients
  <2>2. added + 1 <= MaxCallbacks
    BY <2>1 DEF Callbacks
  <2>3. exit_callbacks' = Course(added + 1, 1)
    BY <2>1, <2>2, CoursePush DEF CallbacksInCourse, Working, TypeOK
  <2>4. TypeOK'
    <3>1. added + 1 \in 0..MaxCallbacks
      BY <2>2 DEF TypeOK
    <3>2. exit_callbacks' \in Seq(Callbacks \cup {Drop})
      BY <2>3, <3>1, CourseInSeq
    <3> QED BY <2>1, <3>1, <3>2 DEF TypeOK
  <2>5. RefsAccounted' /\ OneBuilder' /\ JoinersKnow'
    BY <2>1, ClientsFrame, Broadcast DEF RefsAccounted
  <2>6. OwnReferences' /\ FieldsFollow'
    BY <2>1 DEF OwnReferences, FieldsFollow
  <2>7. CallbacksInCourse'
    <3>1. Len(ran) = 0
      BY <2>1 DEF CallbacksInCourse, Over
    <3>2. Countdown(0) = <<>> /\ Countdown(0)' = <<>>
      BY DEF Countdown
    <3> QED
      BY <2>1, <2>3, <3>1, <3>2 DEF CallbacksInCourse, Working, Over, TypeOK
  <2> QED BY <2>4, <2>5, <2>6, <2>7
<1>2. CASE b_suspend_thread \/ Resumed
  <2>1. /\ UNCHANGED <<phase, exited, tstatus, func, exit_callbacks, refOwner,
                       own, leaving, pc, timeout, status, result, startled,
                       added, ran>>
        /\ \/ child = "running" /\ child' = "suspended" /\ running' = 2
           \/ child = "resumed" /\ child' = "running" /\ running' = 1
        /\ suspends' \in 0..MaxSuspends
    BY <1>2 DEF b_suspend_thread, Resumed, clients, history, TypeOK
  <2>2. TypeOK'
    BY <2>1 DEF TypeOK, Places
  <2>3. RefsAccounted' /\ OneBuilder' /\ JoinersKnow'
    BY <2>1, ClientsFrame, Broadcast DEF RefsAccounted
  <2>4. OwnReferences' /\ FieldsFollow'
    BY <2>1 DEF OwnReferences, FieldsFollow, Early, Working, Over
  <2>5. CallbacksInCourse'
    BY <2>1 DEF CallbacksInCourse, Working, Over, Course, Countdown
  <2> QED BY <2>2, <2>3, <2>4, <2>5
<1>3. ASSUME NEW r \in Results, ReturnFromFunction(r) \/ b_exit_thread(r)
      PROVE  IInv'
  <2>1. /\ UNCHANGED <<phase, func, refOwner, timeout, status, result, startled,
                       added, ran, suspends>>
        /\ child = "running" /\ child' = "exiting"
        /\ running' = 0 /\ exited' = TRUE /\ tstatus' = r
        /\ exit_callbacks' = <<>>
        /\ pc' = WokenClients(pc)
    BY <1>3 DEF ReturnFromFunction, b_exit_thread, Exit, history
  <2>2. /\ own = 1 /\ own' \in {1, 2}
        /\ leaving' = Course(added, own')
    <3>1. own = 1 /\ exit_callbacks = Course(added, 1) /\ added \in 0..MaxCallbacks
      BY <2>1 DEF OwnReferences, CallbacksInCourse, Working, TypeOK
    <3>2. CASE ReturnFromFunction(r)
      BY <3>1, <3>2 DEF ReturnFromFunction
    <3>3. CASE b_exit_thread(r)
      BY <3>1, <3>3, CourseAppend DEF b_exit_thread
    <3> QED BY <1>3, <3>2, <3>3
  <2>3. ~exited
    BY <2>1 DEF FieldsFollow, Over
  <2>4. Len(ran) = 0 /\ added - 0 = added
    BY <2>1 DEF CallbacksInCourse, Over, TypeOK
  <2>5. TypeOK'
    <3>1. /\ exit_callbacks' \in Seq(Callbacks \cup {Drop})
          /\ leaving' \in Seq(Callbacks \cup {Drop})
      <4>1. own' \in Nat /\ added \in 0..MaxCallbacks
        BY <2>2 DEF TypeOK
      <4>2. Course(added, own') \in Seq(Callbacks \cup {Drop})
        BY <4>1, CourseInSeq
      <4>3. <<>> \in Seq(Callbacks \cup {Drop})
        OBVIOUS
      <4> QED BY <2>1, <2>2, <4>2, <4>3
    <3>2. Stirred
      BY <2>1, Broadcast
    <3> QED BY <2>1, <2>2, <3>1, <3>2 DEF TypeOK, Places, Stirred
  <2>6. RefsAccounted' /\ OneBuilder' /\ JoinersKnow'
    <3>1. phase = "listed" /\ own' > 0
      BY <2>2 DEF RefsAccounted
    <3> QED BY <2>1, <2>3, <3>1, ClientsFrame, Broadcast
  <2>7. OwnReferences' /\ FieldsFollow'
    BY <2>1 DEF OwnReferences, FieldsFollow, Early, Working, Over
  <2>8. CallbacksInCourse'
    BY <2>1, <2>2, <2>4 DEF CallbacksInCourse, Working, Over, Countdown
  <2> QED BY <2>5, <2>6, <2>7, <2>8
<1> QED BY <1>1, <1>2, <1>3

\* The way out: callbacks, and references dropped behind them.
LEMMA ExitInv ==
    ASSUME IInv, RunCallback \/ DropOwnReference \/ Dropped \/ EndOfThread
    PROVE  IInv'
<1> USE ThreadAssumption DEF IInv, ThreadAssumption
<1> DEFINE n == added - Len(ran)
<1>1. /\ n \in 0..MaxCallbacks
      /\ Len(ran) \in Nat
      /\ own \in Nat
      /\ added \in 0..MaxCallbacks
  BY DEF CallbacksInCourse, TypeOK
<1>2. /\ child \in {"exiting", "dropped"}
      /\ leaving = Course(n, own)
      /\ exit_callbacks = <<>>
    BY DEF RunCallback, DropOwnReference, Dropped, EndOfThread,
           CallbacksInCourse, Working
<1>3. leaving # <<>> <=> n + own > 0
  <2>1. n + own > 0 => leaving # <<>>
    BY <1>1, <1>2, CourseHead
  <2>2. n + own = 0 => leaving = <<>>
    <3>1. n + own = 0 => n = 0 /\ own = 0
      BY <1>1
    <3> QED BY <1>2, <3>1, ShortCourses
  <2> QED BY <1>1, <2>1, <2>2
<1>4. CASE RunCallback
  <2>1. /\ UNCHANGED <<phase, running, exited, tstatus, func, exit_callbacks,
                       refOwner, own, child, pc, timeout, status, result,
                       startled, added, suspends>>
        /\ child = "exiting"
        /\ leaving # <<>> /\ Head(leaving) # Drop
        /\ ran' = Append(ran, Head(leaving))
        /\ leaving' = Tail(leaving)
    BY <1>4 DEF RunCallback, object, clients
  <2>2. n > 0 /\ Head(leaving) = n /\ leaving' = Course(n - 1, own)
    BY <1>1, <1>2, <1>3, <2>1, CourseHead
  <2>3. /\ ran' = Countdown(Len(ran) + 1)
        /\ ran' \in Seq(Callbacks)
        /\ Len(ran') = Len(ran) + 1
    <3>1. Len(ran) < added /\ ran = Countdown(Len(ran))
      BY <1>1, <2>2 DEF CallbacksInCourse
    <3>2. /\ Append(Countdown(Len(ran)), added - Len(ran)) = Countdown(Len(ran) + 1)
          /\ Countdown(Len(ran) + 1) \in Seq(Callbacks)
          /\ Len(Countdown(Len(ran) + 1)) = Len(ran) + 1
      BY <1>1, <3>1, CountdownStep
    <3> QED BY <2>1, <2>2, <3>1, <3>2
  <2>4. n - 1 = added - Len(ran') /\ n - 1 \in 0..MaxCallbacks
    BY <1>1, <2>2, <2>3
  <2>5. TypeOK'
    <3>1. leaving' \in Seq(Callbacks \cup {Drop})
      BY <1>1, <2>2, <2>4, CourseInSeq
    <3> QED BY <2>1, <2>3, <3>1 DEF TypeOK
  <2>6. RefsAccounted' /\ OneBuilder' /\ JoinersKnow'
    BY <2>1, ClientsFrame, Broadcast DEF RefsAccounted
  <2>7. OwnReferences' /\ FieldsFollow'
    BY <2>1 DEF OwnReferences, FieldsFollow
  <2>8. CallbacksInCourse'
    <3>1. own > 0
      BY <1>1, <2>1, <2>2 DEF CallbacksInCourse, Over
    <3>2. Countdown(Len(ran))' = Countdown(Len(ran) + 1)
      BY <2>1, <2>3 DEF Countdown
    <3>3. Len(ran') <= added'
      BY <1>1, <2>1, <2>2, <2>3
    <3> QED
      BY <1>2, <2>1, <2>2, <2>3, <2>4, <3>1, <3>2, <3>3
         DEF CallbacksInCourse, Working, Over
  <2> QED BY <2>5, <2>6, <2>7, <2>8
<1>5. CASE DropOwnReference
  <2>1. /\ UNCHANGED <<running, exited, tstatus, func, exit_callbacks, refOwner,
                       pc, timeout, status, result, startled, added, ran,
                       suspends>>
        /\ child = "exiting"
        /\ leaving # <<>> /\ Head(leaving) = Drop
        /\ leaving' = Tail(leaving)
        /\ own' = own - 1
        /\ IF Last(own' + Cardinality(Owned(refOwner)))
             THEN phase' = "freed" /\ UNCHANGED child
             ELSE child' = "dropped" /\ UNCHANGED phase
    BY <1>5 DEF DropOwnReference, clients, history
  <2>2. n = 0 /\ own > 0 /\ leaving' = Course(0, own - 1)
    <3>1. n + own > 0
      BY <1>3, <2>1
    <3>2. /\ Head(leaving) = IF n > 0 THEN n ELSE Drop
          /\ n = 0 => Tail(leaving) = Course(0, own - 1)
      BY <1>1, <1>2, <3>1, CourseHead
    <3> HIDE DEF n
    <3>3. n = 0 /\ own > 0
      BY <1>1, <2>1, <3>1, <3>2 DEF Drop
    <3> QED BY <2>1, <3>2, <3>3
  <2>3. /\ own' \in 0..2 /\ phase = "listed"
        /\ \/ phase' = "freed" /\ child' = "exiting" /\ own' = 0
              /\ Owned(refOwner) = {}
           \/ phase' = "listed" /\ child' = "dropped"
              /\ (own' > 0 \/ Owned(refOwner) # {})
    <3>1. own' \in 0..2 /\ own' \in Nat /\ phase = "listed"
      BY <2>1, <2>2 DEF TypeOK, RefsAccounted
    <3> QED BY <2>1, <3>1, LastReference
  <2>4. TypeOK'
    <3>1. leaving' \in Seq(Callbacks \cup {Drop})
      <4>1. 0 \in 0..MaxCallbacks /\ own - 1 \in Nat
        BY <1>1, <2>2
      <4>2. Course(0, own - 1) \in Seq(Callbacks \cup {Drop})
        BY <4>1, CourseInSeq
      <4> QED BY <2>2, <4>2
    <3> QED BY <2>1, <2>3, <3>1 DEF TypeOK, Places
  <2>5. RefsAccounted' /\ OneBuilder' /\ JoinersKnow'
    BY <2>1, <2>3, ClientsFrame, Broadcast
  <2>6. OwnReferences' /\ FieldsFollow'
    BY <2>1, <2>3 DEF OwnReferences, FieldsFollow, Early, Working, Over
  <2>7. CallbacksInCourse'
    <3>1. Countdown(Len(ran))' = Countdown(Len(ran))
      BY <2>1 DEF Countdown
    <3> QED
      BY <1>1, <2>1, <2>2, <2>3, <3>1 DEF CallbacksInCourse, Working, Over
  <2> QED BY <2>4, <2>5, <2>6, <2>7
<1>6. CASE Dropped \/ EndOfThread
  <2>1. /\ UNCHANGED <<phase, running, exited, tstatus, func, exit_callbacks,
                       refOwner, own, leaving, pc, timeout, status, result,
                       startled, added, ran, suspends>>
        /\ \/ child = "dropped" /\ child' = "exiting"
           \/ child = "exiting" /\ child' = "gone" /\ leaving = <<>>
    BY <1>6 DEF Dropped, EndOfThread, object, clients, history
  <2>2. child' = "gone" => n = 0 /\ own = 0
    BY <1>1, <1>3, <2>1
  <2>3. TypeOK'
    BY <2>1 DEF TypeOK, Places
  <2>4. RefsAccounted' /\ OneBuilder' /\ JoinersKnow'
    BY <2>1, ClientsFrame, Broadcast DEF RefsAccounted
  <2>5. OwnReferences' /\ FieldsFollow'
    BY <2>1, <2>2 DEF OwnReferences, FieldsFollow, Early, Working, Over
  <2>6. CallbacksInCourse'
    <3>1. Countdown(Len(ran))' = Countdown(Len(ran))
      BY <2>1 DEF Countdown
    <3> QED
      BY <1>1, <1>2, <2>1, <2>2, <3>1
         DEF CallbacksInCourse, Working, Over, Course
  <2> QED BY <2>3, <2>4, <2>5, <2>6
<1> QED BY <1>4, <1>5, <1>6

\* A broadcast wakes the thread, which changes nothing about the object.  Before
\* the thread is in the list nobody prompts it.
LEMMA ObjectFrame ==
    ASSUME IInv,
           UNCHANGED <<phase, running, exited, exit_callbacks, own, leaving,
                       added, ran>>,
           child' = child \/ child' = WokenThread(child),
           startled => startled',
           phase = "created" /\ ~startled' => child' = child
    PROVE  OwnReferences' /\ CallbacksInCourse' /\ FieldsFollow'
<1> USE DEF IInv
<1>1. \/ child' = child
      \/ child = "asleep" /\ child' = "woken"
      \/ child = "suspended" /\ child' = "resumed"
  BY DEF WokenThread
<1>2. OwnReferences' /\ FieldsFollow'
  BY <1>1 DEF OwnReferences, FieldsFollow, Early, Working, Over
<1>3. CallbacksInCourse'
  BY <1>1 DEF CallbacksInCourse, Working, Over, Course, Countdown
<1> QED BY <1>2, <1>3

\* What client c has to respect when it moves on inside its calls.
LEMMA CallFrame ==
    ASSUME IInv, NEW c \in Threads,
           UNCHANGED <<phase, own, refOwner, exited, tstatus>>,
           \A d \in Threads \ {c} :
                /\ pc'[d] = pc[d] \/ (pc[d] = "asleep" /\ pc'[d] = "woken")
                /\ result'[d] = result[d],
           pc'[c] \in Inside => Owns(refOwner, c),
           pc'[c] # "creating",
           pc'[c] \in {"deleting", "reaping"} => pc[c] \in {"deleting", "reaping"},
           pc'[c] \in {"joining", "joiningGone"} => exited,
           pc'[c] = "joining" => result'[c] = tstatus
    PROVE  RefsAccounted' /\ OneBuilder' /\ JoinersKnow'
<1> USE DEF IInv
<1>1. RefsAccounted'
  BY DEF RefsAccounted, Inside
<1>2. OneBuilder'
  BY DEF OneBuilder
<1>3. JoinersKnow'
  BY DEF JoinersKnow
<1> QED BY <1>1, <1>2, <1>3

\* Steps of a client that make, list, refer to or end the object.
LEMMA ReferenceInv ==
    ASSUME IInv, NEW c \in Threads,
           \/ create_thread(c) \/ AddThread(c) \/ open_thread(c)
           \/ delete_thread(c) \/ Reap(c)
    PROVE  IInv'
<1> USE ThreadAssumption DEF IInv, ThreadAssumption
<1>1. CASE create_thread(c)
  <2>1. UNCHANGED <<running, exited, tstatus, exit_callbacks, refOwner, own,
                    leaving, timeout, result, startled, added, ran, suspends>>
    BY <1>1 DEF create_thread, history
  <2>2. CASE UNCHANGED <<phase, func, child, pc>> /\ Return("B_ERROR")
    <3>1. TypeOK'
      BY <2>1, <2>2 DEF Return, TypeOK, Statuses
    <3>2. RefsAccounted' /\ OneBuilder' /\ JoinersKnow'
      BY <2>1, <2>2, ClientsFrame, Broadcast DEF RefsAccounted
    <3>3. OwnReferences' /\ CallbacksInCourse' /\ FieldsFollow'
      BY <2>1, <2>2, ObjectFrame
    <3> QED BY <3>1, <3>2, <3>3
  <2>3. CASE /\ phase' = "created" /\ func' = TRUE /\ child' = "born"
             /\ Goto(c, "creating") /\ UNCHANGED status
    <3>1. phase = "absent" /\ child = "none" /\ own = 0 /\ Owned(refOwner) = {}
      BY <1>1 DEF create_thread, OwnReferences, Early, RefsAccounted
    <3>2. pc' = [pc EXCEPT ![c] = "creating"]
      BY <2>3 DEF Goto
    <3>3. TypeOK'
      BY <2>1, <2>3, <3>2 DEF TypeOK, Places
    <3>4. RefsAccounted'
      BY <2>1, <2>3, <3>1, <3>2 DEF RefsAccounted, Inside, TypeOK
    <3>5. OneBuilder' /\ JoinersKnow'
      BY <2>1, <2>3, <3>1, <3>2 DEF OneBuilder, JoinersKnow, TypeOK
    <3>6. OwnReferences' /\ FieldsFollow'
      BY <2>1, <2>3, <3>1
         DEF OwnReferences, FieldsFollow, Early, Working, Over
    <3>7. CallbacksInCourse'
      BY <2>1, <2>3, <3>1
         DEF CallbacksInCourse, Working, Over, Course, Countdown
    <3> QED BY <3>3, <3>4, <3>5, <3>6, <3>7
  <2> QED BY <1>1, <2>2, <2>3 DEF create_thread
<1>2. CASE AddThread(c)
  <2>1. UNCHANGED <<tstatus, func, exit_callbacks, own, child, leaving, timeout,
                    result, startled, added, ran, suspends>>
    BY <1>2 DEF AddThread, thread, history
  <2>2. /\ pc[c] = "creating" /\ phase = "created"
        /\ own = 0 /\ Owned(refOwner) = {}
    BY <1>2 DEF AddThread, OneBuilder, RefsAccounted, TypeOK
  <2>3. \A d \in Threads : pc[d] \notin Inside
    BY <2>2, OwnersListed DEF RefsAccounted
  <2>4. \A d \in Threads : d # c => pc[d] \notin {"creating", "deleting", "reaping"}
    BY <2>2 DEF OneBuilder
  <2>5. CASE /\ phase' = "listed" /\ running' = 0 /\ exited' = FALSE
             /\ refOwner' \in GivenTo(refOwner, c) /\ Finish(c, "B_OK")
    <3>1. refOwner' \in Tables /\ Owned(refOwner') # {}
      BY <2>5, GiveRef DEF TypeOK
    <3>2. pc' = [pc EXCEPT ![c] = "idle"] /\ status' = "B_OK"
      BY <2>5 DEF Finish, Goto, Return
    <3>3. TypeOK'
      <4>1. /\ pc' \in [Threads -> {"idle", "creating", "resuming", "waking",
                                    "asleep", "woken", "expired", "joining", "joiningGone",
                                    "dropped", "deleting", "reaping"}]
            /\ status' \in Statuses
            /\ running' \in 0..2
        BY <2>5, <3>2 DEF TypeOK, Statuses
      <4>2. exited' \in BOOLEAN
        BY <2>5
      <4> QED BY <2>1, <2>5, <3>1, <4>1, <4>2 DEF TypeOK
    <3>4. RefsAccounted'
      BY <2>3, <2>5, <3>1, <3>2 DEF RefsAccounted, Inside, TypeOK
    <3>5. OneBuilder' /\ JoinersKnow'
      BY <2>3, <2>4, <3>2 DEF OneBuilder, JoinersKnow, Inside, TypeOK
    <3>6. OwnReferences' /\ FieldsFollow'
      BY <2>1, <2>2, <2>5 DEF OwnReferences, FieldsFollow, Over
    <3>7. CallbacksInCourse'
      BY <2>1 DEF CallbacksInCourse, Course, Countdown
    <3> QED BY <3>3, <3>4, <3>5, <3>6, <3>7
  <2>6. CASE /\ phase' = "unlisted" /\ Goto(c, "deleting")
             /\ UNCHANGED <<running, exited, refOwner, status>>
    <3>1. pc' = [pc EXCEPT ![c] = "deleting"]
      BY <2>6 DEF Goto
    <3>2. TypeOK'
      BY <2>1, <2>6, <3>1 DEF TypeOK
    <3>3. RefsAccounted'
      BY <2>1, <2>2, <2>3, <2>6, <3>1 DEF RefsAccounted, Inside, TypeOK
    <3>4. OneBuilder' /\ JoinersKnow'
      BY <2>3, <2>4, <2>6, <3>1 DEF OneBuilder, JoinersKnow, Inside, TypeOK
    <3>5. OwnReferences' /\ FieldsFollow'
      BY <2>1, <2>2, <2>6 DEF OwnReferences, FieldsFollow
    <3>6. CallbacksInCourse'
      BY <2>1 DEF CallbacksInCourse, Course, Countdown
    <3> QED BY <3>2, <3>3, <3>4, <3>5, <3>6
  <2> QED BY <1>2, <2>5, <2>6 DEF AddThread
<1>3. CASE open_thread(c)
  <2>1. /\ UNCHANGED <<phase, running, exited, tstatus, func, exit_callbacks,
                       own, child, leaving, pc, timeout, result, startled,
                       added, ran, suspends>>
        /\ phase = "listed" /\ status' = "B_OK"
        /\ refOwner' \in GivenTo(refOwner, c)
    BY <1>3 DEF open_thread, thread, history, Return
  <2>2. /\ refOwner' \in Tables /\ Owned(refOwner') # {}
        /\ \A d \in Threads : Owns(refOwner, d) => Owns(refOwner', d)
    BY <2>1, GiveRef DEF TypeOK
  <2>3. TypeOK'
    BY <2>1, <2>2 DEF TypeOK, Statuses
  <2>4. RefsAccounted'
    BY <2>1, <2>2 DEF RefsAccounted
  <2>5. OneBuilder' /\ JoinersKnow'
    BY <2>1 DEF OneBuilder, JoinersKnow
  <2>6. OwnReferences' /\ CallbacksInCourse' /\ FieldsFollow'
    BY <2>1, ObjectFrame
  <2> QED BY <2>3, <2>4, <2>5, <2>6
<1>4. CASE delete_thread(c)
  <2>1. /\ UNCHANGED <<running, exited, tstatus, func, exit_callbacks, own,
                       child, leaving, timeout, status, result, startled, added,
                       ran, suspends>>
        /\ refOwner' \in TakenFrom(refOwner, c)
        /\ pc[c] = "idle" /\ Owns(refOwner, c)
    BY <1>4 DEF delete_thread, Calling, thread, history
  <2>2. phase = "listed"
    BY <2>1, OwnersListed
  <2>3. /\ refOwner' \in Tables
        /\ \A d \in Threads : d # c /\ Owns(refOwner, d) => Owns(refOwner', d)
    BY <2>1, DropRef DEF TypeOK
  <2>4. \/ /\ own = 0 /\ Owned(refOwner') = {}
           /\ phase' = "unlisted" /\ pc' = [pc EXCEPT ![c] = "deleting"]
        \/ /\ own > 0 \/ Owned(refOwner') # {}
           /\ phase' = "listed" /\ pc' = [pc EXCEPT ![c] = "dropped"]
    <3>1. own \in Nat /\ (own > 0 <=> own # 0)
      BY DEF TypeOK
    <3>2. Last(own + Cardinality(Owned(refOwner')))
          <=> own = 0 /\ Owned(refOwner') = {}
      BY <3>1, LastReference
    <3> QED BY <1>4, <2>2, <3>1, <3>2 DEF delete_thread, Goto
  <2>5. TypeOK'
    BY <2>1, <2>3, <2>4 DEF TypeOK
  <2>6. RefsAccounted'
    BY <2>1, <2>3, <2>4 DEF RefsAccounted, Inside, TypeOK
  <2>7. OneBuilder' /\ JoinersKnow'
    BY <2>1, <2>2, <2>4 DEF OneBuilder, JoinersKnow, TypeOK
  <2>8. OwnReferences' /\ FieldsFollow'
    BY <2>1, <2>2, <2>4 DEF OwnReferences, FieldsFollow
  <2>9. CallbacksInCourse'
    BY <2>1 DEF CallbacksInCourse, Course, Countdown
  <2> QED BY <2>5, <2>6, <2>7, <2>8, <2>9
<1>5. CASE Reap(c)
  <2>1. /\ UNCHANGED <<running, exited, tstatus, func, refOwner, own, child,
                       leaving, timeout, result, startled, added, suspends>>
        /\ pc[c] = "reaping" /\ child = "gone"
        /\ exit_callbacks' = <<>>
        /\ phase' = "freed"
        /\ pc' = [pc EXCEPT ![c] = "idle"] /\ status' = "B_OK"
    BY <1>5 DEF Reap, Finish, Goto, Return, thread
  <2>2. ran' = ran
    <3>1. exit_callbacks = <<>> /\ ran \in Seq(Callbacks)
      BY <2>1 DEF CallbacksInCourse, Working, TypeOK
    <3>2. ran \o <<>> = ran
      BY <3>1, ConcatEmptySeq
    <3> QED BY <1>5, <3>1, <3>2 DEF Reap
  <2>3. phase = "unlisted" /\ own = 0 /\ Owned(refOwner) = {}
    BY <2>1 DEF OneBuilder, RefsAccounted, TypeOK
  <2>4. \A d \in Threads : pc[d] \notin Inside
    BY <2>3, OwnersListed DEF RefsAccounted
  <2>5. TypeOK'
    BY <2>1, <2>2 DEF TypeOK, Statuses
  <2>6. RefsAccounted'
    BY <2>1, <2>3, <2>4 DEF RefsAccounted, Inside, TypeOK
  <2>7. OneBuilder' /\ JoinersKnow'
    BY <2>1, <2>3 DEF OneBuilder, JoinersKnow, TypeOK
  <2>8. OwnReferences' /\ FieldsFollow'
    BY <2>1, <2>3 DEF OwnReferences, FieldsFollow, Over, Early, Working
  <2>9. CallbacksInCourse'
    BY <2>1, <2>2 DEF CallbacksInCourse, Working, Over, Course, Countdown
  <2> QED BY <2>5, <2>6, <2>7, <2>8, <2>9
<1> QED BY <1>1, <1>2, <1>3, <1>4, <1>5

\* Steps of a client inside or at the start of a call that leave the object
\* as it is, but for the function that delete_thread takes away.
LEMMA CallInv ==
    ASSUME IInv, NEW c \in Threads,
           \/ resume_thread(c) \/ DeleteDropped(c) \/ Knock(c) \/ WaitAgain(c)
           \/ WaitTimedOut(c) \/ Join(c) \/ Expire(c)
           \/ \E w \in Timeouts : wait_for_thread_etc(c, w)
    PROVE  IInv'
<1> USE ThreadAssumption DEF IInv, ThreadAssumption
<1> DEFINE Stations == {"idle", "creating", "resuming", "waking", "asleep",
                        "woken", "expired", "joining", "joiningGone", "dropped", "deleting",
                        "reaping"}
<1>1. ASSUME UNCHANGED <<phase, running, exited, tstatus, exit_callbacks,
                         refOwner, own, leaving, startled, added, ran, suspends>>,
             func' \in BOOLEAN,
             child' = child \/ (child' = WokenThread(child) /\ phase # "created"),
             timeout' \in [Threads -> Timeouts],
             status' \in Statuses,
             NEW place \in Stations,
             \/ pc' = [pc EXCEPT ![c] = place]
             \/ pc' = [WokenClients(pc) EXCEPT ![c] = place],
             \/ UNCHANGED result
             \/ \E v \in {tstatus, Unwritten} : result' = [result EXCEPT ![c] = v],
             place \in Inside => Owns(refOwner, c),
             place # "creating",
             place \in {"deleting", "reaping"} => pc[c] \in {"deleting", "reaping"},
             place \in {"joining", "joiningGone"} => exited,
             place = "joining" => result' = [result EXCEPT ![c] = tstatus]
      PROVE  IInv'
  <2>1. /\ pc' \in [Threads -> Stations]
        /\ pc'[c] = place
        /\ \A d \in Threads \ {c} :
             pc'[d] = pc[d] \/ (pc[d] = "asleep" /\ pc'[d] = "woken")
    BY <1>1 DEF TypeOK, WokenClients
  <2>2. /\ result' \in [Threads -> Results \cup {InitialStatus, Unwritten}]
        /\ \A d \in Threads \ {c} : result'[d] = result[d]
        /\ place = "joining" => result'[c] = tstatus
    BY <1>1 DEF TypeOK
  <2>3. child' \in Places
    BY <1>1 DEF TypeOK, WokenThread, Places
  <2>4. TypeOK'
    BY <1>1, <2>1, <2>2, <2>3 DEF TypeOK
  <2>5. RefsAccounted' /\ OneBuilder' /\ JoinersKnow'
    <3> HIDE DEF IInv
    <3> QED BY <1>1, <2>1, <2>2, CallFrame
  <2>6. OwnReferences' /\ CallbacksInCourse' /\ FieldsFollow'
    <3> HIDE DEF IInv
    <3> QED BY <1>1, ObjectFrame
  <2> QED BY <2>4, <2>5, <2>6
<1>2. CASE resume_thread(c)
  <2>1. /\ UNCHANGED <<phase, running, exited, tstatus, func, exit_callbacks,
                       refOwner, own, leaving, timeout, result, startled, added,
                       ran, suspends>>
        /\ pc[c] = "idle" /\ Owns(refOwner, c)
    BY <1>2 DEF resume_thread, Calling, object, history
  <2>2. phase = "listed"
    BY <2>1, OwnersListed
  <2>3. CASE Startable
    <3>1. /\ pc' = [WokenClients(pc) EXCEPT ![c] = "resuming"]
          /\ child' = WokenThread(child) /\ UNCHANGED status
      BY <1>2, <2>3 DEF resume_thread
    <3> QED BY <1>1, <2>1, <2>2, <3>1 DEF TypeOK
  <2>4. CASE ~Startable
    <3>1. UNCHANGED <<pc, child>> /\ status' = "B_ERROR"
      BY <1>2, <2>4 DEF resume_thread, Return
    <3>2. pc' = [pc EXCEPT ![c] = "idle"] /\ "idle" \notin Inside
      BY <2>1, <3>1 DEF TypeOK, Inside
    <3> QED BY <1>1, <2>1, <3>1, <3>2 DEF TypeOK, Statuses
  <2> QED BY <2>3, <2>4
<1>3. CASE DeleteDropped(c)
  <2>1. /\ UNCHANGED <<phase, running, exited, tstatus, func, exit_callbacks,
                       refOwner, own, child, leaving, timeout, result, startled,
                       added, ran, suspends>>
        /\ pc' = [pc EXCEPT ![c] = "idle"] /\ status' = "B_OK"
    BY <1>3 DEF DeleteDropped, Finish, Goto, Return, object, thread, history
  <2> QED BY <1>1, <2>1 DEF TypeOK, Statuses, Inside
<1>4. CASE Knock(c)
  <2>1. /\ UNCHANGED <<phase, running, exited, tstatus, exit_callbacks, refOwner,
                       own, leaving, timeout, startled, added, ran, suspends>>
        /\ pc[c] \in {"resuming", "waking", "deleting"}
        /\ func' = (func /\ pc[c] # "deleting")
    BY <1>4 DEF Knock, history
  <2>2. func' \in BOOLEAN
    BY <2>1, Zenon
  <2>3. pc[c] # "deleting" => Owns(refOwner, c)
    BY <2>1 DEF RefsAccounted, Inside
  <2>4. phase # "created"
    BY <2>1, <2>3, OwnersListed DEF OneBuilder
  <2>5. CASE Under_way
    <3>1. AfterKnocking(c) /\ UNCHANGED child
      BY <1>4, <2>5 DEF Knock
    <3>2. CASE pc[c] = "resuming"
      <4>1. /\ pc' = [pc EXCEPT ![c] = "idle"] /\ status' = "B_OK"
            /\ UNCHANGED result
        BY <3>1, <3>2 DEF AfterKnocking, Finish, Goto, Return
      <4> QED BY <1>1, <2>1, <2>2, <3>1, <4>1 DEF TypeOK, Statuses, Inside
    <3>3. CASE pc[c] = "waking"
      <4>1. AwaitExit(c) /\ UNCHANGED status
        BY <3>1, <3>3 DEF AfterKnocking
      <4>2. CASE exited
        BY <1>1, <2>1, <2>2, <2>3, <3>1, <3>3, <4>1, <4>2
           DEF AwaitExit, Goto, TypeOK
      <4>3. CASE ~exited
        BY <1>1, <2>1, <2>2, <2>3, <3>1, <3>3, <4>1, <4>3
           DEF AwaitExit, Goto, TypeOK
      <4> QED BY <4>2, <4>3
    <3>4. CASE pc[c] = "deleting"
      <4>1. pc' = [pc EXCEPT ![c] = "reaping"] /\ UNCHANGED <<status, result>>
        BY <3>1, <3>4 DEF AfterKnocking, Goto
      <4> QED BY <1>1, <2>1, <2>2, <3>1, <3>4, <4>1 DEF TypeOK, Inside
    <3> QED BY <2>1, <3>2, <3>3, <3>4
  <2>6. CASE ~Under_way
    <3>1. /\ pc' = WokenClients(pc) /\ child' = WokenThread(child)
          /\ UNCHANGED <<status, result>>
      BY <1>4, <2>6 DEF Knock
    <3>2. pc' = [WokenClients(pc) EXCEPT ![c] = pc[c]]
      BY <2>1, <3>1 DEF WokenClients
    <3>3. pc[c] \in Stations /\ pc[c] \notin {"joining", "joiningGone", "creating"}
      BY <2>1
    <3>4. pc[c] \in Inside => Owns(refOwner, c)
      BY DEF RefsAccounted
    <3>5. pc[c] # "reaping"
      BY <2>1
    <3> QED
      BY <1>1, <2>1, <2>2, <2>4, <3>1, <3>2, <3>3, <3>4, <3>5 DEF TypeOK
  <2> QED BY <2>5, <2>6
<1>5. CASE WaitAgain(c)
  <2>1. /\ UNCHANGED <<phase, running, exited, tstatus, func, exit_callbacks,
                       refOwner, own, child, leaving, timeout, status, startled,
                       added, ran, suspends>>
        /\ Owns(refOwner, c) /\ AwaitExit(c)
    BY <1>5 DEF WaitAgain, object, thread, history, RefsAccounted, Inside
  <2>2. CASE exited
    BY <1>1, <2>1, <2>2 DEF AwaitExit, Goto, TypeOK
  <2>3. CASE ~exited
    BY <1>1, <2>1, <2>3 DEF AwaitExit, Goto, TypeOK
  <2> QED BY <2>2, <2>3
<1>6. CASE WaitTimedOut(c) \/ Join(c)
  <2>1. /\ UNCHANGED <<phase, running, exited, tstatus, func, exit_callbacks,
                       refOwner, own, child, leaving, startled, added, ran,
                       suspends>>
        /\ pc' = [pc EXCEPT ![c] = "idle"]
        /\ timeout' = [timeout EXCEPT ![c] = "forever"]
        /\ result' = [result EXCEPT ![c] = Unwritten]
        /\ status' \in {"B_OK", "B_TIMED_OUT"}
    BY <1>6 DEF WaitTimedOut, Join, EndWait, Finish, Goto, Return, object,
                thread, history
  <2>2. timeout' \in [Threads -> Timeouts] /\ status' \in Statuses
    BY <2>1 DEF TypeOK, Timeouts, Statuses
  <2> QED BY <1>1, <2>1, <2>2 DEF TypeOK, Inside
<1>7. CASE Expire(c)
  <2>1. /\ UNCHANGED <<phase, running, exited, tstatus, func, exit_callbacks,
                       refOwner, own, child, leaving, timeout, status, result,
                       startled, added, ran, suspends>>
        /\ Owns(refOwner, c)
        /\ pc' = [pc EXCEPT ![c] = "expired"]
    BY <1>7 DEF Expire, Goto, object, thread, history, RefsAccounted, Inside
  <2> QED BY <1>1, <2>1 DEF TypeOK
<1>8. ASSUME NEW w \in Timeouts, wait_for_thread_etc(c, w) PROVE IInv'
  <2>1. /\ UNCHANGED <<phase, running, exited, tstatus, func, exit_callbacks,
                       refOwner, own, leaving, startled, added, ran, suspends>>
        /\ pc[c] = "idle" /\ Owns(refOwner, c)
    BY <1>8 DEF wait_for_thread_etc, Calling, object, history
  <2>2. phase # "created"
    BY <2>1, OwnersListed
  <2>3. CASE UNCHANGED <<pc, child, timeout, result>> /\ status' \in Statuses
    <3>1. pc' = [pc EXCEPT ![c] = "idle"] /\ "idle" \notin Inside
      BY <2>1, <2>3 DEF TypeOK, Inside
    <3> QED BY <1>1, <2>1, <2>3, <3>1 DEF TypeOK
  <2>4. CASE /\ exited /\ Goto(c, "joiningGone")
             /\ result' = [result EXCEPT ![c] = Unwritten]
             /\ UNCHANGED <<status, child, timeout>>
    BY <1>1, <2>1, <2>4 DEF Goto, TypeOK
  <2>5. CASE /\ timeout' = [timeout EXCEPT ![c] = w]
             /\ pc' = [WokenClients(pc) EXCEPT ![c] = "waking"]
             /\ child' = WokenThread(child)
             /\ UNCHANGED <<status, result>>
    <3>1. timeout' \in [Threads -> Timeouts]
      BY <2>5 DEF TypeOK
    <3> QED BY <1>1, <2>1, <2>2, <2>5, <3>1 DEF TypeOK
  <2>6. CASE /\ timeout' = [timeout EXCEPT ![c] = w]
             /\ pc' = [pc EXCEPT ![c] = "asleep"]
             /\ UNCHANGED <<child, status, result>>
    <3>1. timeout' \in [Threads -> Timeouts]
      BY <2>6 DEF TypeOK
    <3> QED BY <1>1, <2>1, <2>6, <3>1 DEF TypeOK
  <2> QED
    BY <1>8, <2>3, <2>4, <2>5, <2>6
       DEF wait_for_thread_etc, Return, Goto, Statuses
<1> QED BY <1>2, <1>3, <1>4, <1>5, <1>6, <1>7, <1>8

\* A wait that returns unprompted finds nothing changed.
LEMMA SpuriousInv ==
    ASSUME IInv, SpuriousWakeup PROVE IInv'
<1> USE DEF IInv
<1>1. UNCHANGED <<phase, running, exited, tstatus, func, exit_callbacks,
                  refOwner, own, leaving, timeout, status, result, added, ran,
                  suspends>>
  BY DEF SpuriousWakeup, object
<1>2. /\ \/ UNCHANGED <<child, startled>>
         \/ /\ child' = WokenThread(child)
            /\ startled' = (startled \/ child = "asleep")
            /\ child \in {"asleep", "suspended"}
      /\ Stirred
  <2>1. CASE /\ child \in {"asleep", "suspended"}
             /\ child' = WokenThread(child)
             /\ startled' = (startled \/ child = "asleep")
             /\ UNCHANGED pc
    BY <2>1, Broadcast
  <2>2. ASSUME NEW c \in Threads, pc[c] = "asleep", Goto(c, "woken"),
               UNCHANGED <<child, startled>>
        PROVE  Stirred /\ UNCHANGED <<child, startled>>
    BY <2>2 DEF Goto, Stirred, TypeOK
  <2> QED BY <2>1, <2>2 DEF SpuriousWakeup
<1>3. startled' \in BOOLEAN
  BY <1>2, Zenon DEF TypeOK
<1>4. TypeOK'
  <2>1. child' \in Places
    BY <1>2 DEF TypeOK, WokenThread, Places
  <2> QED BY <1>1, <1>2, <1>3, <2>1 DEF TypeOK, Stirred
<1>5. RefsAccounted' /\ OneBuilder' /\ JoinersKnow'
  BY <1>1, <1>2, ClientsFrame DEF RefsAccounted
<1>6. OwnReferences' /\ CallbacksInCourse' /\ FieldsFollow'
  <2>1. phase = "created" /\ ~startled' => child' = child
    BY <1>2 DEF FieldsFollow
  <2>2. startled => startled'
    BY <1>2
  <2> QED BY <1>1, <1>2, <2>1, <2>2, ObjectFrame
<1> QED BY <1>4, <1>5, <1>6

\* Every step preserves the invariant.
LEMMA NextInv == IInv /\ [Next]_vars => IInv'
<1> SUFFICES ASSUME IInv, [Next]_vars PROVE IInv' OBVIOUS
<1>1. CASE UNCHANGED vars
  <2>1. UNCHANGED <<phase, running, exited, tstatus, func, exit_callbacks,
                    refOwner, own, child, leaving, pc, timeout, status, result,
                    startled, added, ran, suspends>>
    BY <1>1 DEF vars, object, thread, clients, history
  <2>2. TypeOK'
    BY <2>1 DEF IInv, TypeOK
  <2>3. RefsAccounted' /\ OneBuilder' /\ JoinersKnow'
    BY <2>1, ClientsFrame, Broadcast DEF IInv, RefsAccounted
  <2>4. OwnReferences' /\ CallbacksInCourse' /\ FieldsFollow'
    BY <2>1, ObjectFrame
  <2> QED BY <2>2, <2>3, <2>4 DEF IInv
<1> QED
  BY <1>1, StartInv, FunctionInv, ExitInv, ReferenceInv, CallInv, SpuriousInv
     DEF Next, ThreadStep, ClientStep

-----------------------------------------------------------------------------

\* The invariant holds for any number of clients, references and callbacks.
THEOREM ThreadInvariant == Spec => []IInv
  BY InitInv, NextInv, PTL DEF Spec

\* Nobody touches the thread's object after it was freed, and a thread that
\* runs its function is in the list.
THEOREM ObjectOutlivesUse == Spec => []NoUseAfterFree
<1>1. IInv => NoUseAfterFree
  <2> SUFFICES ASSUME IInv PROVE NoUseAfterFree OBVIOUS
  <2> USE DEF IInv
  <2>1. child \in {"running", "suspended", "resumed"} => phase = "listed"
    BY DEF OwnReferences, Working, RefsAccounted
  <2>2. ASSUME phase = "freed"
        PROVE  /\ child \in {"exiting", "dropped", "gone"}
               /\ \A i \in DOMAIN leaving : leaving[i] # Drop
               /\ \A c \in Threads : pc[c] \in {"idle", "dropped"}
    <3>1. child \in {"exiting", "dropped", "gone"}
      BY <2>2 DEF OwnReferences, Over
    <3>2. own = 0 /\ Owned(refOwner) = {}
      BY <2>2 DEF RefsAccounted, TypeOK
    <3>3. leaving = <<>>
      <4>1. added - Len(ran) = 0
        BY <3>1, <3>2 DEF CallbacksInCourse, Over, TypeOK
      <4> QED BY <3>1, <3>2, <4>1, ShortCourses DEF CallbacksInCourse
    <3>4. \A c \in Threads : pc[c] \in {"idle", "dropped"}
      <4>1. \A c \in Threads : pc[c] \notin Inside
        BY <2>2, OwnersListed DEF RefsAccounted
      <4>2. \A c \in Threads : pc[c] \notin {"creating", "deleting", "reaping"}
        BY <2>2 DEF OneBuilder
      <4> QED BY <4>1, <4>2 DEF Inside, TypeOK
    <3> QED BY <3>1, <3>3, <3>4
  <2> QED BY <2>1, <2>2 DEF NoUseAfterFree
<1> QED BY <1>1, ThreadInvariant, PTL

\* Each exit callback runs once, the newest first, while the object is there.
THEOREM ExitCallbacksRun == Spec => []CallbacksRun
<1>1. IInv => CallbacksRun
  <2> SUFFICES ASSUME IInv PROVE CallbacksRun OBVIOUS
  <2> USE DEF IInv
  <2>1. ASSUME NEW i \in DOMAIN leaving, leaving[i] # Drop
        PROVE  /\ phase = "listed"
               /\ own > 0
               /\ \E j \in DOMAIN leaving : j > i /\ leaving[j] = Drop
    <3> DEFINE n == added - Len(ran)
    <3>1. child \in {"exiting", "dropped"} /\ leaving = Course(n, own)
      BY <2>1 DEF CallbacksInCourse
    <3>2. n \in 0..MaxCallbacks /\ own \in Nat
      BY ThreadAssumption DEF CallbacksInCourse, TypeOK, ThreadAssumption
    <3>3. DOMAIN leaving = 1..(n + own)
      BY <3>1 DEF Course
    <3>4. leaving[i] = IF i <= n THEN n + 1 - i ELSE Drop
      BY <3>1, <3>3 DEF Course
    <3>5. i <= n
      BY <2>1, <3>4
    <3>6. own > 0
      BY <2>1, <3>1, <3>2, <3>3, <3>5 DEF CallbacksInCourse, Over, TypeOK
    <3>7. n + own \in DOMAIN leaving /\ n + own > i /\ leaving[n + own] = Drop
      BY <2>1, <3>1, <3>2, <3>3, <3>5, <3>6 DEF Course
    <3>8. phase = "listed"
      BY <3>6 DEF RefsAccounted
    <3> QED BY <3>6, <3>7, <3>8
  <2>2. child = "gone" => ran = [i \in 1..added |-> added + 1 - i]
    BY DEF CallbacksInCourse, Countdown
  <2> QED BY <2>1, <2>2 DEF CallbacksRun
<1> QED BY <1>1, ThreadInvariant, PTL

\* get_thread_run_state reports where the thread is.
THEOREM RunStateIsTrue == Spec => []StateReported
<1>1. IInv => StateReported
  BY DEF IInv, FieldsFollow, OwnReferences, StateReported,
         get_thread_run_state, Over, TypeOK, Places
<1> QED BY <1>1, ThreadInvariant, PTL

\* A wait ends with B_OK only after the exit, and with the thread's own value
\* if it had to wait.
THEOREM WaitsReportTheExit == Spec => WaitReportsExit
<1>1. IInv /\ [Next]_vars =>
        [\A c \in Threads :
            pc[c] \in {"joining", "joiningGone"} /\ pc'[c] = "idle" =>
            /\ exited /\ exit_callbacks = <<>>
            /\ pc[c] = "joining" => result[c] = tstatus]_vars
  <2> SUFFICES ASSUME IInv, NEW c \in Threads,
                      pc[c] \in {"joining", "joiningGone"}
               PROVE  /\ exited /\ exit_callbacks = <<>>
                      /\ pc[c] = "joining" => result[c] = tstatus
    OBVIOUS
  <2>1. exited /\ (pc[c] = "joining" => result[c] = tstatus)
    BY DEF IInv, JoinersKnow
  <2>2. exit_callbacks = <<>>
    BY <2>1 DEF IInv, FieldsFollow, CallbacksInCourse, Over, Working
  <2> QED BY <2>1, <2>2
<1> QED BY <1>1, ThreadInvariant, PTL DEF Spec, WaitReportsExit
====
