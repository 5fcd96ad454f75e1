---- MODULE Reply ----
(***************************************************************************)
(* Synchronous calls: BMessenger::SendMessage(message, reply)                *)
(* (src/src/kits/app/Messenger.cpp) waits on a port for what a handler sends *)
(* back with BMessage::SendReply (src/src/kits/app/Message.cpp).             *)
(*                                                                           *)
(* Each call makes a port, and all of them under one name, "port"            *)
(* (Messenger.cpp:337).  A port is a segment of shared memory (module Area)  *)
(* that lives while somebody has it open; create_port takes the name from    *)
(* whoever has it, a message that is copied opens whichever port the name    *)
(* leads to (port.cpp:342), and the creator's delete_port unlinks the name,  *)
(* whatever it leads to by then.  Two messages of a call carry fNoticeSource *)
(* and close their port when they are deleted or overwritten: the caller's   *)
(* own, whose source is the call's port, and the one _PostMessage puts in    *)
(* the looper's queue.  Copies that handlers make do not close it.  A port   *)
(* is the bounded queue that Port implements.                                *)
(*                                                                           *)
(* One action is one section under a port's or the queue's lock, or one      *)
(* system call on the name.                                                  *)
(***************************************************************************)
EXTENDS Naturals, Sequences, FiniteSets

CONSTANTS
    Calls,      \* synchronous calls; each names its port and its queued message
    Copies,     \* messages that handlers copy from queued ones
    TimedCalls, \* the calls with a finite replyTimeout
    Nothing     \* no port, no call

Objects == Calls \cup Copies

ASSUME ReplyAssumption ==
    /\ IsFiniteSet(Calls) /\ IsFiniteSet(Copies)
    /\ Calls \cap Copies = {}
    /\ TimedCalls \subseteq Calls
    /\ Nothing \notin Objects

VARIABLES
    name,           \* the port that the name leads to
    queue, shut,    \* per port: the replies in it, and close_port
    pc,             \* per call: where its thread is
    got,            \* per call: the call whose message the reply it returns answers
    source,         \* per message: fSource, the port it has open
    stem,           \* per message that lives: the call it stems from
    fNoticeSource,  \* the messages that close their port
    inQueue,        \* the messages in the looper's queue
    replying,       \* the messages whose SendReply is in write_port
    accepted,       \* history: calls that wait and had a reply enter their port
    robbed,         \* history: calls that lost the name before they had posted
    overlap         \* history: a call began while messages of another lived

ports == <<queue, shut>>
calls == <<pc, got>>
messages == <<source, stem, fNoticeSource, inQueue, replying>>
history == <<accepted, robbed, overlap>>
vars == <<name, ports, calls, messages, history>>

Live == {o \in Objects : stem[o] # Nothing}

Init ==
    /\ name = Nothing
    /\ queue = [c \in Calls |-> <<>>]
    /\ shut = [c \in Calls |-> FALSE]
    /\ pc = [c \in Calls |-> "out"]
    /\ got = [c \in Calls |-> Nothing]
    /\ source = [o \in Objects |-> Nothing]
    /\ stem = [o \in Objects |-> Nothing]
    /\ fNoticeSource = {}
    /\ inQueue = {}
    /\ replying = {}
    /\ accepted = {}
    /\ robbed = {}
    /\ overlap = FALSE

-----------------------------------------------------------------------------
(* The caller *)

Goto(c, place) == pc' = [pc EXCEPT ![c] = place]

\* Calls that are under way, their own message alive.
UnderWay == {c \in Calls : pc[c] \notin {"out", "returned"}}

\* The name leads elsewhere: whoever has still to open its port by it misses it.
Rename(c, to) ==
    /\ name' = to
    /\ robbed' = robbed \cup {d \in Calls \ {c} : pc[d] = "made"}

\* create_port(1, "port"), and the caller's copy of its message.  It may fail,
\* at once or when it had already taken the name and unlinks it again.
SendMessage(c) ==
    /\ pc[c] = "out"
    /\ \/ /\ Goto(c, "made")
          /\ Rename(c, c)
          /\ overlap' = (overlap \/ UnderWay # {} \/ Live # {})
       \/ /\ Goto(c, "returned")
          /\ Rename(c, Nothing) \/ UNCHANGED <<name, robbed>>
          /\ UNCHANGED overlap
    /\ UNCHANGED <<ports, got, messages, accepted>>

\* Seeded fault: the queued copy is left as operator= made it.
ForgetfulNoticing(c) == fNoticeSource

Noticing(c) == fNoticeSource \cup {c}

\* _PostMessage copies the message into the queue, which opens a port by its
\* name, or finds no looper or a locked queue.
PostMessage(c) ==
    /\ pc[c] = "made"
    /\ \/ /\ source' = [source EXCEPT ![c] = name]
          /\ stem' = [stem EXCEPT ![c] = c]
          /\ fNoticeSource' = Noticing(c)
          /\ inQueue' = inQueue \cup {c}
          /\ Goto(c, "waiting")
       \/ /\ Goto(c, "failed")
          /\ UNCHANGED <<source, stem, fNoticeSource, inQueue>>
    /\ UNCHANGED <<name, ports, got, replying, history>>

\* port_buffer_size_etc finds a reply, also in a closed port.
PeekReply(c) ==
    /\ pc[c] = "waiting"
    /\ queue[c] # <<>>
    /\ Goto(c, "reading")
    /\ UNCHANGED <<name, ports, got, messages, history>>

ReadReply(c) ==
    /\ pc[c] = "reading"
    /\ queue[c] # <<>>
    /\ got' = [got EXCEPT ![c] = Head(queue[c])]
    /\ queue' = [queue EXCEPT ![c] = Tail(@)]
    /\ Goto(c, "answered")
    /\ UNCHANGED <<name, shut, messages, history>>

\* Seeded fault: a closed port is not looked into.
HastyNoMore(c) == shut[c]

NoMore(c) == shut[c] /\ queue[c] = <<>>

ReplyClosed(c) ==
    /\ pc[c] = "waiting" /\ NoMore(c)
    /\ Goto(c, "closed")
    /\ UNCHANGED <<name, ports, got, messages, history>>

ReplyTimedOut(c) ==
    /\ pc[c] = "waiting" /\ c \in TimedCalls
    /\ Goto(c, "failed")
    /\ UNCHANGED <<name, ports, got, messages, history>>

\* The caller's message is deleted: close_port, then delete_port.
EndOfCall(c) ==
    /\ pc[c] \in {"failed", "answered", "closed"}
    /\ shut' = [shut EXCEPT ![c] = TRUE]
    /\ Goto(c, "closing")
    /\ got' = [got EXCEPT ![c] = Nothing]
    /\ accepted' = accepted \ {c}
    /\ robbed' = robbed \ {c}
    /\ UNCHANGED <<name, queue, messages, overlap>>

\* delete_area and the delete_sem of each semaphore unlink the name without the
\* lock under which ports are made; with one of them gone nobody can open it.
UnlinkArea(c) ==
    /\ pc[c] = "closing"
    /\ Rename(c, Nothing)
    /\ Goto(c, "unlinking")
    /\ UNCHANGED <<ports, got, messages, accepted, overlap>>

UnlinkSems(c) ==
    /\ pc[c] = "unlinking"
    /\ Rename(c, Nothing)
    /\ Goto(c, "returned")
    /\ UNCHANGED <<ports, got, messages, accepted, overlap>>

-----------------------------------------------------------------------------
(* Messages *)

\* Message o lets its port go, and closes it when it was told to.
Dispose(o) ==
    /\ shut' = IF o \in fNoticeSource /\ source[o] # Nothing
               THEN [shut EXCEPT ![source[o]] = TRUE] ELSE shut
    /\ source' = [source EXCEPT ![o] = Nothing]
    /\ fNoticeSource' = fNoticeSource \ {o}

\* The looper takes the message out of its queue for a handler.
Dispatch(o) ==
    /\ o \in inQueue
    /\ inQueue' = inQueue \ {o}
    /\ UNCHANGED <<name, ports, calls, source, stem, fNoticeSource, replying, history>>

\* It has no target, or the looper and its queue are deleted.
Drop(o) ==
    /\ o \in inQueue
    /\ Dispose(o)
    /\ stem' = [stem EXCEPT ![o] = Nothing]
    /\ inQueue' = inQueue \ {o}
    /\ UNCHANGED <<name, queue, calls, replying, history>>

\* Messages that handlers, and whoever they hand them to, may use.
Held == Live \ inQueue

\* At the end of a handler, or later when it was detached.
Delete(o) ==
    /\ o \in Held \ replying
    /\ Dispose(o)
    /\ stem' = [stem EXCEPT ![o] = Nothing]
    /\ UNCHANGED <<name, queue, calls, inQueue, replying, history>>

\* Assignment of a message that has no source.
Overwrite(o) ==
    /\ o \in Held \ replying
    /\ Dispose(o)
    /\ UNCHANGED <<name, queue, calls, stem, inQueue, replying, history>>

\* A copy of a message that has a source opens the port that has the name.
Copy(o, k) ==
    /\ o \in Held
    /\ k \in Copies \ Live
    /\ source' = [source EXCEPT ![k] = IF source[o] = Nothing THEN Nothing ELSE name]
    /\ stem' = [stem EXCEPT ![k] = stem[o]]
    /\ UNCHANGED <<name, ports, calls, fNoticeSource, inQueue, replying, history>>

-----------------------------------------------------------------------------
(* SendReply *)

\* port_count found the port empty; otherwise the call ends with
\* B_DUPLICATE_REPLY.
SendReply(o) ==
    /\ o \in Held \ replying
    /\ source[o] # Nothing
    /\ queue[source[o]] = <<>>
    /\ replying' = replying \cup {o}
    /\ UNCHANGED <<name, ports, calls, source, stem, fNoticeSource, inQueue, history>>

\* write_port_etc, at once or after the port had room again.
WriteReply(o) ==
    LET p == source[o]
    IN  /\ o \in replying
        /\ ~shut[p]
        /\ queue[p] = <<>>
        /\ queue' = [queue EXCEPT ![p] = <<stem[o]>>]
        /\ replying' = replying \ {o}
        /\ accepted' = IF pc[p] = "waiting" THEN accepted \cup {p} ELSE accepted
        /\ UNCHANGED <<name, shut, calls, source, stem, fNoticeSource, inQueue,
                       robbed, overlap>>

\* The port is closed.
WriteRefused(o) ==
    /\ o \in replying
    /\ shut[source[o]]
    /\ replying' = replying \ {o}
    /\ UNCHANGED <<name, ports, calls, source, stem, fNoticeSource, inQueue, history>>

\* No memory, a reply too long, or the end of sendTimeout.
WriteFails(o) ==
    /\ o \in replying
    /\ replying' = replying \ {o}
    /\ UNCHANGED <<name, ports, calls, source, stem, fNoticeSource, inQueue, history>>

-----------------------------------------------------------------------------

CallerStep(c) ==
    \/ PostMessage(c)
    \/ PeekReply(c) \/ ReadReply(c) \/ ReplyClosed(c)
    \/ EndOfCall(c) \/ UnlinkArea(c) \/ UnlinkSems(c)

Next ==
    \/ \E c \in Calls : SendMessage(c) \/ CallerStep(c) \/ ReplyTimedOut(c)
    \/ \E o \in Objects :
        \/ Dispatch(o) \/ Drop(o)
        \/ Delete(o) \/ Overwrite(o)
        \/ SendReply(o) \/ WriteReply(o) \/ WriteRefused(o) \/ WriteFails(o)
        \/ \E k \in Copies : Copy(o, k)

Spec == Init /\ [][Next]_vars

(* Threads run on, a reply timeout that is set passes, the looper takes its  *)
(* messages, and whoever holds a message deletes it in the end.              *)
FairSpec ==
    /\ Spec
    /\ \A c \in Calls : WF_vars(CallerStep(c)) /\ WF_vars(ReplyTimedOut(c))
    /\ \A o \in Objects :
        /\ WF_vars(Dispatch(o) \/ Drop(o))
        /\ SF_vars(Delete(o))
        /\ WF_vars(WriteReply(o) \/ WriteRefused(o))

-----------------------------------------------------------------------------
(* Properties *)

\* Type invariant.
TypeOK ==
    /\ name \in Calls \cup {Nothing}
    /\ queue \in [Calls -> {<<>>} \cup {<<c>> : c \in Calls}]
    /\ shut \in [Calls -> BOOLEAN]
    /\ pc \in [Calls -> {"out", "made", "waiting", "reading",
                         "failed", "answered", "closed", "closing",
                         "unlinking", "returned"}]
    /\ got \in [Calls -> Calls \cup {Nothing}]
    /\ source \in [Objects -> Calls \cup {Nothing}]
    /\ stem \in [Objects -> Calls \cup {Nothing}]
    /\ fNoticeSource \subseteq Objects
    /\ inQueue \subseteq Objects
    /\ replying \subseteq Objects
    /\ accepted \subseteq Calls
    /\ robbed \subseteq Calls
    /\ overlap \in BOOLEAN

\* A caller that waits without a limit is not left alone, whatever was done with
\* the copies of its message and however many other calls make, take over and
\* unlink the port's name meanwhile: there is a reply, or the port is closed, or
\* the message that closes it is still to be deleted.  The one exception is a
\* call that lost the name between create_port (Messenger.cpp:337) and the copy
\* in _PostMessage (Looper.cpp:384): the queued message then has another port,
\* or none, and the caller waits for ever.
CallerIsNotForgotten ==
    /\ TypeOK
    /\ \A c \in Calls :
         pc[c] = "waiting" =>
            \/ queue[c] # <<>>
            \/ shut[c]
            \/ c \in fNoticeSource /\ source[c] = c
            \/ c \in robbed

\* The message may be deleted as soon as SendReply has returned B_OK: the caller
\* still gets the reply and is not told that there is none (Messenger.cpp:450).
\* And the reply that a caller gets is to its own message, as long as no call
\* begins while a message of another one lives: a copy that a handler kept of an
\* old call's message is enough to answer the wrong call.
AcceptedReplyArrives ==
    \A c \in Calls :
        /\ pc[c] = "closed" => c \notin accepted
        /\ ~overlap => got[c] \in {Nothing, c}

\* The call returns once its messages are deleted, replied to or not, unless it
\* lost its name before it had posted; and a SendReply that found the port empty
\* and then full (two copies were answered at the same time) ends when the
\* caller takes the other reply or stops waiting, whosever port it is.
CallsReturn ==
    /\ \A c \in Calls : pc[c] = "waiting" ~> pc[c] = "returned" \/ c \in robbed
    /\ \A o \in Objects : o \in replying ~> o \notin replying
====
