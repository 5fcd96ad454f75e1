---- MODULE ReplyProofs ----
(***************************************************************************)
(* Proofs about Reply for any number of calls and copies of their messages.  *)
(*                                                                           *)
(* What makes a caller safe is that it has the port's name when it posts:    *)
(* the queued message then has the caller's port, as long as it lives the    *)
(* port is not forgotten, and when it goes the port is closed.               *)
(*                                                                           *)
(* The second part is about Tokens, the records that a messenger and a reply *)
(* address lead through, for any handlers, messengers and messages.  Every   *)
(* reference has a name (RefNames) and refs says which record it is on: the  *)
(* vitalities of a record are the names that lead to it (Counted), and each  *)
(* section under the depot's locker moves one or two names.                  *)
(***************************************************************************)
EXTENDS Reply, Tokens, Integers, FiniteSetTheorems, SequenceTheorems, WellFoundedInduction,
        TLAPS

\* A call that has not lost the name before it posted has it.
NamedUntilPosted ==
    \A c \in Calls : pc[c] = "made" => name = c \/ c \in robbed

\* A call that has not posted has no message in the world, and before it begins
\* nothing leads to its port.
NothingYet ==
    \A c \in Calls :
        /\ pc[c] \in {"out", "made"} => stem[c] = Nothing
        /\ pc[c] = "out" => /\ name # c
                            /\ queue[c] = <<>>
                            /\ \A o \in Objects : source[o] # c

\* A message that is being replied to lives, has a port and is out of the queue.
RepliesAreHeld ==
    \A o \in replying : stem[o] # Nothing /\ source[o] # Nothing /\ o \notin inQueue

\* A reply accepted while the caller waits is there to be found.
AcceptedIsQueued ==
    \A c \in accepted : /\ pc[c] \notin {"out", "made", "closed"}
                        /\ pc[c] = "waiting" => queue[c] # <<>>

\* One call after the other: all messages and the reply are of the one under way.
OneByOne ==
    ~overlap => \A c \in UnderWay :
                    /\ UnderWay = {c}
                    /\ \A o \in Objects : stem[o] \in {Nothing, c}
                    /\ queue[c] \in {<<>>, <<c>>}

IInv ==
    /\ CallerIsNotForgotten
    /\ NamedUntilPosted
    /\ NothingYet
    /\ RepliesAreHeld
    /\ AcceptedIsQueued
    /\ OneByOne
    /\ AcceptedReplyArrives

-----------------------------------------------------------------------------

\* Before the first call everything is as it should be.
LEMMA InitInv == Init => IInv
<1> SUFFICES ASSUME Init PROVE IInv OBVIOUS
<1> USE ReplyAssumption DEF Init, ReplyAssumption, Objects
<1>1. TypeOK
  BY DEF TypeOK
<1>2. CallerIsNotForgotten /\ NamedUntilPosted /\ AcceptedIsQueued
  BY <1>1 DEF CallerIsNotForgotten, NamedUntilPosted, AcceptedIsQueued
<1>3. NothingYet /\ RepliesAreHeld
  BY DEF NothingYet, RepliesAreHeld
<1>4. OneByOne /\ AcceptedReplyArrives
  BY DEF OneByOne, UnderWay, AcceptedReplyArrives
<1> QED BY <1>2, <1>3, <1>4 DEF IInv

\* A message that goes, or loses its source, closes the port if it was told to.
LEMMA DisposeInv ==
    ASSUME IInv, NEW o \in Objects, Dispose(o), o \notin replying,
           stem' \in [Objects -> Calls \cup {Nothing}],
           \A m \in Objects : stem'[m] = stem[m] \/ (m = o /\ stem'[m] = Nothing),
           inQueue' \subseteq inQueue,
           UNCHANGED <<name, queue, calls, replying, history>>
    PROVE  IInv'
<1> USE ReplyAssumption
    DEF IInv, CallerIsNotForgotten, TypeOK, ReplyAssumption, Objects, calls, history
<1>1. /\ shut' \in [Calls -> BOOLEAN]
      /\ \A c \in Calls : shut[c] => shut'[c]
      /\ o \in fNoticeSource /\ source[o] # Nothing => shut'[source[o]]
  BY DEF Dispose
<1>2. /\ source' \in [Objects -> Calls \cup {Nothing}]
      /\ \A m \in Objects : source'[m] = IF m = o THEN Nothing ELSE source[m]
      /\ fNoticeSource' = fNoticeSource \ {o}
  BY DEF Dispose
<1>3. TypeOK'
  BY <1>1, <1>2
<1>4. CallerIsNotForgotten'
  <2> SUFFICES ASSUME NEW c \in Calls, pc'[c] = "waiting"
               PROVE  \/ queue'[c] # <<>> \/ shut'[c] \/ c \in robbed'
                      \/ c \in fNoticeSource' /\ source'[c] = c
    BY <1>3
  <2>1. CASE c = o
    BY <1>1, <1>2, <2>1
  <2>2. CASE c # o
    BY <1>1, <1>2, <2>2
  <2> QED BY <2>1, <2>2
<1>5. NamedUntilPosted' /\ AcceptedIsQueued'
  BY DEF NamedUntilPosted, AcceptedIsQueued
<1>6. NothingYet'
  BY <1>2 DEF NothingYet
<1>7. RepliesAreHeld'
  BY <1>2 DEF RepliesAreHeld
<1>8. OneByOne'
  <2>1. UnderWay' = UnderWay
    BY DEF UnderWay
  <2> QED BY <2>1 DEF OneByOne, UnderWay
<1>9. AcceptedReplyArrives'
  BY DEF AcceptedReplyArrives
<1> QED BY <1>4, <1>5, <1>6, <1>7, <1>8, <1>9

\* The name goes from hand to hand: the calls that had still to post are robbed.
LEMMA RenameInv ==
    ASSUME IInv, NEW c \in Calls, NEW to \in Calls \cup {Nothing}, Rename(c, to)
    PROVE  /\ robbed' \subseteq Calls /\ robbed \subseteq robbed'
           /\ \A d \in Calls \ {c} : pc[d] = "made" => d \in robbed'
           /\ name' = to
  BY DEF IInv, CallerIsNotForgotten, TypeOK, Rename

\* Every step preserves the invariant.
LEMMA NextInv == IInv /\ [Next]_vars => IInv'
<1> SUFFICES ASSUME IInv, [Next]_vars PROVE IInv' OBVIOUS
<1> USE ReplyAssumption
        DEF IInv, CallerIsNotForgotten, TypeOK, ReplyAssumption, Objects
\* A step that moves a call or a message on and changes no port
<1>0. ASSUME UNCHANGED <<name, queue, shut, got, source, stem, fNoticeSource, history>>,
             inQueue' \subseteq inQueue, replying' \subseteq replying,
             \/ UNCHANGED pc
             \/ \E c \in Calls :
                 \/ pc[c] = "waiting" /\ pc' = [pc EXCEPT ![c] = "reading"]
                 \/ /\ pc[c] = "waiting" /\ NoMore(c)
                    /\ pc' = [pc EXCEPT ![c] = "closed"]
                 \/ pc[c] \in {"made", "waiting"} /\ pc' = [pc EXCEPT ![c] = "failed"]
      PROVE  IInv'
  <2>1. TypeOK'
    BY <1>0 DEF history
  <2>2. \A d \in Calls :
          /\ pc'[d] \in {"out", "made", "waiting"} => pc'[d] = pc[d]
          /\ pc'[d] = "closed" => pc[d] = "closed" \/ (pc[d] = "waiting" /\ NoMore(d))
          /\ d \in UnderWay' <=> d \in UnderWay
    <3>1. CASE UNCHANGED pc
      BY <3>1 DEF UnderWay
    <3>2. ASSUME NEW c \in Calls, pc[c] \in {"made", "waiting"},
                 NEW place \in {"reading", "closed", "failed"},
                 place = "closed" => pc[c] = "waiting" /\ NoMore(c),
                 pc' = [pc EXCEPT ![c] = place]
          PROVE  \A d \in Calls :
                  /\ pc'[d] \in {"out", "made", "waiting"} => pc'[d] = pc[d]
                  /\ pc'[d] = "closed" => pc[d] = "closed" \/ (pc[d] = "waiting" /\ NoMore(d))
                  /\ d \in UnderWay' <=> d \in UnderWay
      <4>1. \A d \in Calls : pc'[d] = IF d = c THEN place ELSE pc[d]
        BY <3>2
      <4> QED BY <3>2, <4>1 DEF UnderWay
    <3> QED BY <1>0, <3>1, <3>2
  <2>3. CallerIsNotForgotten'
    BY <1>0, <2>1, <2>2 DEF history
  <2>4. NamedUntilPosted' /\ NothingYet'
    BY <1>0, <2>2 DEF NamedUntilPosted, NothingYet, history
  <2>5. RepliesAreHeld'
    BY <1>0 DEF RepliesAreHeld
  <2>6. AcceptedIsQueued'
    BY <1>0, <2>2 DEF AcceptedIsQueued, NoMore, history
  <2>7. OneByOne'
    <3>1. UnderWay' = UnderWay
      BY <2>2 DEF UnderWay
    <3> QED BY <1>0, <3>1 DEF OneByOne, UnderWay, history
  <2>8. AcceptedReplyArrives'
    BY <1>0, <2>2 DEF AcceptedReplyArrives, AcceptedIsQueued, NoMore, history
  <2> QED BY <2>3, <2>4, <2>5, <2>6, <2>7, <2>8
<1>1. CASE UNCHANGED vars
  BY <1>0, <1>1 DEF vars, ports, calls, messages, history
<1>2. ASSUME NEW c \in Calls, SendMessage(c) PROVE IInv'
  <2>1. CASE pc' = [pc EXCEPT ![c] = "made"] /\ Rename(c, c)
             /\ overlap' = (overlap \/ UnderWay # {} \/ Live # {})
    <3>1. /\ pc[c] = "out" /\ name' = c
          /\ UNCHANGED <<queue, shut, got, source, stem, fNoticeSource, inQueue,
                         replying, accepted>>
      BY <1>2, <2>1 DEF SendMessage, Rename, ports, messages
    <3>2. /\ robbed' \subseteq Calls /\ robbed \subseteq robbed'
          /\ \A d \in Calls \ {c} : pc[d] = "made" => d \in robbed'
      BY <2>1, RenameInv
    <3>3. \A d \in Calls : pc'[d] = IF d = c THEN "made" ELSE pc[d]
      BY <2>1
    <3>4. TypeOK'
      BY <2>1, <3>1, <3>2
    <3>5. CallerIsNotForgotten'
      BY <3>1, <3>2, <3>3, <3>4
    <3>6. NamedUntilPosted'
      BY <3>1, <3>2, <3>3 DEF NamedUntilPosted
    <3>7. NothingYet'
      BY <3>1, <3>3 DEF NothingYet
    <3>8. RepliesAreHeld'
      BY <3>1 DEF RepliesAreHeld
    <3>9. AcceptedIsQueued'
      BY <3>1, <3>3 DEF AcceptedIsQueued
    <3>10. OneByOne'
      <4> SUFFICES ASSUME ~overlap'
                   PROVE  \A d \in UnderWay' :
                            /\ UnderWay' = {d}
                            /\ \A o \in Objects : stem'[o] \in {Nothing, d}
                            /\ queue'[d] \in {<<>>, <<d>>}
        BY DEF OneByOne
      <4>1. UnderWay = {} /\ Live = {}
        BY <2>1
      <4>2. UnderWay' = {c}
        BY <4>1, <3>3 DEF UnderWay
      <4>3. \A o \in Objects : stem[o] = Nothing
        BY <4>1 DEF Live
      <4>4. queue[c] = <<>>
        BY <3>1 DEF NothingYet
      <4> QED BY <3>1, <4>2, <4>3, <4>4
    <3>11. AcceptedReplyArrives'
      BY <2>1, <3>1, <3>3 DEF AcceptedReplyArrives
    <3> QED BY <3>5, <3>6, <3>7, <3>8, <3>9, <3>10, <3>11
  <2>2. CASE pc' = [pc EXCEPT ![c] = "returned"] /\ UNCHANGED overlap
             /\ (Rename(c, Nothing) \/ UNCHANGED <<name, robbed>>)
    <3>0. /\ pc[c] = "out"
          /\ UNCHANGED <<queue, shut, got, source, stem, fNoticeSource, inQueue,
                         replying, accepted, overlap>>
      BY <1>2, <2>2 DEF SendMessage, ports, messages
    <3>1. /\ name' \in {name, Nothing}
          /\ robbed' \subseteq Calls /\ robbed \subseteq robbed'
          /\ \A d \in Calls \ {c} : pc[d] = "made" => name' = name \/ d \in robbed'
      BY <2>2, RenameInv
    <3>2. \A d \in Calls : pc'[d] = IF d = c THEN "returned" ELSE pc[d]
      BY <2>2
    <3>3. TypeOK'
      BY <2>2, <3>0, <3>1
    <3>4. CallerIsNotForgotten' /\ NamedUntilPosted' /\ NothingYet'
      BY <3>0, <3>1, <3>2, <3>3 DEF NamedUntilPosted, NothingYet
    <3>5. RepliesAreHeld' /\ AcceptedIsQueued'
      BY <3>0, <3>1, <3>2 DEF RepliesAreHeld, AcceptedIsQueued
    <3>6. OneByOne'
      <4>1. UnderWay' = UnderWay
        BY <3>0, <3>1, <3>2 DEF UnderWay
      <4> QED BY <3>0, <3>1, <4>1 DEF OneByOne, UnderWay
    <3>7. AcceptedReplyArrives'
      BY <3>0, <3>1, <3>2 DEF AcceptedReplyArrives
    <3> QED BY <3>4, <3>5, <3>6, <3>7
  <2> QED BY <1>2, <2>1, <2>2 DEF SendMessage, Goto
<1>3. ASSUME NEW c \in Calls, PostMessage(c) PROVE IInv'
  <2>1. CASE /\ pc' = [pc EXCEPT ![c] = "waiting"]
             /\ source' = [source EXCEPT ![c] = name]
             /\ stem' = [stem EXCEPT ![c] = c]
             /\ fNoticeSource' = Noticing(c)
             /\ inQueue' = inQueue \cup {c}
    <3>1. /\ pc[c] = "made"
          /\ UNCHANGED <<name, queue, shut, got, replying, accepted, robbed, overlap>>
      BY <1>3 DEF PostMessage, ports, history
    <3>2. /\ \A d \in Calls : pc'[d] = IF d = c THEN "waiting" ELSE pc[d]
          /\ \A o \in Objects : source'[o] = IF o = c THEN name ELSE source[o]
          /\ \A o \in Objects : stem'[o] = IF o = c THEN c ELSE stem[o]
          /\ fNoticeSource' = fNoticeSource \cup {c}
      BY <2>1 DEF Noticing
    <3>3. stem[c] = Nothing /\ c \notin replying /\ c \notin accepted
      BY <3>1 DEF NothingYet, RepliesAreHeld, AcceptedIsQueued
    <3>4. TypeOK'
      BY <2>1, <3>1, <3>2
    <3>5. CallerIsNotForgotten'
      BY <3>1, <3>2, <3>4 DEF NamedUntilPosted
    <3>6. NamedUntilPosted' /\ AcceptedIsQueued'
      BY <3>1, <3>2, <3>3 DEF NamedUntilPosted, AcceptedIsQueued
    <3>7. NothingYet'
      BY <3>1, <3>2 DEF NothingYet
    <3>8. RepliesAreHeld'
      BY <2>1, <3>1, <3>2, <3>3 DEF RepliesAreHeld
    <3>9. OneByOne'
      <4>1. UnderWay' = UnderWay /\ c \in UnderWay
        BY <3>1, <3>2 DEF UnderWay
      <4> QED BY <3>1, <3>2, <4>1 DEF OneByOne, UnderWay
    <3>10. AcceptedReplyArrives'
      BY <3>1, <3>2 DEF AcceptedReplyArrives
    <3> QED BY <3>5, <3>6, <3>7, <3>8, <3>9, <3>10
  <2>2. CASE /\ pc' = [pc EXCEPT ![c] = "failed"]
             /\ UNCHANGED <<source, stem, fNoticeSource, inQueue>>
    BY <1>0, <1>3, <2>2 DEF PostMessage, ports, history
  <2> QED BY <1>3, <2>1, <2>2 DEF PostMessage, Goto
<1>4. ASSUME NEW c \in Calls, PeekReply(c) \/ ReplyClosed(c) \/ ReplyTimedOut(c)
      PROVE  IInv'
  BY <1>0, <1>4 DEF PeekReply, ReplyClosed, ReplyTimedOut, Goto, ports, messages, history
<1>5. ASSUME NEW c \in Calls, ReadReply(c) PROVE IInv'
  <2>1. /\ pc[c] = "reading" /\ queue[c] # <<>>
        /\ pc' = [pc EXCEPT ![c] = "answered"]
        /\ got' = [got EXCEPT ![c] = Head(queue[c])]
        /\ queue' = [queue EXCEPT ![c] = Tail(queue[c])]
        /\ UNCHANGED <<name, shut, source, stem, fNoticeSource, inQueue, replying,
                       accepted, robbed, overlap>>
    BY <1>5 DEF ReadReply, Goto, messages, history
  <2>2. PICK d \in Calls : queue[c] = <<d>>
    BY <2>1
  <2>3. Head(queue[c]) = d /\ Tail(queue[c]) = <<>>
    BY <2>2
  <2>4. /\ \A e \in Calls : pc'[e] = IF e = c THEN "answered" ELSE pc[e]
        /\ \A e \in Calls : got'[e] = IF e = c THEN d ELSE got[e]
        /\ \A e \in Calls : queue'[e] = IF e = c THEN <<>> ELSE queue[e]
    BY <2>1, <2>3
  <2>5. TypeOK'
    <3>1. queue' \in [Calls -> {<<>>} \cup {<<e>> : e \in Calls}]
      BY <2>1, <2>3
    <3>2. got' \in [Calls -> Calls \cup {Nothing}]
      BY <2>1, <2>3
    <3> QED BY <2>1, <3>1, <3>2
  <2>6. CallerIsNotForgotten' /\ NamedUntilPosted'
    BY <2>1, <2>4, <2>5 DEF NamedUntilPosted
  <2>7. NothingYet' /\ RepliesAreHeld' /\ AcceptedIsQueued'
    BY <2>1, <2>4 DEF NothingYet, RepliesAreHeld, AcceptedIsQueued
  <2>8. OneByOne' /\ (~overlap => c = d)
    <3>1. UnderWay' = UnderWay /\ c \in UnderWay
      BY <2>1, <2>4 DEF UnderWay
    <3>2. ~overlap => c = d
      <4> SUFFICES ASSUME ~overlap PROVE c = d OBVIOUS
      <4>1. <<d>> \in {<<>>, <<c>>}
        BY <2>2, <3>1 DEF OneByOne
      <4> QED BY <4>1
    <3>3. ASSUME ~overlap, NEW e \in UnderWay
          PROVE  /\ UnderWay = {e}
                 /\ \A o \in Objects : stem[o] \in {Nothing, e}
                 /\ queue'[e] \in {<<>>, <<e>>}
      BY <2>4, <3>3 DEF OneByOne, UnderWay
    <3> QED BY <2>1, <3>1, <3>2, <3>3 DEF OneByOne
  <2>9. AcceptedReplyArrives'
    BY <2>1, <2>4, <2>8 DEF AcceptedReplyArrives
  <2> QED BY <2>6, <2>7, <2>8, <2>9
<1>6. ASSUME NEW c \in Calls, EndOfCall(c) PROVE IInv'
  <2>1. /\ pc[c] \in {"failed", "answered", "closed"}
        /\ shut' = [shut EXCEPT ![c] = TRUE]
        /\ pc' = [pc EXCEPT ![c] = "closing"]
        /\ got' = [got EXCEPT ![c] = Nothing]
        /\ accepted' = accepted \ {c}
        /\ robbed' = robbed \ {c}
        /\ UNCHANGED <<name, queue, source, stem, fNoticeSource, inQueue, replying, overlap>>
    BY <1>6 DEF EndOfCall, Goto, messages
  <2>2. /\ \A e \in Calls : pc'[e] = IF e = c THEN "closing" ELSE pc[e]
        /\ \A e \in Calls : got'[e] = IF e = c THEN Nothing ELSE got[e]
        /\ \A e \in Calls : shut'[e] = IF e = c THEN TRUE ELSE shut[e]
    BY <2>1
  <2>3. TypeOK'
    BY <2>1
  <2>4. CallerIsNotForgotten' /\ NamedUntilPosted'
    BY <2>1, <2>2, <2>3 DEF NamedUntilPosted
  <2>5. NothingYet' /\ RepliesAreHeld' /\ AcceptedIsQueued'
    BY <2>1, <2>2 DEF NothingYet, RepliesAreHeld, AcceptedIsQueued
  <2>6. OneByOne'
    <3>1. UnderWay' = UnderWay
      BY <2>1, <2>2 DEF UnderWay
    <3> QED BY <2>1, <3>1 DEF OneByOne, UnderWay
  <2>7. AcceptedReplyArrives'
    BY <2>1, <2>2 DEF AcceptedReplyArrives
  <2> QED BY <2>4, <2>5, <2>6, <2>7
<1>7. ASSUME NEW c \in Calls, UnlinkArea(c) \/ UnlinkSems(c) PROVE IInv'
  <2>1. /\ pc[c] \in {"closing", "unlinking"}
        /\ name' = Nothing
        /\ robbed' \subseteq Calls /\ robbed \subseteq robbed'
        /\ \A d \in Calls \ {c} : pc[d] = "made" => d \in robbed'
        /\ UNCHANGED <<queue, shut, got, source, stem, fNoticeSource, inQueue, replying,
                       accepted, overlap>>
    BY <1>7, RenameInv DEF UnlinkArea, UnlinkSems, ports, messages
  <2>2. PICK place \in {"unlinking", "returned"} : pc' = [pc EXCEPT ![c] = place]
    BY <1>7 DEF UnlinkArea, UnlinkSems, Goto
  <2>3. \A d \in Calls : pc'[d] = IF d = c THEN place ELSE pc[d]
    BY <2>2
  <2>4. TypeOK'
    BY <2>1, <2>2
  <2>5. CallerIsNotForgotten' /\ NamedUntilPosted'
    BY <2>1, <2>3, <2>4 DEF NamedUntilPosted
  <2>6. NothingYet' /\ RepliesAreHeld' /\ AcceptedIsQueued'
    BY <2>1, <2>3 DEF NothingYet, RepliesAreHeld, AcceptedIsQueued
  <2>7. OneByOne'
    <3>1. UnderWay' \subseteq UnderWay
      BY <2>1, <2>3 DEF UnderWay
    <3> QED BY <2>1, <3>1 DEF OneByOne, UnderWay
  <2>8. AcceptedReplyArrives'
    BY <2>1, <2>3 DEF AcceptedReplyArrives
  <2> QED BY <2>5, <2>6, <2>7, <2>8
<1>8. ASSUME NEW o \in Objects, Dispatch(o) \/ WriteRefused(o) \/ WriteFails(o)
      PROVE  IInv'
  BY <1>0, <1>8 DEF Dispatch, WriteRefused, WriteFails, ports, calls, history
<1>9. ASSUME NEW o \in Objects, Drop(o) \/ Delete(o) \/ Overwrite(o) PROVE IInv'
  <2>1. /\ Dispose(o) /\ o \notin replying
        /\ inQueue' \subseteq inQueue
        /\ stem' = [stem EXCEPT ![o] = Nothing] \/ stem' = stem
        /\ UNCHANGED <<name, queue, calls, replying, history>>
    BY <1>9 DEF Drop, Delete, Overwrite, RepliesAreHeld
  <2>2. /\ stem' \in [Objects -> Calls \cup {Nothing}]
        /\ \A m \in Objects : stem'[m] = stem[m] \/ (m = o /\ stem'[m] = Nothing)
    <3>1. CASE stem' = stem
      BY <3>1
    <3>2. CASE stem' = [stem EXCEPT ![o] = Nothing]
      BY <3>2
    <3> QED BY <2>1, <3>1, <3>2
  <2> QED BY <2>1, <2>2, DisposeInv
<1>10. ASSUME NEW o \in Objects, NEW k \in Copies, Copy(o, k) PROVE IInv'
  <2> DEFINE port == IF source[o] = Nothing THEN Nothing ELSE name
  <2>1. /\ stem[o] # Nothing /\ stem[k] = Nothing
        /\ source' = [source EXCEPT ![k] = port]
        /\ stem' = [stem EXCEPT ![k] = stem[o]]
        /\ UNCHANGED <<name, queue, shut, pc, got, fNoticeSource, inQueue, replying,
                       accepted, robbed, overlap>>
    BY <1>10 DEF Copy, Held, Live, ports, calls, history
  <2>2. /\ \A m \in Objects : source'[m] = IF m = k THEN port ELSE source[m]
        /\ \A m \in Objects : stem'[m] = IF m = k THEN stem[o] ELSE stem[m]
        /\ port \in {name, Nothing}
    BY <2>1
  <2> HIDE DEF port
  <2>3. TypeOK'
    BY <2>1, <2>2
  <2>4. CallerIsNotForgotten' /\ NamedUntilPosted'
    BY <2>1, <2>2, <2>3 DEF NamedUntilPosted
  <2>5. NothingYet' /\ RepliesAreHeld' /\ AcceptedIsQueued'
    BY <2>1, <2>2 DEF NothingYet, RepliesAreHeld, AcceptedIsQueued
  <2>6. OneByOne'
    <3>1. UnderWay' = UnderWay
      BY <2>1 DEF UnderWay
    <3> QED BY <2>1, <2>2, <3>1 DEF OneByOne, UnderWay
  <2>7. AcceptedReplyArrives'
    BY <2>1 DEF AcceptedReplyArrives
  <2> QED BY <2>4, <2>5, <2>6, <2>7
<1>11. ASSUME NEW o \in Objects, SendReply(o) PROVE IInv'
  <2>1. /\ stem[o] # Nothing /\ source[o] # Nothing /\ o \notin inQueue
        /\ replying' = replying \cup {o}
        /\ UNCHANGED <<name, queue, shut, pc, got, source, stem, fNoticeSource, inQueue,
                       accepted, robbed, overlap>>
    BY <1>11 DEF SendReply, Held, Live, ports, calls, history
  <2>2. RepliesAreHeld'
    BY <2>1 DEF RepliesAreHeld
  <2>3. UnderWay' = UnderWay
    BY <2>1 DEF UnderWay
  <2>4. TypeOK'
    BY <2>1
  <2>5. CallerIsNotForgotten'
    BY <2>1, <2>4
  <2> QED
    BY <2>1, <2>2, <2>3, <2>5
       DEF NamedUntilPosted, NothingYet, AcceptedIsQueued, OneByOne, UnderWay,
           AcceptedReplyArrives
<1>12. ASSUME NEW o \in Objects, WriteReply(o) PROVE IInv'
  <2> DEFINE p == source[o]
  <2>1. /\ o \in replying /\ p \in Calls /\ stem[o] \in Calls
        /\ queue' = [queue EXCEPT ![p] = <<stem[o]>>]
        /\ replying' = replying \ {o}
        /\ accepted' = IF pc[p] = "waiting" THEN accepted \cup {p} ELSE accepted
        /\ UNCHANGED <<name, shut, pc, got, source, stem, fNoticeSource, inQueue,
                       robbed, overlap>>
    BY <1>12 DEF WriteReply, RepliesAreHeld, calls
  <2>2. pc[p] # "out"
    BY <2>1 DEF NothingYet
  <2> HIDE DEF p
  <2>3. \A c \in Calls : queue'[c] = IF c = p THEN <<stem[o]>> ELSE queue[c]
    BY <2>1
  <2>4. TypeOK'
    <3>1. queue' \in [Calls -> {<<>>} \cup {<<c>> : c \in Calls}]
      BY <2>1
    <3> QED BY <2>1, <3>1
  <2>5. <<stem[o]>> # <<>>
    OBVIOUS
  <2>6. CallerIsNotForgotten' /\ NamedUntilPosted'
    BY <2>1, <2>3, <2>4, <2>5 DEF NamedUntilPosted
  <2>7. NothingYet' /\ RepliesAreHeld'
    BY <2>1, <2>2, <2>3 DEF NothingYet, RepliesAreHeld
  <2>8. AcceptedIsQueued'
    BY <2>1, <2>2, <2>3, <2>5 DEF AcceptedIsQueued
  <2>9. OneByOne'
    <3>1. UnderWay' = UnderWay
      BY <2>1 DEF UnderWay
    <3>2. ASSUME ~overlap, p \in UnderWay PROVE stem[o] = p
      BY <2>1, <3>2 DEF OneByOne
    <3> QED BY <2>1, <2>3, <3>1, <3>2 DEF OneByOne, UnderWay
  <2>10. AcceptedReplyArrives'
    BY <2>1 DEF AcceptedReplyArrives
  <2> QED BY <2>6, <2>7, <2>8, <2>9, <2>10
<1> QED
  BY <1>1, <1>2, <1>3, <1>4, <1>5, <1>6, <1>7, <1>8, <1>9, <1>10, <1>11, <1>12
     DEF Next, CallerStep

-----------------------------------------------------------------------------

\* The invariant holds for any number of calls and copies.
THEOREM ReplyInvariant == Spec => []IInv
  BY InitInv, NextInv, PTL DEF Spec

\* However many calls share the port's name, a caller that waits without a limit
\* has a reply, a closed port or the message that will close it, unless it lost
\* the name before it had posted.
THEOREM CallerHasHope == Spec => []CallerIsNotForgotten
  BY ReplyInvariant, PTL DEF IInv

\* A reply accepted while the caller waited is never answered by B_ERROR from a
\* closed port, even if the message is deleted right after SendReply; and calls
\* that do not overlap get the replies to their own messages.
THEOREM AcceptedReplyIsSeen == Spec => []AcceptedReplyArrives
  BY ReplyInvariant, PTL DEF IInv

-----------------------------------------------------------------------------
(* The tokens of the handlers that messages and messengers lead to *)

-----------------------------------------------------------------------------
(* The list of records *)

Entries == Records \cup {None}

\* The vitalities of a record, 0 for one that is not there.
Vit(s, i) == IF Valid(s, i) THEN s[i].vitalities ELSE 0

\* The list ends with a record that is in use.
EndsInUse(s) == s # <<>> => s[Len(s)] # None

\* What t still has of s, it has with the same stamp and for the same handler.
Keeps(s, t) ==
    /\ Len(t) <= Len(s)
    /\ \A i \in Nat : Valid(t, i) => /\ Valid(s, i)
                                     /\ t[i].stamp = s[i].stamp
                                     /\ t[i].data = s[i].data

\* A record that is there is one.
LEMMA ValidRecord ==
    ASSUME NEW s \in Seq(Entries), NEW i, Valid(s, i)
    PROVE  /\ s[i] \in Records /\ s[i] # None
           /\ i \in Nat \ {0} /\ i <= Len(s)
           /\ Vit(s, i) \in Nat \ {0}
<1>1. Len(s) \in Nat /\ s \in [1..Len(s) -> Entries]
  BY LenProperties
<1>2. i \in 1..Len(s) /\ s[i] # None
  BY DEF Valid
<1>3. s[i] \in Records
  BY <1>1, <1>2 DEF Entries
<1>4. s[i].vitalities \in Nat \ {0}
  BY <1>3 DEF Records
<1> QED BY <1>1, <1>2, <1>3, <1>4 DEF Vit

\* The greatest index in use exists.
LEMMA LastInUse ==
    ASSUME NEW s \in Seq(Entries), ~Drained(s)
    PROVE  \E i \in 1..Len(s) : /\ s[i] # None
                                /\ \A j \in i + 1..Len(s) : s[j] = None
<1> DEFINE I == {i \in 1..Len(s) : s[i] # None}
           T == {Len(s) - i : i \in I}
<1>1. Len(s) \in Nat
  BY LenProperties
<1>2. T \in SUBSET Nat /\ T # {}
  BY <1>1 DEF Drained
<1>3. \E x \in T : \A y \in T : x <= y
  <2> HIDE DEF T
  <2>1. \E x \in T : \A y \in T : ~ (<<y, x>> \in OpToRel(<, Nat))
    BY <1>2, NatLessThanWellFounded, WFMin
  <2>2. PICK x \in T : \A y \in T : ~ (<<y, x>> \in OpToRel(<, Nat))
    BY <2>1
  <2>3. \A y \in T : ~ (y < x)
    BY <1>2, <2>2 DEF OpToRel
  <2>4. \A y \in T : x <= y
    BY <1>2, <2>3
  <2> QED BY <2>4
<1>4. PICK i \in I : \A j \in I : Len(s) - i <= Len(s) - j
  BY <1>3
<1>5. \A j \in i + 1..Len(s) : s[j] = None
  BY <1>1, <1>4
<1> QED BY <1>4, <1>5

\* What RemoveToken's clean-up leaves: the same records, and none empty at the end.
LEMMA TrimmedKeeps ==
    ASSUME NEW s \in Seq(Entries)
    PROVE  /\ Trimmed(s) \in Seq(Entries)
           /\ EndsInUse(Trimmed(s))
           /\ Len(Trimmed(s)) <= Len(s)
           /\ \A i \in Nat : /\ Valid(Trimmed(s), i) <=> Valid(s, i)
                             /\ Valid(s, i) => Trimmed(s)[i] = s[i]
<1>1. Len(s) \in Nat /\ s \in [1..Len(s) -> Entries]
  BY LenProperties
<1>2. CASE Drained(s)
  <2>1. Trimmed(s) = <<>>
    BY <1>2 DEF Trimmed
  <2>2. Trimmed(s) \in Seq(Entries) /\ Len(Trimmed(s)) = 0
    BY <2>1, EmptySeq
  <2>3. \A i : ~Valid(s, i)
    BY <1>2 DEF Drained, Valid
  <2>4. \A i : ~Valid(Trimmed(s), i)
    BY <2>2 DEF Valid
  <2> QED BY <1>1, <2>1, <2>2, <2>3, <2>4 DEF EndsInUse
<1>3. CASE ~Drained(s)
  <2> DEFINE Q(k) == s[k] # None /\ \A j \in k + 1..Len(s) : s[j] = None
             n == CHOOSE k \in 1..Len(s) : Q(k)
             t == SubSeq(s, 1, n)
  <2>1. n \in 1..Len(s) /\ Q(n)
    BY <1>3, LastInUse
  <2>2. Trimmed(s) = t
    BY <1>3 DEF Trimmed
  <2> HIDE DEF n
  <2>3. /\ t \in Seq(Entries) /\ Len(t) = n
        /\ \A i \in 1..n : t[i] = s[i]
    <3>1. 1 \in Int /\ n \in Int /\ \A i \in 1..n : s[i] \in Entries
      BY <1>1, <2>1
    <3>2. /\ t \in Seq(Entries)
          /\ Len(t) = IF 1 <= n THEN n - 1 + 1 ELSE 0
          /\ \A i \in 1..(n - 1 + 1) : t[i] = s[1 + i - 1]
      BY <3>1, SubSeqProperties
    <3>3. n \in Nat /\ 1 <= n /\ n - 1 + 1 = n /\ \A i \in 1..n : 1 + i - 1 = i
      BY <1>1, <2>1
    <3> QED BY <3>2, <3>3
  <2> HIDE DEF t
  <2>4. ASSUME NEW i \in Nat
        PROVE  Valid(t, i) <=> Valid(s, i)
    BY <1>1, <2>1, <2>3 DEF Valid
  <2>5. ASSUME NEW i \in Nat, Valid(s, i)
        PROVE  t[i] = s[i]
    <3>1. i \in 1..n
      BY <2>3, <2>4, <2>5 DEF Valid
    <3> QED BY <2>3, <3>1
  <2>6. EndsInUse(t)
    BY <1>1, <2>1, <2>3 DEF EndsInUse
  <2> QED BY <1>1, <2>1, <2>2, <2>3, <2>4, <2>5, <2>6
<1> QED BY <1>2, <1>3

\* t is s with the record id replaced by e; cleared; with n vitalities.
Replaced(s, id, e, t) == t = [s EXCEPT ![id] = e]
Cleared(s, id, t) == t = Trimmed([s EXCEPT ![id] = None])
Recounted(s, id, n, t) == t = [s EXCEPT ![id].vitalities = n]

\* One record replaced by another.
LEMMA ChangedRecord ==
    ASSUME NEW s \in Seq(Entries), NEW id, Valid(s, id),
           NEW e \in Records, NEW t, Replaced(s, id, e, t)
    PROVE  /\ t \in Seq(Entries)
           /\ EndsInUse(s) => EndsInUse(t)
           /\ Len(t) = Len(s)
           /\ t[id] = e
           /\ \A i \in Nat : /\ Valid(t, i) <=> Valid(s, i)
                             /\ i # id /\ Valid(s, i) => t[i] = s[i]
<1>1. /\ Len(s) \in Nat /\ s \in [1..Len(s) -> Entries]
      /\ id \in 1..Len(s) /\ s[id] # None
  BY LenProperties DEF Valid
<1>2. e \in Entries /\ e # None
  BY TokensAssumption DEF Entries, Records
<1>3. /\ t \in Seq(Entries) /\ Len(t) = Len(s)
      /\ \A j \in 1..Len(s) : t[j] = IF j = id THEN e ELSE s[j]
  BY <1>1, <1>2, ExceptSeq DEF Replaced
<1>4. \A i \in Nat : /\ Valid(t, i) <=> Valid(s, i)
                     /\ i # id /\ Valid(s, i) => t[i] = s[i]
  BY <1>1, <1>2, <1>3 DEF Valid
<1>5. EndsInUse(s) => EndsInUse(t)
  <2>1. s # <<>>
    BY <1>1
  <2>2. Len(s) \in 1..Len(s)
    BY <1>1
  <2> QED BY <1>2, <1>3, <2>1, <2>2 DEF EndsInUse
<1> QED BY <1>1, <1>3, <1>4, <1>5

\* One record cleared, and the end of the list with it.
LEMMA ClearedRecord ==
    ASSUME NEW s \in Seq(Entries), NEW id, Valid(s, id),
           NEW t, Cleared(s, id, t)
    PROVE  /\ t \in Seq(Entries)
           /\ EndsInUse(t)
           /\ Len(t) <= Len(s)
           /\ \A i \in Nat : /\ Valid(t, i) <=> Valid(s, i) /\ i # id
                             /\ Valid(t, i) => t[i] = s[i]
<1> DEFINE r == [s EXCEPT ![id] = None]
<1>1. /\ Len(s) \in Nat /\ s \in [1..Len(s) -> Entries]
      /\ id \in 1..Len(s) /\ None \in Entries
  BY LenProperties DEF Valid, Entries
<1>2. /\ t = Trimmed(r)
      /\ r \in Seq(Entries) /\ Len(r) = Len(s)
      /\ \A j \in 1..Len(s) : r[j] = IF j = id THEN None ELSE s[j]
  BY <1>1, ExceptSeq DEF Cleared
<1> HIDE DEF r
<1>3. /\ t \in Seq(Entries) /\ EndsInUse(t) /\ Len(t) <= Len(r)
      /\ \A i \in Nat : /\ Valid(t, i) <=> Valid(r, i)
                        /\ Valid(r, i) => t[i] = r[i]
  BY <1>2, TrimmedKeeps
<1>4. \A i \in Nat : /\ Valid(r, i) <=> Valid(s, i) /\ i # id
                     /\ Valid(r, i) => r[i] = s[i]
  BY <1>1, <1>2 DEF Valid
<1> QED BY <1>2, <1>3, <1>4

-----------------------------------------------------------------------------
(* References by name, and the record each is on *)

\* The names: the token of a handler, the two tokens of a messenger, and a
\* message's lookup.
RefNames == ({"token"} \X Handlers) \cup ({"handler"} \X Messengers)
              \cup ({"looper"} \X Messengers) \cup ({"letter"} \X Letters)

Tables == [RefNames -> (Nat \ {0}) \cup {None}]

\* The references that a table has on record i.
At(at, i) == {x \in RefNames : at[x] = i}

\* The table at with the reference x on record id.
Put(at, x, id) == [at EXCEPT ![x] = id]

\* The vitalities of every record are the references that the table has on it.
Counted(s, at) ==
    /\ s \in Seq(Entries)
    /\ at \in Tables
    /\ EndsInUse(s)
    /\ \A i \in Nat \ {0} : Vit(s, i) = Cardinality(At(at, i))

\* One entry of a table replaced.
LEMMA TableEntry ==
    ASSUME NEW at \in Tables, NEW x \in RefNames, NEW v \in (Nat \ {0}) \cup {None}
    PROVE  /\ Put(at, x, v) \in Tables
           /\ \A y \in RefNames : Put(at, x, v)[y] = IF y = x THEN v ELSE at[y]
  BY DEF Tables, Put

\* The references on a record are finitely many.
LEMMA AtFinite ==
    ASSUME NEW at, NEW i
    PROVE  IsFiniteSet(At(at, i)) /\ Cardinality(At(at, i)) \in Nat
<1>1. /\ IsFiniteSet({"token"}) /\ IsFiniteSet({"handler"})
      /\ IsFiniteSet({"looper"}) /\ IsFiniteSet({"letter"})
  BY FS_Singleton
<1>2. /\ IsFiniteSet({"token"} \X Handlers) /\ IsFiniteSet({"handler"} \X Messengers)
      /\ IsFiniteSet({"looper"} \X Messengers) /\ IsFiniteSet({"letter"} \X Letters)
  BY <1>1, FS_Product, TokensAssumption
<1>3. IsFiniteSet(({"token"} \X Handlers) \cup ({"handler"} \X Messengers))
  BY <1>2, FS_Union
<1>4. IsFiniteSet((({"token"} \X Handlers) \cup ({"handler"} \X Messengers))
                     \cup ({"looper"} \X Messengers))
  BY <1>2, <1>3, FS_Union
<1>5. IsFiniteSet(RefNames)
  BY <1>2, <1>4, FS_Union DEF RefNames
<1>6. At(at, i) \in SUBSET RefNames
  BY DEF At
<1> QED BY <1>5, <1>6, FS_Subset, FS_CardinalityType

\* What somebody refers to is there.
LEMMA ReferredIsValid ==
    ASSUME NEW s, NEW at, Counted(s, at),
           NEW x \in RefNames, at[x] # None
    PROVE  /\ at[x] \in Nat \ {0}
           /\ Valid(s, at[x])
           /\ s[at[x]].vitalities = Cardinality(At(at, at[x]))
           /\ s[at[x]] \in Records
<1>1. at[x] \in Nat \ {0}
  BY DEF Counted, Tables
<1>2. x \in At(at, at[x])
  BY DEF At
<1>3. Cardinality(At(at, at[x])) # 0
  BY <1>2, AtFinite, FS_EmptySet
<1>4. Vit(s, at[x]) = Cardinality(At(at, at[x]))
  BY <1>1 DEF Counted
<1>5. Valid(s, at[x]) /\ Vit(s, at[x]) = s[at[x]].vitalities
  BY <1>3, <1>4 DEF Vit
<1> QED BY <1>1, <1>4, <1>5, ValidRecord DEF Counted

\* A reference given up is one less on its record.
LEMMA OneLess ==
    ASSUME NEW s, NEW at, Counted(s, at),
           NEW x \in RefNames, at[x] # None,
           NEW t \in Seq(Entries), EndsInUse(t),
           \A i \in Nat \ {0} :
              Vit(t, i) = IF i = at[x] THEN Vit(s, i) - 1 ELSE Vit(s, i)
    PROVE  Counted(t, Put(at, x, None))
<1> DEFINE new == Put(at, x, None)
<1>1. at \in Tables /\ new \in Tables
  BY TableEntry DEF Counted
<1>2. ASSUME NEW i \in Nat \ {0}
      PROVE  Vit(t, i) = Cardinality(At(new, i))
  <2>1. None \notin Nat
    BY TokensAssumption
  <2>2. At(new, i) = IF i = at[x] THEN At(at, i) \ {x} ELSE At(at, i)
    <3>1. \A y \in RefNames : new[y] = IF y = x THEN None ELSE at[y]
      BY <1>1, TableEntry
    <3> HIDE DEF new
    <3>2. \A y : y \in At(new, i) <=> y \in (IF i = at[x] THEN At(at, i) \ {x} ELSE At(at, i))
      BY <2>1, <3>1 DEF At
    <3> QED BY <3>2
  <2>3. i = at[x] => x \in At(at, i)
    BY DEF At
  <2>4. Vit(s, i) = Cardinality(At(at, i))
    BY DEF Counted
  <2> HIDE DEF new
  <2>5. CASE i = at[x]
    <3>1. IsFiniteSet(At(at, i)) /\ x \in At(at, i)
      BY <2>3, <2>5, AtFinite
    <3>2. Cardinality(At(at, i) \ {x}) = Cardinality(At(at, i)) - 1
      BY <3>1, FS_RemoveElement
    <3> QED BY <2>2, <2>4, <2>5, <3>2
  <2> QED BY <2>2, <2>4, <2>5
<1> QED BY <1>1, <1>2 DEF Counted

\* A reference taken is one more on its record.
LEMMA OneMore ==
    ASSUME NEW s, NEW at, Counted(s, at),
           NEW x \in RefNames, at[x] = None, NEW id \in Nat \ {0},
           NEW t \in Seq(Entries), EndsInUse(t),
           \A i \in Nat \ {0} :
              Vit(t, i) = IF i = id THEN Vit(s, i) + 1 ELSE Vit(s, i)
    PROVE  Counted(t, Put(at, x, id))
<1> DEFINE new == Put(at, x, id)
<1>1. at \in Tables /\ new \in Tables
  BY TableEntry DEF Counted
<1>2. ASSUME NEW i \in Nat \ {0}
      PROVE  Vit(t, i) = Cardinality(At(new, i))
  <2>1. None \notin Nat
    BY TokensAssumption
  <2>2. At(new, i) = IF i = id THEN At(at, i) \cup {x} ELSE At(at, i)
    <3>1. \A y \in RefNames : new[y] = IF y = x THEN id ELSE at[y]
      BY <1>1, TableEntry
    <3> HIDE DEF new
    <3>2. \A y : y \in At(new, i) <=> y \in (IF i = id THEN At(at, i) \cup {x} ELSE At(at, i))
      BY <2>1, <3>1 DEF At
    <3> QED BY <3>2
  <2>3. x \notin At(at, i)
    BY <2>1 DEF At
  <2>4. Vit(s, i) = Cardinality(At(at, i))
    BY DEF Counted
  <2> HIDE DEF new
  <2>5. CASE i = id
    <3>1. IsFiniteSet(At(at, i)) /\ x \notin At(at, i)
      BY <2>3, <2>5, AtFinite
    <3>2. Cardinality(At(at, i) \cup {x}) = Cardinality(At(at, i)) + 1
      BY <3>1, FS_AddElement
    <3> QED BY <2>2, <2>4, <2>5, <3>2
  <2> QED BY <2>2, <2>4, <2>5
<1> QED BY <1>1, <1>2 DEF Counted

\* A record with another number of vitalities.
LEMMA RecountedRecord ==
    ASSUME NEW s \in Seq(Entries), NEW id, Valid(s, id),
           NEW n \in Nat \ {0}, NEW t, Recounted(s, id, n, t)
    PROVE  /\ t \in Seq(Entries)
           /\ EndsInUse(s) => EndsInUse(t)
           /\ Keeps(s, t) /\ Keeps(t, s)
           /\ \A i \in Nat \ {0} : Vit(t, i) = IF i = id THEN n ELSE Vit(s, i)
<1> DEFINE e == [s[id] EXCEPT !.vitalities = n]
<1>1. s[id] \in Records
  BY ValidRecord
<1>2. /\ e \in Records /\ e.vitalities = n
      /\ e.stamp = s[id].stamp /\ e.data = s[id].data
  BY <1>1 DEF Records
<1>3. Replaced(s, id, e, t)
  BY DEF Recounted, Replaced
<1> HIDE DEF e
<1>4. /\ t \in Seq(Entries)
      /\ EndsInUse(s) => EndsInUse(t)
      /\ Len(t) = Len(s)
      /\ t[id] = e
      /\ \A i \in Nat : /\ Valid(t, i) <=> Valid(s, i)
                        /\ i # id /\ Valid(s, i) => t[i] = s[i]
  BY <1>2, <1>3, ChangedRecord
<1>5. Len(s) \in Nat
  BY LenProperties
<1>6. \A i \in Nat : Valid(s, i) => t[i].stamp = s[i].stamp /\ t[i].data = s[i].data
  BY <1>2, <1>4
<1>7. Keeps(s, t) /\ Keeps(t, s)
  BY <1>4, <1>5, <1>6 DEF Keeps
<1>8. id \in Nat \ {0}
  BY ValidRecord
<1>9. \A i \in Nat \ {0} : Vit(t, i) = IF i = id THEN n ELSE Vit(s, i)
  BY <1>2, <1>4, <1>8 DEF Vit
<1> QED BY <1>4, <1>7, <1>9

\* unref_handler gives back the reference x, if it is on a record at all.
LEMMA UnrefCounted ==
    ASSUME NEW s, NEW at, Counted(s, at), NEW x \in RefNames
    PROVE  /\ Counted(Unref(s, at[x]), Put(at, x, None))
           /\ Keeps(s, Unref(s, at[x]))
<1> DEFINE id == at[x]
           t == Unref(s, id)
<1>1. s \in Seq(Entries) /\ Len(s) \in Nat /\ at \in Tables /\ EndsInUse(s)
  BY LenProperties DEF Counted
<1>2. CASE id = None
  <2>1. ~Valid(s, None)
    BY <1>1, TokensAssumption DEF Valid
  <2>2. t = s
    BY <1>2, <2>1 DEF Unref
  <2>3. Put(at, x, None) = at
    BY <1>1, <1>2 DEF Tables, Put
  <2> QED BY <1>1, <2>2, <2>3 DEF Keeps
<1>3. CASE id # None
  <2>1. /\ id \in Nat \ {0} /\ Valid(s, id) /\ s[id] \in Records
        /\ s[id].vitalities \in Nat \ {0} /\ Vit(s, id) = s[id].vitalities
    BY <1>3, ReferredIsValid DEF Records, Vit
  <2>2. /\ t \in Seq(Entries) /\ EndsInUse(t) /\ Keeps(s, t)
        /\ \A i \in Nat \ {0} : Vit(t, i) = IF i = id THEN Vit(s, i) - 1 ELSE Vit(s, i)
    <3>1. CASE s[id].vitalities = 1
      <4>1. Cleared(s, id, t)
        BY <2>1, <3>1 DEF Unref, Cleared
      <4> HIDE DEF t, id
      <4>2. /\ t \in Seq(Entries) /\ EndsInUse(t) /\ Len(t) <= Len(s)
            /\ \A i \in Nat : /\ Valid(t, i) <=> Valid(s, i) /\ i # id
                              /\ Valid(t, i) => t[i] = s[i]
        BY <1>1, <2>1, <4>1, ClearedRecord
      <4>3. Keeps(s, t)
        BY <4>2 DEF Keeps
      <4>4. \A i \in Nat \ {0} : Vit(t, i) = IF i = id THEN Vit(s, i) - 1 ELSE Vit(s, i)
        BY <2>1, <3>1, <4>2 DEF Vit
      <4> QED BY <4>2, <4>3, <4>4
    <3>2. CASE s[id].vitalities # 1
      <4> DEFINE n == s[id].vitalities - 1
      <4>1. n \in Nat \ {0}
        BY <2>1, <3>2
      <4>2. Recounted(s, id, n, t)
        BY <2>1, <3>2 DEF Unref, Recounted
      <4> HIDE DEF t, id
      <4>3. /\ t \in Seq(Entries) /\ EndsInUse(t) /\ Keeps(s, t)
            /\ \A i \in Nat \ {0} : Vit(t, i) = IF i = id THEN n ELSE Vit(s, i)
        <5> HIDE DEF n
        <5> QED BY <1>1, <2>1, <4>1, <4>2, RecountedRecord
      <4> QED BY <2>1, <4>3
    <3> QED BY <3>1, <3>2
  <2> HIDE DEF t
  <2>3. Counted(t, Put(at, x, None))
    BY <1>3, <2>2, OneLess
  <2> QED BY <2>2, <2>3 DEF t
<1> QED BY <1>2, <1>3

\* ref_handler takes the reference x on a record that is there, or on none.
LEMMA RefCounted ==
    ASSUME NEW s, NEW at, Counted(s, at), NEW x \in RefNames,
           at[x] = None, NEW id, id = None \/ Valid(s, id)
    PROVE  /\ Counted(Ref(s, id), Put(at, x, id))
           /\ Keeps(s, Ref(s, id)) /\ Keeps(Ref(s, id), s)
<1> DEFINE t == Ref(s, id)
<1>1. s \in Seq(Entries) /\ Len(s) \in Nat /\ at \in Tables /\ EndsInUse(s)
  BY LenProperties DEF Counted
<1>2. CASE id = None
  <2>1. t = s
    BY <1>2 DEF Ref
  <2>2. Put(at, x, id) = at
    BY <1>1, <1>2 DEF Tables, Put
  <2> QED BY <1>1, <2>1, <2>2 DEF Keeps
<1>3. CASE id # None
  <2>1. Valid(s, id)
    BY <1>3
  <2>2. id \in Nat \ {0} /\ s[id] \in Records
    BY <1>1, <2>1, ValidRecord
  <2> DEFINE n == s[id].vitalities + 1
  <2>3. n \in Nat \ {0} /\ Vit(s, id) + 1 = n
    BY <2>1, <2>2 DEF Records, Vit
  <2>4. Recounted(s, id, n, t)
    BY <1>3 DEF Ref, Recounted
  <2> HIDE DEF t, n
  <2>5. /\ t \in Seq(Entries) /\ EndsInUse(t) /\ Keeps(s, t) /\ Keeps(t, s)
        /\ \A i \in Nat \ {0} : Vit(t, i) = IF i = id THEN n ELSE Vit(s, i)
    BY <1>1, <2>1, <2>3, <2>4, RecountedRecord
  <2>6. Counted(t, Put(at, x, id))
    <3>1. \A i \in Nat \ {0} : Vit(t, i) = IF i = id THEN Vit(s, i) + 1 ELSE Vit(s, i)
      BY <2>3, <2>5
    <3> QED BY <2>2, <2>5, <3>1, OneMore
  <2> QED BY <2>5, <2>6 DEF t
<1> QED BY <1>2, <1>3

\* AddToken appends a record, which its handler refers to.
LEMMA AddTokenCounted ==
    ASSUME NEW s, NEW at, Counted(s, at), NEW x \in RefNames,
           at[x] = None, NEW h \in Handlers, NEW now \in Nat,
           NEW id, id = Len(s) + 1, NEW t, t = AddToken(s, h, now)
    PROVE  /\ Counted(t, Put(at, x, id))
           /\ Len(t) = id /\ Valid(t, id) /\ ~Valid(s, id)
           /\ t[id].data = h /\ t[id].stamp = now
           /\ \A i \in Nat : i # id => (Valid(t, i) <=> Valid(s, i))
           /\ \A i \in Nat : Valid(s, i) => i # id /\ t[i] = s[i]
<1> DEFINE e == [vitalities |-> 1, stamp |-> now, data |-> h]
<1>1. s \in Seq(Entries) /\ Len(s) \in Nat /\ EndsInUse(s) /\ id \in Nat \ {0}
  BY LenProperties DEF Counted
<1>2. /\ e \in Records /\ e \in Entries /\ e # None
      /\ e.vitalities = 1 /\ e.stamp = now /\ e.data = h
  BY TokensAssumption DEF Records, Entries
<1>3. t = Append(s, e)
  BY DEF AddToken
<1> HIDE DEF e
<1>4. /\ t \in Seq(Entries) /\ Len(t) = id
      /\ \A i \in 1..Len(s) : t[i] = s[i]
      /\ t[id] = e
  BY <1>1, <1>2, <1>3, AppendProperties
<1>5. Valid(t, id) /\ ~Valid(s, id)
  BY <1>1, <1>2, <1>4 DEF Valid
<1>6. ASSUME NEW i \in Nat, i # id
      PROVE  Valid(t, i) <=> Valid(s, i)
  BY <1>1, <1>4, <1>6 DEF Valid
<1>7. ASSUME NEW i \in Nat, Valid(s, i)
      PROVE  i # id /\ t[i] = s[i]
  BY <1>1, <1>4, <1>7 DEF Valid
<1>8. EndsInUse(t)
  BY <1>2, <1>4 DEF EndsInUse
<1>9. ASSUME NEW i \in Nat \ {0}
      PROVE  Vit(t, i) = IF i = id THEN Vit(s, i) + 1 ELSE Vit(s, i)
  BY <1>2, <1>4, <1>5, <1>6, <1>7 DEF Vit
<1>10. Counted(t, Put(at, x, id))
  BY <1>1, <1>4, <1>8, <1>9, OneMore
<1> QED BY <1>2, <1>4, <1>5, <1>6, <1>7, <1>10

\* RemoveToken gives back the handler's own reference and forgets the handler.
LEMMA RemoveTokenCounted ==
    ASSUME NEW s, NEW at, Counted(s, at), NEW x \in RefNames,
           NEW id, at[x] = id, id # None, NEW t, t = RemoveToken(s, id)
    PROVE  /\ Counted(t, Put(at, x, None))
           /\ Len(t) <= Len(s)
           /\ \A i \in Nat : Valid(t, i) =>
                /\ Valid(s, i) /\ t[i].stamp = s[i].stamp
                /\ t[i].data = IF i = id THEN None ELSE s[i].data
<1> DEFINE Forgets(u) ==
              /\ Len(u) <= Len(s)
              /\ \A i \in Nat : Valid(u, i) =>
                    /\ Valid(s, i) /\ u[i].stamp = s[i].stamp
                    /\ u[i].data = IF i = id THEN None ELSE s[i].data
<1>1. s \in Seq(Entries) /\ Len(s) \in Nat /\ EndsInUse(s)
  BY LenProperties DEF Counted
<1>2. /\ id \in Nat \ {0} /\ Valid(s, id) /\ s[id] \in Records
      /\ s[id].vitalities \in Nat \ {0} /\ Vit(s, id) = s[id].vitalities
  BY ReferredIsValid DEF Records, Vit
<1>3. /\ t \in Seq(Entries) /\ EndsInUse(t) /\ Forgets(t)
      /\ \A i \in Nat \ {0} : Vit(t, i) = IF i = id THEN Vit(s, i) - 1 ELSE Vit(s, i)
  <2>1. CASE ~(s[id].vitalities > 1)
    <3>1. Cleared(s, id, t) /\ s[id].vitalities = 1
      BY <1>2, <2>1 DEF RemoveToken, Cleared
    <3>2. /\ t \in Seq(Entries) /\ EndsInUse(t) /\ Len(t) <= Len(s)
          /\ \A i \in Nat : /\ Valid(t, i) <=> Valid(s, i) /\ i # id
                            /\ Valid(t, i) => t[i] = s[i]
      BY <1>1, <1>2, <3>1, ClearedRecord
    <3>3. Forgets(t)
      BY <3>2
    <3>4. \A i \in Nat \ {0} : Vit(t, i) = IF i = id THEN Vit(s, i) - 1 ELSE Vit(s, i)
      BY <1>2, <3>1, <3>2 DEF Vit
    <3> QED BY <3>2, <3>3, <3>4
  <2>2. CASE s[id].vitalities > 1
    <3> DEFINE n == s[id].vitalities - 1
               e == [s[id] EXCEPT !.vitalities = n, !.data = None]
    <3>1. n \in Nat \ {0}
      BY <1>2, <2>2
    <3>2. Replaced(s, id, e, t)
      BY <2>2 DEF RemoveToken, Replaced
    <3> HIDE DEF n
    <3>3. /\ e \in Records /\ e.vitalities = n
          /\ e.stamp = s[id].stamp /\ e.data = None
      BY <1>2, <3>1 DEF Records
    <3> HIDE DEF e
    <3>4. /\ t \in Seq(Entries) /\ EndsInUse(t) /\ Len(t) = Len(s) /\ t[id] = e
          /\ \A i \in Nat : /\ Valid(t, i) <=> Valid(s, i)
                            /\ i # id /\ Valid(s, i) => t[i] = s[i]
      BY <1>1, <1>2, <3>2, <3>3, ChangedRecord
    <3>5. Forgets(t)
      BY <1>1, <3>3, <3>4
    <3>6. \A i \in Nat \ {0} : Vit(t, i) = IF i = id THEN n ELSE Vit(s, i)
      BY <1>2, <3>3, <3>4 DEF Vit
    <3>7. \A i \in Nat \ {0} : Vit(t, i) = IF i = id THEN Vit(s, i) - 1 ELSE Vit(s, i)
      BY <1>2, <3>6 DEF n
    <3> QED BY <3>4, <3>5, <3>7
  <2> QED BY <2>1, <2>2
<1>4. Counted(t, Put(at, x, None))
  BY <1>3, OneLess
<1> QED BY <1>3, <1>4

-----------------------------------------------------------------------------
(* The invariant *)

\* The record that each reference is on.
RecordOf(x) ==
    CASE x[1] = "token"   -> IF fToken[x[2]] = None THEN None ELSE fToken[x[2]].id
      [] x[1] = "handler" -> msgr[x[2]].handler
      [] x[1] = "looper"  -> msgr[x[2]].looper
      [] x[1] = "letter"  -> IF userPc[x[2]] = "looper" THEN letter[x[2]].id ELSE None

refs == [x \in RefNames |-> RecordOf(x)]

\* A handler's record is its own, and made before now; a record that still
\* names a handler is the one that this handler holds.
RecordsAreOwned ==
    /\ \A h \in Handlers : fToken[h] # None =>
          /\ slots[fToken[h].id].data = h
          /\ slots[fToken[h].id].stamp = fToken[h].stamp
          /\ fToken[h].stamp < clock
    /\ \A i \in Nat : Valid(slots, i) /\ slots[i].data # None =>
          /\ fToken[slots[i].data] # None
          /\ fToken[slots[i].data].id = i

\* Only living handlers have loopers, which live too.
LoopersLive ==
    \A h \in Handlers : fLooper[h] # None => fToken[h] # None /\ fToken[fLooper[h]] # None

\* The record that decides where a messenger leads.
TargetId(m) == IF msgr[m].handler = None THEN msgr[m].looper ELSE msgr[m].handler

\* A messenger leads to what it was made for, unless it has yet to compare the
\* time stamps; between two sections it has the handler's reference only.
MessengerAims(m) ==
    /\ userPc[m] # "check" /\ HandlerOf(slots, TargetId(m)) # None =>
          Made(HandlerOf(slots, TargetId(m))) = meant[m]
    /\ userPc[m] # "idle" => msgr[m].handler # None /\ msgr[m].looper = None

\* A record with the number and the stamp of a message is of the handler that
\* the message is for; and only that handler was ever given it.
LetterAims(r) ==
    /\ userPc[r] # "idle" => letter[r] # None
    /\ letter[r] # None =>
          /\ letter[r].stamp < clock
          /\ HandlerOf(slots, letter[r].id) # None /\ SameStamp(r) =>
                Made(HandlerOf(slots, letter[r].id)) = meant[r]
    /\ reached[r] # None => reached[r] = meant[r]

TokensInv ==
    /\ TokensTypeOK
    /\ Counted(slots, refs)
    /\ Len(slots) <= clock
    /\ RecordsAreOwned
    /\ LoopersLive
    /\ \A m \in Messengers : MessengerAims(m)
    /\ \A r \in Letters : LetterAims(r)

-----------------------------------------------------------------------------
(* Frames *)

\* The table of references, name by name.
LEMMA RefsByName ==
    /\ \A h \in Handlers :
          /\ <<"token", h>> \in RefNames
          /\ refs[<<"token", h>>] = IF fToken[h] = None THEN None ELSE fToken[h].id
    /\ \A m \in Messengers :
          /\ <<"handler", m>> \in RefNames /\ <<"looper", m>> \in RefNames
          /\ refs[<<"handler", m>>] = msgr[m].handler
          /\ refs[<<"looper", m>>] = msgr[m].looper
    /\ \A r \in Letters :
          /\ <<"letter", r>> \in RefNames
          /\ refs[<<"letter", r>>] = IF userPc[r] = "looper" THEN letter[r].id ELSE None
<1>1. \A h \in Handlers : <<"token", h>> \in RefNames
  BY DEF RefNames
<1>2. \A m \in Messengers : <<"handler", m>> \in RefNames /\ <<"looper", m>> \in RefNames
  BY DEF RefNames
<1>3. \A r \in Letters : <<"letter", r>> \in RefNames
  BY DEF RefNames
<1>4. \A h \in Handlers :
         refs[<<"token", h>>] = IF fToken[h] = None THEN None ELSE fToken[h].id
  BY <1>1 DEF refs, RecordOf
<1>5. \A m \in Messengers : /\ refs[<<"handler", m>>] = msgr[m].handler
                            /\ refs[<<"looper", m>>] = msgr[m].looper
  BY <1>2 DEF refs, RecordOf
<1>6. \A r \in Letters :
         refs[<<"letter", r>>] = IF userPc[r] = "looper" THEN letter[r].id ELSE None
  BY <1>3 DEF refs, RecordOf
<1> QED BY <1>1, <1>2, <1>3, <1>4, <1>5, <1>6

\* The same for the next state.
LEMMA RefsByNameNext ==
    /\ \A h \in Handlers :
          refs'[<<"token", h>>] = IF fToken'[h] = None THEN None ELSE fToken'[h].id
    /\ \A m \in Messengers :
          /\ refs'[<<"handler", m>>] = msgr'[m].handler
          /\ refs'[<<"looper", m>>] = msgr'[m].looper
    /\ \A r \in Letters :
          refs'[<<"letter", r>>] = IF userPc'[r] = "looper" THEN letter'[r].id ELSE None
<1>1. \A h \in Handlers : <<"token", h>> \in RefNames
  BY DEF RefNames
<1>2. \A m \in Messengers : <<"handler", m>> \in RefNames /\ <<"looper", m>> \in RefNames
  BY DEF RefNames
<1>3. \A r \in Letters : <<"letter", r>> \in RefNames
  BY DEF RefNames
<1>4. \A h \in Handlers :
         refs'[<<"token", h>>] = IF fToken'[h] = None THEN None ELSE fToken'[h].id
  BY <1>1 DEF refs, RecordOf
<1>5. \A m \in Messengers : /\ refs'[<<"handler", m>>] = msgr'[m].handler
                            /\ refs'[<<"looper", m>>] = msgr'[m].looper
  BY <1>2 DEF refs, RecordOf
<1>6. \A r \in Letters :
         refs'[<<"letter", r>>] = IF userPc'[r] = "looper" THEN letter'[r].id ELSE None
  BY <1>3 DEF refs, RecordOf
<1> QED BY <1>4, <1>5, <1>6

\* A table is determined by what it has for the four kinds of names.
LEMMA RefsEqual ==
    ASSUME NEW at \in Tables,
           \A h \in Handlers : at[<<"token", h>>] = refs'[<<"token", h>>],
           \A m \in Messengers : /\ at[<<"handler", m>>] = refs'[<<"handler", m>>]
                                 /\ at[<<"looper", m>>] = refs'[<<"looper", m>>],
           \A r \in Letters : at[<<"letter", r>>] = refs'[<<"letter", r>>]
    PROVE  refs' = at
<1>1. ASSUME NEW x \in RefNames PROVE at[x] = refs'[x]
  <2>1. \/ \E h \in Handlers : x = <<"token", h>>
        \/ \E m \in Messengers : x = <<"handler", m>> \/ x = <<"looper", m>>
        \/ \E r \in Letters : x = <<"letter", r>>
    BY DEF RefNames
  <2> QED BY <2>1
<1>2. at = [x \in RefNames |-> at[x]]
  BY DEF Tables
<1>3. refs' = [x \in RefNames |-> refs'[x]]
  BY DEF refs
<1> QED BY <1>1, <1>2, <1>3

\* A living handler's record is there.
LEMMA OwnRecord ==
    ASSUME TokensInv, NEW h \in Handlers, fToken[h] # None
    PROVE  /\ fToken[h].id \in Ids /\ fToken[h].id \in Nat \ {0}
           /\ refs[<<"token", h>>] = fToken[h].id
           /\ fToken[h].id # None
           /\ Valid(slots, fToken[h].id)
           /\ HandlerOf(slots, fToken[h].id) = h
           /\ slots[fToken[h].id].stamp = fToken[h].stamp
<1>1. fToken[h] \in [id : Ids, stamp : Nat]
  BY DEF TokensInv, TokensTypeOK
<1>2. fToken[h].id \in Ids /\ fToken[h].id \in Nat \ {0} /\ fToken[h].id # None
  BY <1>1, TokensAssumption DEF Ids
<1>3. refs[<<"token", h>>] = fToken[h].id /\ <<"token", h>> \in RefNames
  BY RefsByName
<1>4. Valid(slots, fToken[h].id)
  BY <1>2, <1>3, ReferredIsValid DEF TokensInv
<1> QED BY <1>2, <1>3, <1>4 DEF TokensInv, RecordsAreOwned, HandlerOf

\* What a kept record names, it named before.
LEMMA HandlerKept ==
    ASSUME NEW s, NEW t \in Seq(Entries), Keeps(s, t), NEW i,
           HandlerOf(t, i) # None
    PROVE  /\ HandlerOf(t, i) = HandlerOf(s, i)
           /\ t[i].stamp = s[i].stamp
<1>1. Valid(t, i)
  BY DEF HandlerOf
<1>2. i \in Nat
  BY <1>1, ValidRecord
<1> QED BY <1>1, <1>2 DEF Keeps, HandlerOf

\* Steps on references alone: who is not concerned keeps its aim.
LEMMA SlotsKept ==
    ASSUME TokensInv, TokensTypeOK',
           Keeps(slots, slots'), Counted(slots', refs'),
           fToken' = fToken, clock' = clock, birth' = birth,
           fLooper' = fLooper \/ LoopersLive',
           \A m \in Messengers :
              \/ msgr'[m] = msgr[m] /\ userPc'[m] = userPc[m] /\ meant'[m] = meant[m]
              \/ MessengerAims(m)',
           \A r \in Letters :
              \/ /\ letter'[r] = letter[r] /\ (userPc'[r] = userPc[r] \/ letter[r] # None)
                 /\ meant'[r] = meant[r] /\ reached'[r] = reached[r]
              \/ LetterAims(r)'
    PROVE  TokensInv'
<1>1. slots' \in Seq(Entries) /\ Len(slots) \in Nat /\ Len(slots') \in Nat
  BY LenProperties DEF Counted, TokensInv
<1>2. Len(slots') <= clock'
  BY <1>1 DEF Keeps, TokensInv, TokensTypeOK
<1>3. ASSUME NEW h \in Handlers, fToken'[h] # None
      PROVE  /\ slots'[fToken'[h].id].data = h
             /\ slots'[fToken'[h].id].stamp = fToken'[h].stamp
             /\ fToken'[h].stamp < clock'
  <2>1. refs'[<<"token", h>>] = fToken[h].id /\ <<"token", h>> \in RefNames
    BY <1>3, RefsByName, RefsByNameNext
  <2>2. fToken[h].id # None /\ fToken[h].id \in Nat
    BY <1>3, OwnRecord
  <2>3. Valid(slots', fToken[h].id)
    BY <2>1, <2>2, ReferredIsValid
  <2> QED BY <1>3, <2>2, <2>3 DEF Keeps, TokensInv, RecordsAreOwned
<1>4. RecordsAreOwned'
  <2>1. ASSUME NEW i \in Nat, Valid(slots', i), slots'[i].data # None
        PROVE  fToken'[slots'[i].data] # None /\ fToken'[slots'[i].data].id = i
    BY <2>1 DEF Keeps, TokensInv, RecordsAreOwned
  <2> QED BY <1>3, <2>1 DEF RecordsAreOwned
<1>5. LoopersLive'
  BY DEF TokensInv, LoopersLive
<1>6. ASSUME NEW m \in Messengers PROVE MessengerAims(m)'
  <2>1. CASE msgr'[m] = msgr[m] /\ userPc'[m] = userPc[m] /\ meant'[m] = meant[m]
    <3>1. TargetId(m)' = TargetId(m)
      BY <2>1 DEF TargetId
    <3>2. HandlerOf(slots', TargetId(m)) # None =>
             HandlerOf(slots', TargetId(m)) = HandlerOf(slots, TargetId(m))
      BY <1>1, HandlerKept
    <3>3. MessengerAims(m)
      BY DEF TokensInv
    <3> QED BY <2>1, <3>1, <3>2, <3>3 DEF MessengerAims, Made
  <2> QED BY <2>1
<1>7. ASSUME NEW r \in Letters PROVE LetterAims(r)'
  <2>1. CASE /\ letter'[r] = letter[r] /\ (userPc'[r] = userPc[r] \/ letter[r] # None)
             /\ meant'[r] = meant[r] /\ reached'[r] = reached[r]
    <3>1. HandlerOf(slots', letter[r].id) # None =>
             /\ HandlerOf(slots', letter[r].id) = HandlerOf(slots, letter[r].id)
             /\ slots'[letter[r].id].stamp = slots[letter[r].id].stamp
      BY <1>1, HandlerKept
    <3>2. LetterAims(r)
      BY DEF TokensInv
    <3> QED BY <2>1, <3>1, <3>2 DEF LetterAims, Made, SameStamp
  <2> QED BY <2>1
<1> QED BY <1>2, <1>4, <1>5, <1>6, <1>7 DEF TokensInv

-----------------------------------------------------------------------------
(* Messengers *)

\* Records that are kept twice are kept.
LEMMA KeepsTransitive ==
    ASSUME NEW s \in Seq(Entries), NEW t \in Seq(Entries),
           NEW u \in Seq(Entries), Keeps(s, t), Keeps(t, u)
    PROVE  Keeps(s, u)
<1>1. Len(s) \in Nat /\ Len(t) \in Nat /\ Len(u) \in Nat
  BY LenProperties
<1> QED BY <1>1 DEF Keeps

\* The table once both references of m are given back.
Freed(m) == Put(Put(refs, <<"handler", m>>, None), <<"looper", m>>, None)

LEMMA ReleasedCounted ==
    ASSUME TokensInv, NEW m \in Messengers
    PROVE  /\ Counted(Released(slots, m), Freed(m))
           /\ Keeps(slots, Released(slots, m))
           /\ Freed(m) \in Tables
           /\ Freed(m)[<<"handler", m>>] = None
           /\ Freed(m)[<<"looper", m>>] = None
           /\ \A y \in RefNames : y # <<"handler", m>> /\ y # <<"looper", m>> =>
                 Freed(m)[y] = refs[y]
<1> DEFINE xh == <<"handler", m>>
           xl == <<"looper", m>>
           half == Put(refs, xh, None)
           s == Unref(slots, msgr[m].handler)
<1>1. /\ xh \in RefNames /\ xl \in RefNames /\ xh # xl
      /\ refs[xh] = msgr[m].handler /\ refs[xl] = msgr[m].looper
  BY RefsByName
<1>2. refs \in Tables /\ Counted(slots, refs) /\ slots \in Seq(Entries)
  BY DEF TokensInv, Counted
<1>3. Counted(s, half) /\ Keeps(slots, s)
  BY <1>1, <1>2, UnrefCounted
<1>4. half \in Tables /\ \A z \in RefNames : half[z] = IF z = xh THEN None ELSE refs[z]
  BY <1>1, <1>2 DEF Tables, Put
<1>5. half[xl] = msgr[m].looper
  BY <1>1, <1>4
<1>6. /\ Freed(m) = Put(half, xl, None)
      /\ Released(slots, m) = Unref(s, half[xl])
  BY <1>5 DEF Freed, Released
<1> HIDE DEF xh, xl, half, s
<1>7. Counted(Released(slots, m), Freed(m)) /\ Keeps(s, Released(slots, m))
  BY <1>1, <1>3, <1>6, UnrefCounted
<1>8. Keeps(slots, Released(slots, m))
  BY <1>2, <1>3, <1>7, KeepsTransitive DEF Counted
<1>9. /\ Freed(m) \in Tables
      /\ \A z \in RefNames : Freed(m)[z] = IF z = xl THEN None ELSE half[z]
  <2>1. xl \in RefNames /\ half \in Tables /\ None \in (Nat \ {0}) \cup {None}
    BY <1>1, <1>4
  <2>2. /\ Put(half, xl, None) \in Tables
        /\ \A z \in RefNames : Put(half, xl, None)[z] = IF z = xl THEN None ELSE half[z]
    BY <2>1 DEF Tables, Put
  <2> QED BY <1>6, <2>2
<1> QED BY <1>1, <1>4, <1>7, <1>8, <1>9 DEF xh, xl

Pairs == [handler : Ids \cup {None}, looper : Ids \cup {None}]

\* The table when the tokens of m become v and nothing else does.
LEMMA MessengerTable ==
    ASSUME TokensInv, NEW m \in Messengers, NEW v \in Pairs,
           msgr'[m] = v, \A n \in Messengers : n # m => msgr'[n] = msgr[n],
           fToken' = fToken, letter' = letter,
           \A r \in Letters : userPc'[r] = "looper" <=> userPc[r] = "looper",
           NEW at \in Tables,
           at[<<"handler", m>>] = v.handler, at[<<"looper", m>>] = v.looper,
           \A y \in RefNames : y # <<"handler", m>> /\ y # <<"looper", m>> => at[y] = refs[y]
    PROVE  refs' = at
<1>1. ASSUME NEW h \in Handlers PROVE at[<<"token", h>>] = refs'[<<"token", h>>]
  BY RefsByName, RefsByNameNext
<1>2. ASSUME NEW r \in Letters PROVE at[<<"letter", r>>] = refs'[<<"letter", r>>]
  BY RefsByName, RefsByNameNext
<1>3. ASSUME NEW n \in Messengers
      PROVE  /\ at[<<"handler", n>>] = refs'[<<"handler", n>>]
             /\ at[<<"looper", n>>] = refs'[<<"looper", n>>]
  <2>1. CASE n = m
    BY <2>1, RefsByNameNext
  <2>2. CASE n # m
    BY <2>2, RefsByName, RefsByNameNext
  <2> QED BY <2>1, <2>2
<1> QED BY <1>1, <1>2, <1>3, RefsEqual

\* A messenger without tokens leads nowhere.
LEMMA LeadsNowhere ==
    ASSUME NEW s \in Seq(Entries)
    PROVE  HandlerOf(s, None) = None
<1>1. Len(s) \in Nat
  BY LenProperties
<1> QED BY <1>1, TokensAssumption DEF HandlerOf, Valid

\* A messenger's step: its tokens become v, the records follow, and it aims.
LEMMA MessengerStep ==
    ASSUME TokensInv, NEW m \in Messengers, NEW v \in Pairs,
           msgr' \in [Messengers -> Pairs],
           msgr'[m] = v, \A n \in Messengers : n # m => msgr'[n] = msgr[n],
           fToken' = fToken, fLooper' = fLooper, letter' = letter,
           clock' = clock, birth' = birth, reached' = reached,
           userPc' \in [Users -> {"idle", "looper", "check"}],
           \A n \in Messengers : n # m => userPc'[n] = userPc[n],
           \A r \in Letters : /\ userPc'[r] = "looper" <=> userPc[r] = "looper"
                              /\ userPc'[r] = userPc[r] \/ letter[r] # None,
           meant' \in [Users -> Births],
           \A u \in Users : u # m => meant'[u] = meant[u],
           NEW new, Counted(slots', new), Keeps(slots, slots'),
           new[<<"handler", m>>] = v.handler, new[<<"looper", m>>] = v.looper,
           \A y \in RefNames : y # <<"handler", m>> /\ y # <<"looper", m>> => new[y] = refs[y],
           MessengerAims(m)'
    PROVE  TokensInv'
<1>1. m \in Users /\ m \notin Letters /\ \A r \in Letters : r \in Users
  BY TokensAssumption DEF Users
<1>3. refs' = new
  <2>1. new \in Tables
    BY DEF Counted
  <2>2. \A r \in Letters : userPc'[r] = "looper" <=> userPc[r] = "looper"
    OBVIOUS
  <2> QED BY <2>1, <2>2, MessengerTable
<1>4. TokensTypeOK'
  <2>1. slots' \in Seq(Records \cup {None})
    BY DEF Counted, Entries
  <2> QED BY <2>1 DEF TokensInv, TokensTypeOK, Pairs
<1>5. \A n \in Messengers : n # m =>
         msgr'[n] = msgr[n] /\ userPc'[n] = userPc[n] /\ meant'[n] = meant[n]
  BY DEF TokensInv, TokensTypeOK, Users
<1>6. \A r \in Letters : /\ letter'[r] = letter[r] /\ (userPc'[r] = userPc[r] \/ letter[r] # None)
                         /\ meant'[r] = meant[r] /\ reached'[r] = reached[r]
  BY <1>1
<1> QED BY <1>3, <1>4, <1>5, <1>6, SlotsKept

\* What changes when the tokens of m do, and what m is for.
LEMMA MessengerAssigned ==
    ASSUME TokensInv, NEW m \in Messengers, NEW v \in Pairs,
           msgr' = [msgr EXCEPT ![m] = v]
    PROVE  /\ msgr' \in [Messengers -> Pairs]
           /\ msgr'[m] = v
           /\ \A n \in Messengers : n # m => msgr'[n] = msgr[n]
  BY DEF TokensInv, TokensTypeOK, Pairs

LEMMA MeantAssigned ==
    ASSUME TokensInv, NEW u \in Users, NEW b \in Births,
           meant' = [meant EXCEPT ![u] = b]
    PROVE  /\ meant' \in [Users -> Births]
           /\ meant'[u] = b
           /\ \A w \in Users : w # u => meant'[w] = meant[w]
  BY DEF TokensInv, TokensTypeOK

LEMMA PlaceAssigned ==
    ASSUME TokensInv, NEW m \in Messengers,
           NEW p \in {"idle", "looper", "check"}, userPc' = [userPc EXCEPT ![m] = p]
    PROVE  /\ userPc' \in [Users -> {"idle", "looper", "check"}]
           /\ userPc'[m] = p
           /\ \A n \in Messengers : n # m => userPc'[n] = userPc[n]
           /\ \A r \in Letters : userPc'[r] = userPc[r]
  BY TokensAssumption DEF TokensInv, TokensTypeOK, Users

LEMMA MadeIsBirth ==
    ASSUME TokensInv, NEW h \in Handlers PROVE Made(h) \in Births
  BY DEF TokensInv, TokensTypeOK, Made, Births

\* InitData, for a handler and for a looper: the old references are given back
\* before the new one is taken, and the record is there because h is.
LEMMA NewTarget ==
    ASSUME TokensInv, NEW m \in Messengers, NEW h \in Handlers,
           fToken[h] # None,
           slots' = Ref(Released(slots, m), fToken[h].id),
           NEW x \in {<<"handler", m>>, <<"looper", m>>}
    PROVE  \E new : /\ Counted(slots', new) /\ Keeps(slots, slots')
                    /\ new[x] = fToken[h].id
                    /\ \A y \in RefNames \ {<<"handler", m>>, <<"looper", m>>} :
                          new[y] = refs[y]
                    /\ \A y \in {<<"handler", m>>, <<"looper", m>>} \ {x} : new[y] = None
                    /\ HandlerOf(slots', fToken[h].id) # None =>
                          HandlerOf(slots', fToken[h].id) = h
<1> DEFINE s == Released(slots, m)
           f == Freed(m)
           id == fToken[h].id
           new == Put(f, x, id)
<1>1. /\ Counted(s, f) /\ Keeps(slots, s) /\ f \in Tables
      /\ f[<<"handler", m>>] = None /\ f[<<"looper", m>>] = None
      /\ \A y \in RefNames : y # <<"handler", m>> /\ y # <<"looper", m>> => f[y] = refs[y]
  BY ReleasedCounted
<1>2. /\ id \in Nat \ {0} /\ id # None /\ refs[<<"token", h>>] = id
      /\ HandlerOf(slots, id) = h
  BY OwnRecord
<1>3. /\ <<"token", h>> \in RefNames
      /\ <<"handler", m>> \in RefNames /\ <<"looper", m>> \in RefNames
      /\ <<"token", h>> # <<"handler", m>> /\ <<"token", h>> # <<"looper", m>>
  BY RefsByName
<1> HIDE DEF s, f, id
<1>4. f[<<"token", h>>] = id
  BY <1>1, <1>2, <1>3
<1>5. Valid(s, id)
  BY <1>1, <1>2, <1>3, <1>4, ReferredIsValid
<1>6. f[x] = None /\ x \in RefNames
  BY <1>1, <1>3
<1>7. Counted(Ref(s, id), new) /\ Keeps(s, Ref(s, id))
  BY <1>1, <1>5, <1>6, RefCounted
<1>8. slots' = Ref(s, id)
  BY DEF s, id
<1>9. slots \in Seq(Entries) /\ s \in Seq(Entries) /\ slots' \in Seq(Entries)
  BY <1>1, <1>7, <1>8 DEF TokensInv, Counted
<1>10. Keeps(slots, slots')
  BY <1>1, <1>7, <1>8, <1>9, KeepsTransitive
<1>11. \A y \in RefNames : new[y] = IF y = x THEN id ELSE f[y]
  BY <1>1, <1>6 DEF Tables, Put
<1>12. HandlerOf(slots', id) # None => HandlerOf(slots', id) = h
  BY <1>2, <1>9, <1>10, HandlerKept
<1> HIDE DEF new
<1>13. new[x] = id /\ \A y \in RefNames \ {<<"handler", m>>, <<"looper", m>>} : new[y] = refs[y]
  BY <1>1, <1>6, <1>11
<1>14. \A y \in {<<"handler", m>>, <<"looper", m>>} \ {x} : new[y] = None
  BY <1>1, <1>3, <1>11
<1> QED BY <1>7, <1>8, <1>10, <1>12, <1>13, <1>14 DEF id

LEMMA InitDataInv ==
    ASSUME TokensInv, NEW m \in Messengers, NEW h \in Handlers,
           InitData(m, h)
    PROVE  TokensInv'
<1> DEFINE x == <<"handler", m>>
           v == [handler |-> fToken[h].id, looper |-> None]
<1>1. PICK new : /\ Counted(slots', new) /\ Keeps(slots, slots')
                 /\ new[x] = fToken[h].id
                 /\ \A y \in RefNames \ {<<"handler", m>>, <<"looper", m>>} : new[y] = refs[y]
                 /\ \A y \in {<<"handler", m>>, <<"looper", m>>} \ {x} : new[y] = None
                 /\ HandlerOf(slots', fToken[h].id) # None =>
                       HandlerOf(slots', fToken[h].id) = h
  BY NewTarget DEF InitData
<1>2. fToken[h].id \in Ids /\ fToken[h].id # None /\ v \in Pairs
      /\ v.handler = fToken[h].id /\ v.looper = None
  BY OwnRecord DEF InitData, Pairs
<1>3. new[<<"handler", m>>] = v.handler /\ new[<<"looper", m>>] = v.looper
  BY <1>1, <1>2
<1>4. /\ msgr' \in [Messengers -> Pairs] /\ msgr'[m] = v
      /\ \A n \in Messengers : n # m => msgr'[n] = msgr[n]
  BY <1>2, MessengerAssigned DEF InitData
<1>5. /\ userPc' \in [Users -> {"idle", "looper", "check"}] /\ userPc'[m] = "looper"
      /\ \A n \in Messengers : n # m => userPc'[n] = userPc[n]
      /\ \A r \in Letters : userPc'[r] = userPc[r]
  BY PlaceAssigned DEF InitData
<1>6. /\ meant' \in [Users -> Births] /\ meant'[m] = Made(h)
      /\ \A w \in Users : w # m => meant'[w] = meant[w]
  BY MeantAssigned, MadeIsBirth DEF InitData, Users
<1>7. MessengerAims(m)'
  BY <1>1, <1>2, <1>4, <1>5, <1>6 DEF MessengerAims, TargetId, Made, InitData
<1> QED BY <1>1, <1>2, <1>3, <1>4, <1>5, <1>6, <1>7, MessengerStep DEF InitData

LEMMA InitDataLooperInv ==
    ASSUME TokensInv, NEW m \in Messengers, NEW l \in Loopers,
           InitDataLooper(m, l)
    PROVE  TokensInv'
<1> DEFINE x == <<"looper", m>>
           v == [handler |-> None, looper |-> fToken[l].id]
<1>0. l \in Handlers
  BY TokensAssumption
<1>1. PICK new : /\ Counted(slots', new) /\ Keeps(slots, slots')
                 /\ new[x] = fToken[l].id
                 /\ \A y \in RefNames \ {<<"handler", m>>, <<"looper", m>>} : new[y] = refs[y]
                 /\ \A y \in {<<"handler", m>>, <<"looper", m>>} \ {x} : new[y] = None
                 /\ HandlerOf(slots', fToken[l].id) # None =>
                       HandlerOf(slots', fToken[l].id) = l
  BY <1>0, NewTarget DEF InitDataLooper
<1>2. fToken[l].id \in Ids /\ fToken[l].id # None /\ v \in Pairs
      /\ v.handler = None /\ v.looper = fToken[l].id
  BY <1>0, OwnRecord DEF InitDataLooper, Pairs
<1>3. new[<<"handler", m>>] = v.handler /\ new[<<"looper", m>>] = v.looper
  BY <1>1, <1>2
<1>4. /\ msgr' \in [Messengers -> Pairs] /\ msgr'[m] = v
      /\ \A n \in Messengers : n # m => msgr'[n] = msgr[n]
  BY <1>2, MessengerAssigned DEF InitDataLooper
<1>5. /\ userPc' = userPc /\ userPc[m] = "idle"
      /\ userPc' \in [Users -> {"idle", "looper", "check"}]
  BY DEF InitDataLooper, TokensInv, TokensTypeOK
<1>6. /\ meant' \in [Users -> Births] /\ meant'[m] = Made(l)
      /\ \A w \in Users : w # m => meant'[w] = meant[w]
  BY <1>0, MeantAssigned, MadeIsBirth DEF InitDataLooper, Users
<1>7. MessengerAims(m)'
  BY <1>1, <1>2, <1>4, <1>5, <1>6 DEF MessengerAims, TargetId, Made, InitDataLooper
<1> QED BY <1>1, <1>2, <1>3, <1>4, <1>5, <1>6, <1>7, MessengerStep DEF InitDataLooper

\* get_ref_looper_token, or the reference is given up: the handler's record is
\* there as long as m refers to it, and its looper's because loopers outlive
\* their handlers.
LEMMA LookupDone ==
    ASSUME TokensInv, NEW m \in Messengers, userPc[m] # "idle",
           \/ FindLooper(m)
           \/ Abandon(m) /\ msgr' = [msgr EXCEPT ![m] = NoTokens]
    PROVE  \E new, v :
             /\ v \in Pairs
             /\ msgr' \in [Messengers -> Pairs] /\ msgr'[m] = v
             /\ \A n \in Messengers : n # m => msgr'[n] = msgr[n]
             /\ Counted(slots', new) /\ Keeps(slots, slots')
             /\ new[<<"handler", m>>] = v.handler /\ new[<<"looper", m>>] = v.looper
             /\ \A y \in RefNames : y # <<"handler", m>> /\ y # <<"looper", m>> =>
                   new[y] = refs[y]
             /\ v = NoTokens \/ (v.handler = msgr[m].handler /\ v.handler # None)
<1> DEFINE x == <<"handler", m>>
           y == <<"looper", m>>
<1>1. /\ x \in RefNames /\ y \in RefNames /\ x # y
      /\ refs[x] = msgr[m].handler /\ refs[y] = msgr[m].looper
  BY RefsByName
<1>2. msgr[m].handler # None /\ msgr[m].looper = None /\ msgr[m] \in Pairs
  BY DEF TokensInv, MessengerAims, TokensTypeOK, Pairs
<1>3. refs \in Tables /\ Counted(slots, refs) /\ slots \in Seq(Entries)
  BY DEF TokensInv, Counted
<1>4. CASE Abandon(m) /\ msgr' = [msgr EXCEPT ![m] = NoTokens]
  <2> DEFINE new == Put(refs, x, None)
  <2>1. slots' = Unref(slots, refs[x])
    BY <1>1, <1>4 DEF Abandon
  <2>2. Counted(slots', new) /\ Keeps(slots, slots')
    BY <1>1, <1>3, <2>1, UnrefCounted
  <2>3. \A z \in RefNames : new[z] = IF z = x THEN None ELSE refs[z]
    BY <1>1, <1>3 DEF Tables, Put
  <2>4. NoTokens \in Pairs /\ NoTokens.handler = None /\ NoTokens.looper = None
    BY DEF NoTokens, Pairs
  <2>5. /\ msgr' \in [Messengers -> Pairs] /\ msgr'[m] = NoTokens
        /\ \A n \in Messengers : n # m => msgr'[n] = msgr[n]
    BY <1>4, <2>4, MessengerAssigned
  <2> HIDE DEF new
  <2>6. /\ new[<<"handler", m>>] = NoTokens.handler
        /\ new[<<"looper", m>>] = NoTokens.looper
        /\ \A z \in RefNames : z # <<"handler", m>> /\ z # <<"looper", m>> => new[z] = refs[z]
    BY <1>1, <1>2, <2>3, <2>4
  <2> QED BY <2>2, <2>4, <2>5, <2>6
<1>5. CASE ~(Abandon(m) /\ msgr' = [msgr EXCEPT ![m] = NoTokens])
  <2> DEFINE h == HandlerOf(slots, msgr[m].handler)
             id == fToken[fLooper[h]].id
             new == Put(refs, y, id)
             v == [msgr[m] EXCEPT !.looper = id]
  <2>1. /\ h # None /\ fLooper[h] # None
        /\ slots' = Ref(slots, id)
        /\ msgr' = [msgr EXCEPT ![m].looper = id]
    BY <1>5 DEF FindLooper, LooperTokenOf
  <2>2. h \in Handlers
    <3>1. Valid(slots, msgr[m].handler) /\ h = slots[msgr[m].handler].data
      BY <2>1 DEF HandlerOf
    <3>2. slots[msgr[m].handler] \in Records
      BY <1>3, <3>1, ValidRecord
    <3> QED BY <2>1, <3>1, <3>2 DEF Records
  <2>3. fLooper[h] \in Handlers /\ fToken[fLooper[h]] # None
    BY <2>1, <2>2, TokensAssumption DEF TokensInv, TokensTypeOK, LoopersLive
  <2>4. id \in Ids /\ id \in Nat \ {0} /\ Valid(slots, id)
    BY <2>3, OwnRecord
  <2>5. /\ v \in Pairs /\ v.handler = msgr[m].handler /\ v.looper = id
        /\ msgr' = [msgr EXCEPT ![m] = v]
    BY <1>2, <2>1, <2>4 DEF Pairs
  <2> HIDE DEF id
  <2>6. Counted(slots', new) /\ Keeps(slots, slots')
    BY <1>1, <1>2, <1>3, <2>1, <2>4, RefCounted
  <2>7. \A z \in RefNames : new[z] = IF z = y THEN id ELSE refs[z]
    BY <1>1, <1>3 DEF Tables, Put
  <2> HIDE DEF new, v
  <2>8. /\ msgr' \in [Messengers -> Pairs] /\ msgr'[m] = v
        /\ \A n \in Messengers : n # m => msgr'[n] = msgr[n]
    BY <2>5, MessengerAssigned
  <2>9. /\ new[<<"handler", m>>] = v.handler
        /\ new[<<"looper", m>>] = v.looper
        /\ \A z \in RefNames : z # <<"handler", m>> /\ z # <<"looper", m>> => new[z] = refs[z]
    BY <1>1, <2>5, <2>7
  <2> QED BY <1>2, <2>5, <2>6, <2>8, <2>9
<1> QED BY <1>4, <1>5

LEMMA FinishInitDataInv ==
    ASSUME TokensInv, NEW m \in Messengers, FinishInitData(m)
    PROVE  TokensInv'
<1>1. PICK new, v :
             /\ v \in Pairs
             /\ msgr' \in [Messengers -> Pairs] /\ msgr'[m] = v
             /\ \A n \in Messengers : n # m => msgr'[n] = msgr[n]
             /\ Counted(slots', new) /\ Keeps(slots, slots')
             /\ new[<<"handler", m>>] = v.handler /\ new[<<"looper", m>>] = v.looper
             /\ \A y \in RefNames : y # <<"handler", m>> /\ y # <<"looper", m>> =>
                   new[y] = refs[y]
             /\ v = NoTokens \/ (v.handler = msgr[m].handler /\ v.handler # None)
  BY LookupDone DEF FinishInitData
<1>2. /\ userPc' \in [Users -> {"idle", "looper", "check"}] /\ userPc'[m] = "idle"
      /\ \A n \in Messengers : n # m => userPc'[n] = userPc[n]
      /\ \A r \in Letters : userPc'[r] = userPc[r]
  BY PlaceAssigned DEF FinishInitData
<1>3. meant' = meant /\ birth' = birth /\ userPc[m] = "looper"
  BY DEF FinishInitData
<1>4. MessengerAims(m)'
  <2>1. slots' \in Seq(Entries)
    BY <1>1 DEF Counted
  <2>2. CASE v = NoTokens
    <3>1. TargetId(m)' = None
      BY <1>1, <2>2 DEF TargetId, NoTokens
    <3> QED BY <1>2, <2>1, <3>1, LeadsNowhere DEF MessengerAims
  <2>3. CASE v # NoTokens
    <3>1. TargetId(m)' = msgr[m].handler /\ TargetId(m) = msgr[m].handler
      BY <1>1, <2>3 DEF TargetId
    <3>2. HandlerOf(slots', TargetId(m)) # None =>
             HandlerOf(slots', TargetId(m)) = HandlerOf(slots, TargetId(m))
      BY <1>1, <2>1, HandlerKept
    <3>3. MessengerAims(m)
      BY DEF TokensInv
    <3> QED BY <1>2, <1>3, <3>1, <3>2, <3>3 DEF MessengerAims, Made
  <2> QED BY <2>2, <2>3
<1>5. meant' \in [Users -> Births]
  BY <1>3 DEF TokensInv, TokensTypeOK
<1> QED BY <1>1, <1>2, <1>3, <1>4, <1>5, MessengerStep DEF FinishInitData

\* A messenger from a reply address compares the stamps while its reference
\* keeps the record from being reused.
LEMMA CheckReplyInv ==
    ASSUME TokensInv, NEW m \in Messengers, NEW r \in Letters,
           CheckReply(m, r)
    PROVE  TokensInv'
<1>1. PICK new, v :
             /\ v \in Pairs
             /\ msgr' \in [Messengers -> Pairs] /\ msgr'[m] = v
             /\ \A n \in Messengers : n # m => msgr'[n] = msgr[n]
             /\ Counted(slots', new) /\ Keeps(slots, slots')
             /\ new[<<"handler", m>>] = v.handler /\ new[<<"looper", m>>] = v.looper
             /\ \A y \in RefNames : y # <<"handler", m>> /\ y # <<"looper", m>> =>
                   new[y] = refs[y]
             /\ v = NoTokens \/ (v.handler = msgr[m].handler /\ v.handler # None)
  BY LookupDone DEF CheckReply
<1>2. /\ userPc' \in [Users -> {"idle", "looper", "check"}] /\ userPc'[m] = "idle"
      /\ \A n \in Messengers : n # m => userPc'[n] = userPc[n]
      /\ \A q \in Letters : q # r => userPc'[q] = userPc[q]
      /\ userPc'[r] = "idle" /\ userPc[r] = "check"
  BY TokensAssumption DEF CheckReply, TokensInv, TokensTypeOK, Users
<1>3. /\ meant' = meant /\ birth' = birth
      /\ meant[m] = meant[r] /\ msgr[m].handler = letter[r].id
  BY DEF CheckReply
<1>4. letter[r] # None
  BY <1>2 DEF TokensInv, LetterAims
<1>5. \A q \in Letters : /\ userPc'[q] = "looper" <=> userPc[q] = "looper"
                         /\ userPc'[q] = userPc[q] \/ letter[q] # None
  BY <1>2, <1>4
<1>6. MessengerAims(m)'
  <2>1. slots' \in Seq(Entries)
    BY <1>1 DEF Counted
  <2>2. CASE v = NoTokens
    <3>1. TargetId(m)' = None
      BY <1>1, <2>2 DEF TargetId, NoTokens
    <3> QED BY <1>2, <2>1, <3>1, LeadsNowhere DEF MessengerAims
  <2>3. CASE v # NoTokens
    <3>1. TargetId(m)' = letter[r].id
      BY <1>1, <1>3, <2>3 DEF TargetId
    <3>2. HandlerOf(slots', letter[r].id) # None =>
             HandlerOf(slots', letter[r].id) = HandlerOf(slots, letter[r].id)
      BY <1>1, <2>1, HandlerKept
    <3>3. LetterAims(r)
      BY DEF TokensInv
    <3>4. SameStamp(r)
      <4>1. msgr' = [msgr EXCEPT ![m] = NoTokens] => msgr'[m] = NoTokens
        BY DEF TokensInv, TokensTypeOK
      <4> QED BY <1>1, <2>3, <4>1 DEF CheckReply
    <3> QED BY <1>2, <1>3, <1>4, <3>1, <3>2, <3>3, <3>4 DEF MessengerAims, LetterAims, Made
  <2> QED BY <2>2, <2>3
<1>7. meant' \in [Users -> Births]
  BY <1>3 DEF TokensInv, TokensTypeOK
<1>8. /\ fToken' = fToken /\ fLooper' = fLooper /\ letter' = letter
      /\ clock' = clock /\ birth' = birth /\ reached' = reached
  BY DEF CheckReply
<1>9. \A u \in Users : u # m => meant'[u] = meant[u]
  BY <1>3
<1> QED BY <1>1, <1>2, <1>5, <1>6, <1>7, <1>8, <1>9, MessengerStep

LEMMA OpenReplyInv ==
    ASSUME TokensInv, NEW m \in Messengers, NEW r \in Letters,
           OpenReply(m, r)
    PROVE  TokensInv'
<1> DEFINE x == <<"handler", m>>
           id == letter[r].id
           new == Put(refs, x, id)
           v == [handler |-> id, looper |-> None]
<1>1. /\ x \in RefNames /\ <<"looper", m>> \in RefNames /\ x # <<"looper", m>>
      /\ refs[x] = msgr[m].handler /\ refs[<<"looper", m>>] = msgr[m].looper
  BY RefsByName
<1>2. msgr[m].handler = None /\ msgr[m].looper = None
  BY DEF OpenReply, NoTokens
<1>3. refs \in Tables /\ Counted(slots, refs) /\ slots \in Seq(Entries)
  BY DEF TokensInv, Counted
<1>4. letter[r] \in [id : Ids, stamp : Nat] /\ Valid(slots, id)
  BY DEF OpenReply, TokensInv, TokensTypeOK
<1>5. id \in Ids /\ id \in Nat \ {0} /\ id # None
  BY <1>4, TokensAssumption DEF Ids
<1>6. v \in Pairs /\ v.handler = id /\ v.looper = None
  BY <1>5 DEF Pairs
<1>7. slots' = Ref(slots, id) /\ msgr' = [msgr EXCEPT ![m] = v]
  BY DEF OpenReply
<1>8. \A z \in RefNames : new[z] = IF z = x THEN id ELSE refs[z]
  BY <1>1, <1>3 DEF Tables, Put
<1> HIDE DEF id, v
<1>9. Counted(slots', new) /\ Keeps(slots, slots')
  BY <1>1, <1>2, <1>3, <1>4, <1>7, RefCounted
<1>10. /\ msgr' \in [Messengers -> Pairs] /\ msgr'[m] = v
       /\ \A n \in Messengers : n # m => msgr'[n] = msgr[n]
  BY <1>6, <1>7, MessengerAssigned
<1>11. /\ userPc' \in [Users -> {"idle", "looper", "check"}] /\ userPc'[m] = "check"
       /\ \A n \in Messengers : n # m => userPc'[n] = userPc[n]
       /\ \A q \in Letters : q # r => userPc'[q] = userPc[q]
       /\ userPc'[r] = "check" /\ userPc[r] = "idle"
  BY TokensAssumption DEF OpenReply, TokensInv, TokensTypeOK, Users
<1>12. \A q \in Letters : /\ userPc'[q] = "looper" <=> userPc[q] = "looper"
                          /\ userPc'[q] = userPc[q] \/ letter[q] # None
  BY <1>11 DEF OpenReply
<1>13. m \in Users /\ meant[r] \in Births
  BY DEF Users, TokensInv, TokensTypeOK
<1>14. /\ meant' \in [Users -> Births]
       /\ \A w \in Users : w # m => meant'[w] = meant[w]
  BY <1>13, MeantAssigned DEF OpenReply
<1>15. MessengerAims(m)'
  BY <1>5, <1>6, <1>10, <1>11 DEF MessengerAims
<1> HIDE DEF new
<1>16. /\ new[<<"handler", m>>] = v.handler /\ new[<<"looper", m>>] = v.looper
       /\ \A z \in RefNames : z # <<"handler", m>> /\ z # <<"looper", m>> => new[z] = refs[z]
  BY <1>1, <1>2, <1>6, <1>8
<1>17. /\ fToken' = fToken /\ fLooper' = fLooper /\ letter' = letter
       /\ clock' = clock /\ birth' = birth /\ reached' = reached
  BY DEF OpenReply
<1> QED BY <1>6, <1>9, <1>10, <1>11, <1>12, <1>14, <1>15, <1>16, <1>17, MessengerStep

\* A messenger that gives back both its references.
LEMMA EmptiedInv ==
    ASSUME TokensInv, NEW m \in Messengers, userPc[m] = "idle",
           slots' = Released(slots, m),
           msgr' = [msgr EXCEPT ![m] = NoTokens],
           fToken' = fToken, fLooper' = fLooper, letter' = letter, userPc' = userPc,
           clock' = clock, birth' = birth, reached' = reached,
           meant' \in [Users -> Births],
           \A u \in Users : u # m => meant'[u] = meant[u]
    PROVE  TokensInv'
<1>1. /\ Counted(slots', Freed(m)) /\ Keeps(slots, slots')
      /\ Freed(m)[<<"handler", m>>] = None
      /\ Freed(m)[<<"looper", m>>] = None
      /\ \A y \in RefNames : y # <<"handler", m>> /\ y # <<"looper", m>> =>
            Freed(m)[y] = refs[y]
  BY ReleasedCounted
<1>2. NoTokens \in Pairs /\ NoTokens.handler = None /\ NoTokens.looper = None
  BY DEF NoTokens, Pairs
<1>3. /\ msgr' \in [Messengers -> Pairs] /\ msgr'[m] = NoTokens
      /\ \A n \in Messengers : n # m => msgr'[n] = msgr[n]
  BY <1>2, MessengerAssigned
<1>4. MessengerAims(m)'
  <2>1. TargetId(m)' = None
    BY <1>2, <1>3 DEF TargetId
  <2>2. slots' \in Seq(Entries)
    BY <1>1 DEF Counted
  <2> QED BY <2>1, <2>2, LeadsNowhere DEF MessengerAims
<1>5. userPc' \in [Users -> {"idle", "looper", "check"}]
  BY DEF TokensInv, TokensTypeOK
<1> QED BY <1>1, <1>2, <1>3, <1>4, <1>5, MessengerStep

LEMMA DestroyInv ==
    ASSUME TokensInv, NEW m \in Messengers, Destroy(m)
    PROVE  TokensInv'
<1>1. meant' \in [Users -> Births] /\ \A u \in Users : u # m => meant'[u] = meant[u]
  BY DEF Destroy, TokensInv, TokensTypeOK
<1>2. /\ userPc[m] = "idle" /\ slots' = Released(slots, m)
      /\ msgr' = [msgr EXCEPT ![m] = NoTokens]
      /\ fToken' = fToken /\ fLooper' = fLooper /\ letter' = letter /\ userPc' = userPc
      /\ clock' = clock /\ birth' = birth /\ reached' = reached
  BY DEF Destroy
<1> QED BY <1>1, <1>2, EmptiedInv

\* A copy refers to both records of the original, which keeps them there while
\* the copy gives up its own.
LEMMA CopyInv ==
    ASSUME TokensInv, NEW m \in Messengers, NEW n \in Messengers,
           CopyMessenger(m, n)
    PROVE  TokensInv'
<1>1. /\ userPc[m] = "idle" /\ userPc[n] = "idle"
      /\ fToken' = fToken /\ fLooper' = fLooper /\ letter' = letter /\ userPc' = userPc
      /\ clock' = clock /\ birth' = birth /\ reached' = reached
  BY DEF CopyMessenger
<1>2. n \in Users /\ m \in Users /\ meant[m] \in Births
  BY DEF Users, TokensInv, TokensTypeOK
<1>3. /\ meant' \in [Users -> Births] /\ meant'[n] = meant[m]
      /\ \A u \in Users : u # n => meant'[u] = meant[u]
  BY <1>2, MeantAssigned DEF CopyMessenger
<1>4. CASE m = n \/ msgr[m].looper = None
  <2>1. slots' = Released(slots, n) /\ msgr' = [msgr EXCEPT ![n] = NoTokens]
    BY <1>4 DEF CopyMessenger
  <2> QED BY <1>1, <1>3, <2>1, EmptiedInv
<1>5. CASE m # n /\ msgr[m].looper # None
  <2> DEFINE xh == <<"handler", n>>
             xl == <<"looper", n>>
             v == msgr[m]
             s1 == Released(slots, n)
             f1 == Freed(n)
             s2 == Ref(s1, v.handler)
             f2 == Put(f1, xh, v.handler)
             f3 == Put(f2, xl, v.looper)
  <2>1. slots' = Ref(s2, v.looper) /\ msgr' = [msgr EXCEPT ![n] = v]
    BY <1>5 DEF CopyMessenger
  <2>2. /\ Counted(s1, f1) /\ Keeps(slots, s1) /\ f1 \in Tables
        /\ f1[xh] = None /\ f1[xl] = None
        /\ \A y \in RefNames : y # xh /\ y # xl => f1[y] = refs[y]
    BY ReleasedCounted
  <2>3. /\ xh \in RefNames /\ xl \in RefNames /\ xh # xl
        /\ <<"handler", m>> \in RefNames /\ <<"looper", m>> \in RefNames
        /\ <<"handler", m>> # xh /\ <<"handler", m>> # xl
        /\ <<"looper", m>> # xh /\ <<"looper", m>> # xl
        /\ refs[<<"handler", m>>] = v.handler /\ refs[<<"looper", m>>] = v.looper
    BY <1>5, RefsByName
  <2>4. v \in Pairs /\ v.looper # None
    BY <1>5 DEF TokensInv, TokensTypeOK, Pairs
  <2>5. v.handler \in (Nat \ {0}) \cup {None} /\ v.looper \in Nat \ {0}
    BY <2>4 DEF Pairs, Ids
  <2>6. f1[<<"handler", m>>] = v.handler /\ f1[<<"looper", m>>] = v.looper
    BY <2>2, <2>3
  <2> HIDE DEF xh, xl, v, s1, f1, s2, f2, f3
  <2>7. v.handler = None \/ Valid(s1, v.handler)
    BY <2>2, <2>3, <2>6, ReferredIsValid
  <2>8. Counted(s2, f2) /\ Keeps(s1, s2)
    BY <2>2, <2>3, <2>7, RefCounted DEF s2, f2
  <2>9. f2 \in Tables /\ \A y \in RefNames : f2[y] = IF y = xh THEN v.handler ELSE f1[y]
    BY <2>2, <2>3, <2>5 DEF Tables, Put, f2
  <2>10. f2[<<"looper", m>>] = v.looper /\ f2[xl] = None
    BY <2>2, <2>3, <2>6, <2>9
  <2>11. Valid(s2, v.looper)
    BY <2>3, <2>4, <2>8, <2>10, ReferredIsValid
  <2>12. Counted(slots', f3) /\ Keeps(s2, slots')
    BY <2>1, <2>3, <2>8, <2>10, <2>11, RefCounted DEF f3
  <2>13. \A y \in RefNames : f3[y] = IF y = xl THEN v.looper ELSE f2[y]
    BY <2>3, <2>5, <2>9 DEF Tables, Put, f3
  <2>14. /\ slots \in Seq(Entries) /\ s1 \in Seq(Entries) /\ s2 \in Seq(Entries)
         /\ slots' \in Seq(Entries)
    BY <2>2, <2>8, <2>12 DEF TokensInv, Counted
  <2>15. Keeps(slots, slots')
    <3>1. Keeps(slots, s2)
      BY <2>2, <2>8, <2>14, KeepsTransitive
    <3> QED BY <2>12, <2>14, <3>1, KeepsTransitive
  <2>16. /\ f3[<<"handler", n>>] = v.handler /\ f3[<<"looper", n>>] = v.looper
         /\ \A y \in RefNames : y # <<"handler", n>> /\ y # <<"looper", n>> => f3[y] = refs[y]
    BY <2>2, <2>3, <2>9, <2>13 DEF xh, xl
  <2>17. /\ msgr' \in [Messengers -> Pairs] /\ msgr'[n] = v
         /\ \A k \in Messengers : k # n => msgr'[k] = msgr[k]
    BY <2>1, <2>4, MessengerAssigned
  <2>18. MessengerAims(n)'
    <3>1. TargetId(n)' = TargetId(m)
      BY <2>17 DEF TargetId, v
    <3>2. HandlerOf(slots', TargetId(m)) # None =>
             HandlerOf(slots', TargetId(m)) = HandlerOf(slots, TargetId(m))
      BY <2>14, <2>15, HandlerKept
    <3>3. MessengerAims(m)
      BY DEF TokensInv
    <3> QED BY <1>1, <1>3, <3>1, <3>2, <3>3 DEF MessengerAims, Made
  <2>19. userPc' \in [Users -> {"idle", "looper", "check"}]
    BY <1>1 DEF TokensInv, TokensTypeOK
  <2> QED
    BY <1>1, <1>3, <2>4, <2>12, <2>15, <2>16, <2>17, <2>18, <2>19, MessengerStep
<1> QED BY <1>4, <1>5

-----------------------------------------------------------------------------
(* Messages *)

Addresses == [id : Ids, stamp : Nat] \cup {None}

\* A message's step: the lookup's reference becomes what its place says, the
\* records follow, and the message aims.
LEMMA LetterStep ==
    ASSUME TokensInv, NEW r \in Letters,
           fToken' = fToken, fLooper' = fLooper, msgr' = msgr,
           clock' = clock, birth' = birth,
           letter' \in [Letters -> Addresses],
           userPc' \in [Users -> {"idle", "looper", "check"}],
           meant' \in [Users -> Births], reached' \in [Letters -> Births],
           \A q \in Letters : q # r => letter'[q] = letter[q] /\ reached'[q] = reached[q],
           \A u \in Users : u # r => userPc'[u] = userPc[u] /\ meant'[u] = meant[u],
           NEW new, Counted(slots', new), Keeps(slots, slots'),
           new[<<"letter", r>>] = IF userPc'[r] = "looper" THEN letter'[r].id ELSE None,
           \A y \in RefNames : y # <<"letter", r>> => new[y] = refs[y],
           LetterAims(r)'
    PROVE  TokensInv'
<1>1. r \in Users /\ r \notin Messengers /\ \A q \in Letters : q \in Users
  BY TokensAssumption DEF Users
<1>2. refs' = new
  <2>1. new \in Tables
    BY DEF Counted
  <2>2. ASSUME NEW h \in Handlers PROVE new[<<"token", h>>] = refs'[<<"token", h>>]
    BY RefsByName, RefsByNameNext
  <2>3. ASSUME NEW m \in Messengers
        PROVE  /\ new[<<"handler", m>>] = refs'[<<"handler", m>>]
               /\ new[<<"looper", m>>] = refs'[<<"looper", m>>]
    BY RefsByName, RefsByNameNext
  <2>4. ASSUME NEW q \in Letters PROVE new[<<"letter", q>>] = refs'[<<"letter", q>>]
    <3>1. CASE q = r
      BY <3>1, RefsByNameNext
    <3>2. CASE q # r
      <4>1. <<"letter", q>> # <<"letter", r>> /\ <<"letter", q>> \in RefNames
        BY <3>2, RefsByName
      <4> QED BY <1>1, <3>2, <4>1, RefsByName, RefsByNameNext
    <3> QED BY <3>1, <3>2
  <2> QED BY <2>1, <2>2, <2>3, <2>4, RefsEqual
<1>3. TokensTypeOK'
  <2>1. slots' \in Seq(Records \cup {None})
    BY DEF Counted, Entries
  <2> QED BY <2>1 DEF TokensInv, TokensTypeOK, Addresses
<1>4. \A m \in Messengers :
         msgr'[m] = msgr[m] /\ userPc'[m] = userPc[m] /\ meant'[m] = meant[m]
  BY <1>1 DEF Users
<1>5. \A q \in Letters : q # r =>
         /\ letter'[q] = letter[q] /\ (userPc'[q] = userPc[q] \/ letter[q] # None)
         /\ meant'[q] = meant[q] /\ reached'[q] = reached[q]
  BY <1>1
<1> QED BY <1>2, <1>3, <1>4, <1>5, SlotsKept

\* The entry of r in the table, before and when it is replaced.
LEMMA LetterEntry ==
    ASSUME TokensInv, NEW r \in Letters
    PROVE  /\ <<"letter", r>> \in RefNames
           /\ refs[<<"letter", r>>] = IF userPc[r] = "looper" THEN letter[r].id ELSE None
           /\ refs \in Tables /\ Counted(slots, refs) /\ slots \in Seq(Entries)
           /\ \A v \in (Nat \ {0}) \cup {None} :
                 /\ Put(refs, <<"letter", r>>, v)[<<"letter", r>>] = v
                 /\ \A y \in RefNames : y # <<"letter", r>> =>
                       Put(refs, <<"letter", r>>, v)[y] = refs[y]
<1>1. /\ <<"letter", r>> \in RefNames
      /\ refs[<<"letter", r>>] = IF userPc[r] = "looper" THEN letter[r].id ELSE None
  BY RefsByName
<1>2. refs \in Tables /\ Counted(slots, refs) /\ slots \in Seq(Entries)
  BY DEF TokensInv, Counted
<1>3. \A v \in (Nat \ {0}) \cup {None}, y \in RefNames :
         Put(refs, <<"letter", r>>, v)[y] = IF y = <<"letter", r>> THEN v ELSE refs[y]
  BY <1>1, <1>2 DEF Tables, Put
<1> QED BY <1>1, <1>2, <1>3

\* Nothing happens to the records.
LEMMA KeepsSelf == ASSUME NEW s \in Seq(Entries) PROVE Keeps(s, s)
<1>1. Len(s) \in Nat
  BY LenProperties
<1> QED BY <1>1 DEF Keeps

LEMMA AddressInv ==
    ASSUME TokensInv, NEW r \in Letters, NEW h \in Handlers, Address(r, h)
    PROVE  TokensInv'
<1>1. /\ fToken' = fToken /\ fLooper' = fLooper /\ msgr' = msgr
      /\ clock' = clock /\ birth' = birth /\ userPc' = userPc /\ slots' = slots
      /\ letter[r] = None /\ fToken[h] # None
  BY DEF Address
<1>2. userPc[r] = "idle"
  BY <1>1 DEF TokensInv, LetterAims
<1>3. r \in Users /\ Made(h) \in Births
  BY MadeIsBirth DEF Users
<1>4. /\ letter' \in [Letters -> Addresses] /\ letter'[r] = fToken[h]
      /\ reached' \in [Letters -> Births] /\ reached'[r] = None
      /\ \A q \in Letters : q # r => letter'[q] = letter[q] /\ reached'[q] = reached[q]
  BY DEF Address, TokensInv, TokensTypeOK, Addresses, Births
<1>5. /\ meant' \in [Users -> Births] /\ meant'[r] = Made(h)
      /\ \A u \in Users : u # r => meant'[u] = meant[u]
  BY <1>3, MeantAssigned DEF Address
<1>6. Counted(slots', refs) /\ Keeps(slots, slots')
  BY <1>1, KeepsSelf DEF TokensInv, Counted
<1>7. refs[<<"letter", r>>] = IF userPc'[r] = "looper" THEN letter'[r].id ELSE None
  BY <1>1, <1>2, LetterEntry
<1>8. userPc' \in [Users -> {"idle", "looper", "check"}]
  BY <1>1 DEF TokensInv, TokensTypeOK
<1>9. LetterAims(r)'
  <2>1. HandlerOf(slots', letter'[r].id) = h
    BY <1>1, <1>4, OwnRecord
  <2>2. letter'[r].stamp < clock'
    BY <1>1, <1>4 DEF TokensInv, RecordsAreOwned
  <2> QED BY <1>1, <1>2, <1>4, <1>5, <2>1, <2>2 DEF LetterAims, Made
<1> QED BY <1>1, <1>4, <1>5, <1>6, <1>7, <1>8, <1>9, LetterStep

LEMMA DropLetterInv ==
    ASSUME TokensInv, NEW r \in Letters, DropLetter(r)
    PROVE  TokensInv'
<1>1. /\ fToken' = fToken /\ fLooper' = fLooper /\ msgr' = msgr /\ meant' = meant
      /\ clock' = clock /\ birth' = birth /\ userPc' = userPc /\ slots' = slots
      /\ reached' = reached /\ userPc[r] = "idle"
  BY DEF DropLetter
<1>2. /\ letter' \in [Letters -> Addresses] /\ letter'[r] = None
      /\ \A q \in Letters : q # r => letter'[q] = letter[q]
  BY DEF DropLetter, TokensInv, TokensTypeOK, Addresses
<1>3. /\ userPc' \in [Users -> {"idle", "looper", "check"}]
      /\ meant' \in [Users -> Births] /\ reached' \in [Letters -> Births]
  BY <1>1 DEF TokensInv, TokensTypeOK
<1>4. Counted(slots', refs) /\ Keeps(slots, slots')
  BY <1>1, KeepsSelf DEF TokensInv, Counted
<1>5. refs[<<"letter", r>>] = IF userPc'[r] = "looper" THEN letter'[r].id ELSE None
  BY <1>1, LetterEntry
<1>6. LetterAims(r)'
  BY <1>1, <1>2 DEF TokensInv, LetterAims
<1> QED BY <1>1, <1>2, <1>3, <1>4, <1>5, <1>6, LetterStep

LEMMA OpenTargetInv ==
    ASSUME TokensInv, NEW r \in Letters, OpenTarget(r)
    PROVE  TokensInv'
<1> DEFINE x == <<"letter", r>>
           id == letter[r].id
           new == Put(refs, x, id)
<1>1. /\ fToken' = fToken /\ fLooper' = fLooper /\ msgr' = msgr /\ meant' = meant
      /\ clock' = clock /\ birth' = birth /\ letter' = letter /\ reached' = reached
      /\ userPc[r] = "idle" /\ letter[r] # None /\ Valid(slots, id)
      /\ slots' = Ref(slots, id)
  BY DEF OpenTarget
<1>2. /\ userPc' \in [Users -> {"idle", "looper", "check"}] /\ userPc'[r] = "looper"
      /\ \A u \in Users : u # r => userPc'[u] = userPc[u]
  BY DEF OpenTarget, TokensInv, TokensTypeOK, Users
<1>3. /\ meant' \in [Users -> Births] /\ reached' \in [Letters -> Births]
      /\ letter' \in [Letters -> Addresses]
  BY <1>1 DEF TokensInv, TokensTypeOK, Addresses
<1>4. /\ x \in RefNames /\ refs[x] = None /\ refs \in Tables
      /\ Counted(slots, refs) /\ slots \in Seq(Entries)
  BY <1>1, LetterEntry
<1>5. id \in Nat \ {0}
  BY <1>1, <1>4, ValidRecord
<1>6. /\ new[x] = id
      /\ \A y \in RefNames : y # <<"letter", r>> => new[y] = refs[y]
  BY <1>5, LetterEntry
<1> HIDE DEF id
<1>7. Counted(slots', new) /\ Keeps(slots, slots')
  BY <1>1, <1>4, RefCounted
<1>8. LetterAims(r)'
  <2>1. HandlerOf(slots', id) # None =>
           HandlerOf(slots', id) = HandlerOf(slots, id) /\ slots'[id].stamp = slots[id].stamp
    BY <1>7, HandlerKept DEF Counted
  <2>2. LetterAims(r)
    BY DEF TokensInv
  <2> QED BY <1>1, <2>1, <2>2 DEF LetterAims, Made, SameStamp, id
<1> HIDE DEF new
<1>9. new[<<"letter", r>>] = IF userPc'[r] = "looper" THEN letter'[r].id ELSE None
  BY <1>1, <1>2, <1>6 DEF id
<1> QED BY <1>1, <1>2, <1>3, <1>6, <1>7, <1>8, <1>9, LetterStep

\* _MessageTarget gives the message to a handler only if number and stamp are
\* those of the record, which its reference keeps there.
LEMMA GiveToTargetInv ==
    ASSUME TokensInv, NEW r \in Letters, NEW l \in Loopers,
           GiveToTarget(r, l)
    PROVE  TokensInv'
<1> DEFINE x == <<"letter", r>>
           h == HandlerOf(slots, letter[r].id)
           found == SameStamp(r) /\ h # None /\ fLooper[h] = l
           b == IF found THEN Made(h) ELSE None
           new == Put(refs, x, None)
<1>1. /\ fToken' = fToken /\ fLooper' = fLooper /\ msgr' = msgr /\ meant' = meant
      /\ clock' = clock /\ birth' = birth /\ userPc[r] = "looper"
      /\ slots' = Unref(slots, letter[r].id)
  BY DEF GiveToTarget
<1>2. letter[r] # None /\ LetterAims(r)
  BY <1>1 DEF TokensInv, LetterAims
<1>3. found => h \in Handlers /\ Made(h) = meant[r]
  <2> SUFFICES ASSUME found PROVE h \in Handlers /\ Made(h) = meant[r]
    OBVIOUS
  <2>1. Valid(slots, letter[r].id) /\ h = slots[letter[r].id].data
    BY DEF HandlerOf
  <2>2. slots[letter[r].id] \in Records
    BY <2>1, ValidRecord DEF TokensInv, Counted
  <2> QED BY <1>2, <2>1, <2>2 DEF Records, LetterAims
<1>4. b \in Births /\ (b # None => b = meant[r])
  BY <1>3, MadeIsBirth DEF Births
<1>5. reached' = [reached EXCEPT ![r] = b]
  BY DEF GiveToTarget
<1> HIDE DEF b
<1>6. /\ reached' \in [Letters -> Births] /\ reached'[r] = b
      /\ letter' \in [Letters -> Addresses] /\ letter'[r] = None
      /\ \A q \in Letters : q # r => letter'[q] = letter[q] /\ reached'[q] = reached[q]
  BY <1>4, <1>5 DEF GiveToTarget, TokensInv, TokensTypeOK, Addresses
<1>7. /\ userPc' \in [Users -> {"idle", "looper", "check"}] /\ userPc'[r] = "idle"
      /\ \A u \in Users : u # r => userPc'[u] = userPc[u]
  BY DEF GiveToTarget, TokensInv, TokensTypeOK, Users
<1>8. meant' \in [Users -> Births]
  BY <1>1 DEF TokensInv, TokensTypeOK
<1>9. x \in RefNames /\ refs[x] = letter[r].id /\ Counted(slots, refs)
  BY <1>1, LetterEntry
<1>10. Counted(slots', new) /\ Keeps(slots, slots')
  BY <1>1, <1>9, UnrefCounted
<1>11. new[x] = None /\ \A y \in RefNames : y # <<"letter", r>> => new[y] = refs[y]
  BY LetterEntry
<1>12. LetterAims(r)'
  BY <1>1, <1>4, <1>6, <1>7 DEF LetterAims
<1> HIDE DEF new
<1>13. new[<<"letter", r>>] = IF userPc'[r] = "looper" THEN letter'[r].id ELSE None
  BY <1>7, <1>11
<1> QED BY <1>1, <1>6, <1>7, <1>8, <1>10, <1>11, <1>12, <1>13, LetterStep

-----------------------------------------------------------------------------
(* Handlers *)

\* The table when the token of h becomes v and nothing else does.
LEMMA HandlerTable ==
    ASSUME TokensInv, NEW h \in Handlers,
           \A g \in Handlers : g # h => fToken'[g] = fToken[g],
           msgr' = msgr, letter' = letter, userPc' = userPc,
           NEW new \in Tables,
           new[<<"token", h>>] = IF fToken'[h] = None THEN None ELSE fToken'[h].id,
           \A y \in RefNames : y # <<"token", h>> => new[y] = refs[y]
    PROVE  refs' = new
<1>1. ASSUME NEW g \in Handlers PROVE new[<<"token", g>>] = refs'[<<"token", g>>]
  <2>1. CASE g = h
    BY <2>1, RefsByNameNext
  <2>2. CASE g # h
    <3>1. <<"token", g>> # <<"token", h>> /\ <<"token", g>> \in RefNames
      BY <2>2, RefsByName
    <3> QED BY <2>2, <3>1, RefsByName, RefsByNameNext
  <2> QED BY <2>1, <2>2
<1>2. ASSUME NEW m \in Messengers
      PROVE  /\ new[<<"handler", m>>] = refs'[<<"handler", m>>]
             /\ new[<<"looper", m>>] = refs'[<<"looper", m>>]
  BY RefsByName, RefsByNameNext
<1>3. ASSUME NEW r \in Letters PROVE new[<<"letter", r>>] = refs'[<<"letter", r>>]
  BY RefsByName, RefsByNameNext
<1> QED BY <1>1, <1>2, <1>3, RefsEqual

\* A record that names a handler is there, and the handler lives.
LEMMA NamedLives ==
    ASSUME TokensInv, NEW i, HandlerOf(slots, i) # None
    PROVE  /\ Valid(slots, i) /\ i \in Nat
           /\ HandlerOf(slots, i) = slots[i].data
           /\ HandlerOf(slots, i) \in Handlers
           /\ fToken[HandlerOf(slots, i)] # None
           /\ fToken[HandlerOf(slots, i)].id = i
<1>1. Valid(slots, i) /\ HandlerOf(slots, i) = slots[i].data
  BY DEF HandlerOf
<1>2. i \in Nat /\ slots[i] \in Records
  BY <1>1, ValidRecord DEF TokensInv, Counted
<1>3. slots[i].data \in Handlers
  BY <1>1, <1>2 DEF Records
<1> QED BY <1>1, <1>2, <1>3 DEF TokensInv, RecordsAreOwned

\* AddHandler and RemoveHandler.
LEMMA LooperChangedInv ==
    ASSUME TokensInv, LoopersLive',
           fLooper' \in [Handlers -> Loopers \cup {None}],
           slots' = slots, fToken' = fToken, msgr' = msgr, letter' = letter, userPc' = userPc,
           clock' = clock, birth' = birth, meant' = meant, reached' = reached
    PROVE  TokensInv'
<1>1. TokensTypeOK'
  BY DEF TokensInv, TokensTypeOK
<1>2. refs' = refs
  BY DEF refs, RecordOf
<1>3. Counted(slots', refs') /\ Keeps(slots, slots')
  BY <1>2, KeepsSelf DEF TokensInv, Counted
<1> QED BY <1>1, <1>3, SlotsKept

LEMMA AddHandlerInv ==
    ASSUME TokensInv, NEW h \in Handlers, NEW l \in Loopers,
           AddHandler(h, l)
    PROVE  TokensInv'
<1>1. /\ fLooper' \in [Handlers -> Loopers \cup {None}] /\ fLooper'[h] = l
      /\ \A g \in Handlers : g # h => fLooper'[g] = fLooper[g]
  BY DEF AddHandler, TokensInv, TokensTypeOK
<1>2. /\ fToken[h] # None /\ fToken[l] # None /\ fToken' = fToken
      /\ slots' = slots /\ msgr' = msgr /\ letter' = letter /\ userPc' = userPc
      /\ clock' = clock /\ birth' = birth /\ meant' = meant /\ reached' = reached
  BY DEF AddHandler
<1>3. LoopersLive'
  BY <1>1, <1>2 DEF TokensInv, LoopersLive
<1> QED BY <1>1, <1>2, <1>3, LooperChangedInv

LEMMA RemoveHandlerInv ==
    ASSUME TokensInv, NEW h \in Handlers, RemoveHandler(h)
    PROVE  TokensInv'
<1>1. /\ fLooper' \in [Handlers -> Loopers \cup {None}] /\ fLooper'[h] = None
      /\ \A g \in Handlers : g # h => fLooper'[g] = fLooper[g]
  BY DEF RemoveHandler, TokensInv, TokensTypeOK
<1>2. /\ fToken' = fToken
      /\ slots' = slots /\ msgr' = msgr /\ letter' = letter /\ userPc' = userPc
      /\ clock' = clock /\ birth' = birth /\ meant' = meant /\ reached' = reached
  BY DEF RemoveHandler
<1>3. LoopersLive'
  BY <1>1, <1>2 DEF TokensInv, LoopersLive
<1> QED BY <1>1, <1>2, <1>3, LooperChangedInv

\* The record of a new handler is one that nobody refers to, and its stamp is
\* later than that of every message.
LEMMA CreateHandlerInv ==
    ASSUME TokensInv, NEW h \in Handlers, CreateHandler(h)
    PROVE  TokensInv'
<1> DEFINE x == <<"token", h>>
           id == Len(slots) + 1
           new == Put(refs, x, id)
<1>1. /\ slots' = AddToken(slots, h, clock) /\ fToken[h] = None
      /\ clock < MaxClock /\ clock' = clock + 1
      /\ msgr' = msgr /\ letter' = letter /\ userPc' = userPc /\ meant' = meant
      /\ reached' = reached
  BY DEF CreateHandler, WaitClock
<1>2. /\ slots \in Seq(Entries) /\ Len(slots) \in Nat /\ Len(slots) <= clock
      /\ clock \in Nat /\ MaxClock \in Nat /\ refs \in Tables /\ Counted(slots, refs)
  BY LenProperties, TokensAssumption DEF TokensInv, TokensTypeOK, Counted
<1>3. id \in Ids /\ id \in Nat \ {0}
  BY <1>1, <1>2 DEF Ids
<1>4. /\ fToken' \in [Handlers -> [id : Ids, stamp : Nat] \cup {None}]
      /\ fToken'[h].id = id /\ fToken'[h].stamp = clock /\ fToken'[h] # None
      /\ \A g \in Handlers : g # h => fToken'[g] = fToken[g]
  <2> DEFINE tok == [id |-> id, stamp |-> clock]
  <2>1. tok \in [id : Ids, stamp : Nat] /\ tok.id = id /\ tok.stamp = clock
    BY <1>2, <1>3
  <2>2. tok # None
    <3>1. [id : Ids, stamp : Nat] \subseteq [id : Nat, stamp : Nat]
      BY DEF Ids
    <3> QED BY <2>1, <3>1, TokensAssumption
  <2>3. fToken' = [fToken EXCEPT ![h] = tok]
    BY DEF CreateHandler
  <2> HIDE DEF tok
  <2> QED BY <2>1, <2>2, <2>3 DEF TokensInv, TokensTypeOK
<1>5. /\ fLooper' \in [Handlers -> Loopers \cup {None}]
      /\ fLooper'[h] \in {h, None}
      /\ \A g \in Handlers : g # h => fLooper'[g] = fLooper[g]
  BY DEF CreateHandler, TokensInv, TokensTypeOK
<1>6. birth' \in [Handlers -> Nat] /\ \A g \in Handlers : g # h => birth'[g] = birth[g]
  BY DEF CreateHandler, TokensInv, TokensTypeOK
<1>7. x \in RefNames /\ refs[x] = None
  BY <1>1, RefsByName
<1>8. new \in Tables /\ \A y \in RefNames : new[y] = IF y = x THEN id ELSE refs[y]
  BY <1>2, <1>3, <1>7 DEF Tables, Put
<1> HIDE DEF id
<1>9. /\ Counted(slots', new)
      /\ Len(slots') = id /\ Valid(slots', id) /\ ~Valid(slots, id)
      /\ slots'[id].data = h /\ slots'[id].stamp = clock
      /\ \A i \in Nat : i # id => (Valid(slots', i) <=> Valid(slots, i))
      /\ \A i \in Nat : Valid(slots, i) => i # id /\ slots'[i] = slots[i]
  BY <1>1, <1>2, <1>7, AddTokenCounted DEF id
<1>10. refs' = new
  <2>1. new[<<"token", h>>] = IF fToken'[h] = None THEN None ELSE fToken'[h].id
    BY <1>4, <1>7, <1>8
  <2>2. \A y \in RefNames : y # <<"token", h>> => new[y] = refs[y]
    BY <1>8
  <2> HIDE DEF new
  <2> QED BY <1>1, <1>4, <1>8, <2>1, <2>2, HandlerTable
<1>11. TokensTypeOK'
  <2>1. slots' \in Seq(Records \cup {None})
    BY <1>9 DEF Counted, Entries
  <2>2. clock' \in 0..MaxClock
    BY <1>1, <1>2
  <2> QED BY <1>1, <1>4, <1>5, <1>6, <2>1, <2>2 DEF TokensInv, TokensTypeOK
<1>12. Len(slots') <= clock'
  BY <1>1, <1>2, <1>9 DEF id
<1>13. RecordsAreOwned'
  <2>1. ASSUME NEW g \in Handlers, fToken'[g] # None
        PROVE  /\ slots'[fToken'[g].id].data = g
               /\ slots'[fToken'[g].id].stamp = fToken'[g].stamp
               /\ fToken'[g].stamp < clock'
    <3>1. CASE g = h
      BY <1>1, <1>2, <1>4, <1>9, <3>1
    <3>2. CASE g # h
      <4>1. fToken'[g] = fToken[g] /\ fToken[g] # None
        BY <1>4, <2>1, <3>2
      <4>2. /\ Valid(slots, fToken[g].id) /\ fToken[g].id \in Nat
            /\ HandlerOf(slots, fToken[g].id) = g
            /\ slots[fToken[g].id].stamp = fToken[g].stamp
        BY <4>1, OwnRecord
      <4>3. fToken[g].stamp \in Nat /\ fToken[g].stamp < clock
        BY <4>1 DEF TokensInv, TokensTypeOK, RecordsAreOwned
      <4>4. fToken[g].stamp < clock'
        BY <1>1, <1>2, <4>3
      <4> QED BY <1>9, <4>1, <4>2, <4>4 DEF HandlerOf
    <3> QED BY <3>1, <3>2
  <2>2. ASSUME NEW i \in Nat, Valid(slots', i), slots'[i].data # None
        PROVE  fToken'[slots'[i].data] # None /\ fToken'[slots'[i].data].id = i
    <3>1. CASE i = id
      BY <1>4, <1>9, <3>1
    <3>2. CASE i # id
      <4>1. Valid(slots, i) /\ slots'[i] = slots[i]
        BY <1>9, <2>2, <3>2
      <4>2. HandlerOf(slots, i) = slots[i].data /\ HandlerOf(slots, i) # None
        BY <2>2, <4>1 DEF HandlerOf
      <4>3. /\ slots[i].data \in Handlers /\ fToken[slots[i].data] # None
            /\ fToken[slots[i].data].id = i
        BY <4>2, NamedLives
      <4> QED BY <1>1, <1>4, <4>1, <4>3
    <3> QED BY <3>1, <3>2
  <2> QED BY <2>1, <2>2 DEF RecordsAreOwned
<1>14. LoopersLive'
  <2>1. ASSUME NEW g \in Handlers, fToken[g] # None PROVE fToken'[g] # None
    BY <1>1, <1>4, <2>1
  <2>2. ASSUME NEW g \in Handlers, fLooper'[g] # None
        PROVE  fToken'[g] # None /\ fToken'[fLooper'[g]] # None
    <3>1. CASE g = h
      BY <1>4, <1>5, <2>2, <3>1
    <3>2. CASE g # h
      <4>1. /\ fLooper'[g] = fLooper[g] /\ fLooper[g] \in Handlers
            /\ fToken[g] # None /\ fToken[fLooper[g]] # None
        BY <1>5, <2>2, <3>2, TokensAssumption DEF TokensInv, TokensTypeOK, LoopersLive
      <4> QED BY <2>1, <4>1
    <3> QED BY <3>1, <3>2
  <2> QED BY <2>2 DEF LoopersLive
<1>15. ASSUME NEW i, Valid(slots, i), HandlerOf(slots', i) # None
       PROVE  /\ HandlerOf(slots', i) = HandlerOf(slots, i)
              /\ slots'[i].stamp = slots[i].stamp
              /\ birth'[HandlerOf(slots, i)] = birth[HandlerOf(slots, i)]
  <2>1. i \in Nat
    BY <1>2, <1>15, ValidRecord
  <2>2. Valid(slots', i) /\ slots'[i] = slots[i]
    BY <1>9, <1>15, <2>1
  <2>3. HandlerOf(slots', i) = HandlerOf(slots, i)
    BY <1>15, <2>2 DEF HandlerOf
  <2>4. HandlerOf(slots, i) \in Handlers /\ fToken[HandlerOf(slots, i)] # None
    BY <1>15, <2>3, NamedLives
  <2>5. HandlerOf(slots, i) # h
    BY <1>1, <2>4
  <2> QED BY <1>6, <2>2, <2>3, <2>4, <2>5
<1>16. ASSUME NEW m \in Messengers PROVE MessengerAims(m)'
  <2>1. TargetId(m)' = TargetId(m)
    BY <1>1 DEF TargetId
  <2>2. MessengerAims(m)
    BY DEF TokensInv
  <2>3. HandlerOf(slots', TargetId(m)) # None => Valid(slots, TargetId(m))
    <3>1. TargetId(m) = refs[<<"handler", m>>] \/ TargetId(m) = refs[<<"looper", m>>]
      BY RefsByName DEF TargetId
    <3>2. <<"handler", m>> \in RefNames /\ <<"looper", m>> \in RefNames
      BY RefsByName
    <3>3. TargetId(m) # None => Valid(slots, TargetId(m))
      BY <1>2, <3>1, <3>2, ReferredIsValid
    <3>4. HandlerOf(slots', None) = None
      BY <1>9, LeadsNowhere DEF Counted
    <3> QED BY <3>3, <3>4
  <2> QED BY <1>1, <1>15, <2>1, <2>2, <2>3 DEF MessengerAims, Made
<1>17. ASSUME NEW r \in Letters PROVE LetterAims(r)'
  <2>1. LetterAims(r)
    BY DEF TokensInv
  <2>2. ASSUME letter[r] # None
        PROVE  /\ letter[r].stamp < clock'
               /\ HandlerOf(slots', letter[r].id) # None
                  /\ slots'[letter[r].id].stamp = letter[r].stamp =>
                     [handler |-> HandlerOf(slots', letter[r].id),
                      birth |-> birth'[HandlerOf(slots', letter[r].id)]] = meant[r]
    <3>1. letter[r].stamp \in Nat /\ letter[r].id \in Nat /\ letter[r].stamp < clock
      BY <2>1, <2>2 DEF TokensInv, TokensTypeOK, LetterAims, Ids
    <3>2. letter[r].stamp < clock'
      BY <1>1, <1>2, <3>1
    <3>3. CASE Valid(slots, letter[r].id)
      BY <1>15, <2>1, <2>2, <3>2, <3>3 DEF LetterAims, SameStamp, Made
    <3>4. CASE ~Valid(slots, letter[r].id)
      <4>1. HandlerOf(slots', letter[r].id) # None => letter[r].id = id
        BY <1>9, <3>1, <3>4 DEF HandlerOf
      <4> QED BY <1>2, <1>9, <3>1, <3>2, <4>1
    <3> QED BY <3>3, <3>4
  <2> QED BY <1>1, <2>1, <2>2 DEF LetterAims, SameStamp, Made
<1> QED BY <1>9, <1>10, <1>11, <1>12, <1>13, <1>14, <1>16, <1>17 DEF TokensInv

\* A deleted handler's record names nobody any more, whoever still refers to it.
LEMMA DeleteHandlerInv ==
    ASSUME TokensInv, NEW h \in Handlers, DeleteHandler(h)
    PROVE  TokensInv'
<1> DEFINE x == <<"token", h>>
           id == fToken[h].id
           new == Put(refs, x, None)
<1>1. /\ slots' = RemoveToken(slots, id) /\ fToken[h] # None
      /\ \A g \in Handlers \ {h} : fLooper[g] # h
      /\ clock' = clock /\ birth' = birth
      /\ msgr' = msgr /\ letter' = letter /\ userPc' = userPc /\ meant' = meant
      /\ reached' = reached
  BY DEF DeleteHandler
<1>2. /\ slots \in Seq(Entries) /\ Len(slots) \in Nat /\ Len(slots) <= clock
      /\ clock \in Nat /\ refs \in Tables /\ Counted(slots, refs)
  BY LenProperties, TokensAssumption DEF TokensInv, TokensTypeOK, Counted
<1>3. /\ fToken' \in [Handlers -> [id : Ids, stamp : Nat] \cup {None}]
      /\ fToken'[h] = None
      /\ \A g \in Handlers : g # h => fToken'[g] = fToken[g]
      /\ fLooper' \in [Handlers -> Loopers \cup {None}] /\ fLooper'[h] = None
      /\ \A g \in Handlers : g # h => fLooper'[g] = fLooper[g]
  BY DEF DeleteHandler, TokensInv, TokensTypeOK
<1>4. /\ x \in RefNames /\ refs[x] = id /\ id # None /\ id \in Nat
      /\ Valid(slots, id) /\ HandlerOf(slots, id) = h
  BY <1>1, RefsByName, OwnRecord
<1>5. new \in Tables /\ \A y \in RefNames : new[y] = IF y = x THEN None ELSE refs[y]
  BY <1>2, <1>4 DEF Tables, Put
<1> HIDE DEF id
<1>6. /\ Counted(slots', new) /\ Len(slots') <= Len(slots)
      /\ \A i \in Nat : Valid(slots', i) =>
           /\ Valid(slots, i) /\ slots'[i].stamp = slots[i].stamp
           /\ slots'[i].data = IF i = id THEN None ELSE slots[i].data
  BY <1>1, <1>2, <1>4, RemoveTokenCounted
<1>7. refs' = new
  <2>1. new[<<"token", h>>] = IF fToken'[h] = None THEN None ELSE fToken'[h].id
    BY <1>3, <1>4, <1>5
  <2>2. \A y \in RefNames : y # <<"token", h>> => new[y] = refs[y]
    BY <1>5
  <2> HIDE DEF new
  <2> QED BY <1>1, <1>3, <1>5, <2>1, <2>2, HandlerTable
<1>8. slots' \in Seq(Entries) /\ Len(slots') \in Nat
  BY <1>6, LenProperties DEF Counted
<1>9. TokensTypeOK'
  <2>1. slots' \in Seq(Records \cup {None})
    BY <1>8 DEF Entries
  <2> QED BY <1>1, <1>3, <2>1 DEF TokensInv, TokensTypeOK
<1>10. Len(slots') <= clock'
  BY <1>1, <1>2, <1>6, <1>8
<1>11. RecordsAreOwned'
  <2>1. ASSUME NEW g \in Handlers, fToken'[g] # None
        PROVE  /\ slots'[fToken'[g].id].data = g
               /\ slots'[fToken'[g].id].stamp = fToken'[g].stamp
               /\ fToken'[g].stamp < clock'
    <3>1. g # h /\ fToken'[g] = fToken[g] /\ fToken[g] # None
      BY <1>3, <2>1
    <3>2. /\ fToken[g].id \in Nat /\ fToken[g].id # None
          /\ Valid(slots, fToken[g].id)
          /\ HandlerOf(slots, fToken[g].id) = g
          /\ slots[fToken[g].id].stamp = fToken[g].stamp
      BY <3>1, OwnRecord
    <3>3. fToken[g].id # id
      BY <1>4, <3>1, <3>2
    <3>4. refs'[<<"token", g>>] = fToken[g].id /\ <<"token", g>> \in RefNames
      BY <3>1, RefsByName, RefsByNameNext
    <3>5. Valid(slots', fToken[g].id)
      BY <1>6, <1>7, <3>2, <3>4, ReferredIsValid
    <3>6. fToken[g].stamp < clock
      BY <3>1 DEF TokensInv, RecordsAreOwned
    <3> QED BY <1>1, <1>6, <3>1, <3>2, <3>3, <3>5, <3>6 DEF HandlerOf
  <2>2. ASSUME NEW i \in Nat, Valid(slots', i), slots'[i].data # None
        PROVE  fToken'[slots'[i].data] # None /\ fToken'[slots'[i].data].id = i
    <3>1. i # id /\ Valid(slots, i) /\ slots'[i].data = slots[i].data
      BY <1>6, <2>2
    <3>2. HandlerOf(slots, i) = slots[i].data /\ HandlerOf(slots, i) # None
      BY <2>2, <3>1 DEF HandlerOf
    <3>3. /\ slots[i].data \in Handlers /\ fToken[slots[i].data] # None
          /\ fToken[slots[i].data].id = i
      BY <3>2, NamedLives
    <3>4. slots[i].data # h
      BY <3>1, <3>3 DEF id
    <3> QED BY <1>3, <3>1, <3>3, <3>4
  <2> QED BY <2>1, <2>2 DEF RecordsAreOwned
<1>12. LoopersLive'
  <2>1. ASSUME NEW g \in Handlers, fLooper'[g] # None
        PROVE  fToken'[g] # None /\ fToken'[fLooper'[g]] # None
    <3>1. g # h /\ fLooper'[g] = fLooper[g] /\ fLooper[g] # h
      BY <1>1, <1>3, <2>1
    <3>2. /\ fLooper[g] \in Handlers /\ fToken[g] # None /\ fToken[fLooper[g]] # None
      BY <2>1, <3>1, TokensAssumption DEF TokensInv, TokensTypeOK, LoopersLive
    <3> QED BY <1>3, <3>1, <3>2
  <2> QED BY <2>1 DEF LoopersLive
<1>13. ASSUME NEW i, HandlerOf(slots', i) # None
       PROVE  /\ HandlerOf(slots', i) = HandlerOf(slots, i)
              /\ slots'[i].stamp = slots[i].stamp
  <2>1. Valid(slots', i) /\ HandlerOf(slots', i) = slots'[i].data
    BY <1>13 DEF HandlerOf
  <2>2. i \in Nat
    BY <1>8, <2>1, ValidRecord
  <2> QED BY <1>6, <1>13, <2>1, <2>2 DEF HandlerOf
<1>14. ASSUME NEW m \in Messengers PROVE MessengerAims(m)'
  <2>1. TargetId(m)' = TargetId(m)
    BY <1>1 DEF TargetId
  <2>2. MessengerAims(m)
    BY DEF TokensInv
  <2> QED BY <1>1, <1>13, <2>1, <2>2 DEF MessengerAims, Made
<1>15. ASSUME NEW r \in Letters PROVE LetterAims(r)'
  <2>1. LetterAims(r)
    BY DEF TokensInv
  <2> QED BY <1>1, <1>13, <2>1 DEF LetterAims, SameStamp, Made
<1> QED BY <1>6, <1>7, <1>9, <1>10, <1>11, <1>12, <1>14, <1>15 DEF TokensInv


-----------------------------------------------------------------------------
(* The theorems *)

LEMMA TokensInitInv == ASSUME TokensInit PROVE TokensInv
<1>1. /\ slots = <<>> /\ clock = 0 /\ Len(slots) = 0 /\ slots \in Seq(Entries)
  BY DEF TokensInit
<1>2. TokensTypeOK
  <2>1. slots \in Seq(Records \cup {None})
    BY <1>1 DEF Entries
  <2>2. clock \in 0..MaxClock
    BY <1>1, TokensAssumption
  <2>3. /\ fToken \in [Handlers -> [id : Ids, stamp : Nat] \cup {None}]
        /\ fLooper \in [Handlers -> Loopers \cup {None}]
        /\ letter \in [Letters -> [id : Ids, stamp : Nat] \cup {None}]
        /\ birth \in [Handlers -> Nat]
    BY DEF TokensInit
  <2>4. msgr \in [Messengers -> [handler : Ids \cup {None}, looper : Ids \cup {None}]]
    BY DEF TokensInit, NoTokens
  <2>5. /\ userPc \in [Users -> {"idle", "looper", "check"}]
        /\ meant \in [Users -> Births] /\ reached \in [Letters -> Births]
    BY DEF TokensInit, Births
  <2> QED BY <2>1, <2>2, <2>3, <2>4, <2>5 DEF TokensTypeOK
<1>3. /\ \A h \in Handlers : refs[<<"token", h>>] = None
      /\ \A m \in Messengers : refs[<<"handler", m>>] = None /\ refs[<<"looper", m>>] = None
      /\ \A r \in Letters : refs[<<"letter", r>>] = None
  <2>1. /\ \A h \in Handlers : fToken[h] = None
        /\ \A m \in Messengers : msgr[m].handler = None /\ msgr[m].looper = None
        /\ \A r \in Letters : userPc[r] = "idle"
    BY DEF TokensInit, NoTokens, Users
  <2> QED BY <2>1, RefsByName
<1>4. \A x \in RefNames : refs[x] = None
  <2>1. ASSUME NEW x \in RefNames
        PROVE  \/ \E h \in Handlers : x = <<"token", h>>
               \/ \E m \in Messengers : x = <<"handler", m>> \/ x = <<"looper", m>>
               \/ \E r \in Letters : x = <<"letter", r>>
    BY DEF RefNames
  <2> QED BY <1>3, <2>1
<1>5. refs \in Tables
  <2>1. refs = [x \in RefNames |-> refs[x]]
    BY DEF refs
  <2> QED BY <1>4, <2>1 DEF Tables
<1>6. Counted(slots, refs)
  <2>1. ASSUME NEW i \in Nat \ {0} PROVE Vit(slots, i) = Cardinality(At(refs, i))
    <3>1. At(refs, i) = {}
      BY <1>4, TokensAssumption DEF At
    <3>2. ~Valid(slots, i)
      BY <1>1 DEF Valid
    <3> QED BY <3>1, <3>2, FS_EmptySet DEF Vit
  <2> QED BY <1>1, <1>5, <2>1 DEF Counted, EndsInUse
<1>7. \A i : ~Valid(slots, i) /\ HandlerOf(slots, i) = None
  BY <1>1 DEF Valid, HandlerOf
<1>8. RecordsAreOwned /\ LoopersLive
  BY <1>7 DEF TokensInit, RecordsAreOwned, LoopersLive
<1>9. \A m \in Messengers : MessengerAims(m)
  BY <1>7 DEF TokensInit, MessengerAims, Users
<1>10. \A r \in Letters : LetterAims(r)
  BY DEF TokensInit, LetterAims, Users
<1> QED BY <1>1, <1>2, <1>6, <1>8, <1>9, <1>10 DEF TokensInv

LEMMA TokensNextInv == ASSUME TokensInv, [TokensNext]_tokensVars PROVE TokensInv'
<1>1. ASSUME NEW h \in Handlers,
             CreateHandler(h) \/ DeleteHandler(h) \/ RemoveHandler(h)
      PROVE  TokensInv'
  BY <1>1, CreateHandlerInv, DeleteHandlerInv, RemoveHandlerInv
<1>2. ASSUME NEW h \in Handlers, NEW l \in Loopers, AddHandler(h, l) PROVE TokensInv'
  BY <1>2, AddHandlerInv
<1>3. ASSUME NEW m \in Messengers, NEW h \in Handlers, InitData(m, h) PROVE TokensInv'
  BY <1>3, InitDataInv
<1>4. ASSUME NEW m \in Messengers, NEW l \in Loopers, InitDataLooper(m, l) PROVE TokensInv'
  BY <1>4, InitDataLooperInv
<1>5. ASSUME NEW m \in Messengers, FinishInitData(m) \/ Destroy(m) PROVE TokensInv'
  BY <1>5, FinishInitDataInv, DestroyInv
<1>6. ASSUME NEW m \in Messengers, NEW r \in Letters, OpenReply(m, r) \/ CheckReply(m, r)
      PROVE  TokensInv'
  BY <1>6, OpenReplyInv, CheckReplyInv
<1>7. ASSUME NEW m \in Messengers, NEW n \in Messengers, CopyMessenger(m, n) PROVE TokensInv'
  BY <1>7, CopyInv
<1>8. ASSUME NEW r \in Letters, NEW h \in Handlers, Address(r, h) PROVE TokensInv'
  BY <1>8, AddressInv
<1>9. ASSUME NEW r \in Letters, OpenTarget(r) \/ DropLetter(r) PROVE TokensInv'
  BY <1>9, OpenTargetInv, DropLetterInv
<1>10. ASSUME NEW r \in Letters, NEW l \in Loopers, GiveToTarget(r, l) PROVE TokensInv'
  BY <1>10, GiveToTargetInv
<1>11. CASE UNCHANGED tokensVars
  <2>1. /\ slots' = slots /\ fToken' = fToken /\ fLooper' = fLooper /\ msgr' = msgr
        /\ letter' = letter /\ userPc' = userPc /\ clock' = clock /\ birth' = birth
        /\ meant' = meant /\ reached' = reached
    BY <1>11 DEF tokensVars
  <2>2. LoopersLive' /\ fLooper' \in [Handlers -> Loopers \cup {None}]
    BY <2>1 DEF TokensInv, TokensTypeOK, LoopersLive
  <2> QED BY <2>1, <2>2, LooperChangedInv
<1> QED BY <1>1, <1>2, <1>3, <1>4, <1>5, <1>6, <1>7, <1>8, <1>9, <1>10, <1>11 DEF TokensNext

\* A set with one tag on its members has as many as without.
LEMMA Tagged ==
    ASSUME NEW k, NEW S, IsFiniteSet(S)
    PROVE  IsFiniteSet({k} \X S) /\ Cardinality({k} \X S) = Cardinality(S)
<1>1. IsFiniteSet({k}) /\ Cardinality({k}) = 1
  BY FS_Singleton
<1>2. Cardinality(S) \in Nat
  BY FS_CardinalityType
<1>3. IsFiniteSet({k} \X S) /\ Cardinality({k} \X S) = 1 * Cardinality(S)
  BY <1>1, FS_Product
<1>4. \A n \in Nat : 1 * n = n
  OBVIOUS
<1> QED BY <1>2, <1>3, <1>4

LEMMA DisjointUnion ==
    ASSUME NEW S, NEW U, IsFiniteSet(S), IsFiniteSet(U), S \cap U = {}
    PROVE  /\ IsFiniteSet(S \cup U)
           /\ Cardinality(S \cup U) = Cardinality(S) + Cardinality(U)
<1>1. Cardinality(S) \in Nat /\ Cardinality(U) \in Nat
  BY FS_CardinalityType
<1>2. Cardinality(S \cap U) = 0
  BY FS_EmptySet
<1>3. /\ IsFiniteSet(S \cup U)
      /\ Cardinality(S \cup U) = Cardinality(S) + Cardinality(U) - Cardinality(S \cap U)
  BY FS_Union
<1> QED BY <1>1, <1>2, <1>3

\* The references by name are the references that the property counts.
LEMMA FourKinds ==
    ASSUME NEW i \in Nat \ {0}
    PROVE  Cardinality(At(refs, i)) =
             Cardinality(Original(i)) + Cardinality(ByHandler(i))
               + Cardinality(ByLooper(i)) + Cardinality(ByLookup(i))
<1> DEFINE A == {"token"} \X Original(i)
           B == {"handler"} \X ByHandler(i)
           C == {"looper"} \X ByLooper(i)
           D == {"letter"} \X ByLookup(i)
<1>1. /\ IsFiniteSet(Original(i)) /\ IsFiniteSet(ByHandler(i))
      /\ IsFiniteSet(ByLooper(i)) /\ IsFiniteSet(ByLookup(i))
  <2>1. Original(i) \in SUBSET Handlers /\ ByHandler(i) \in SUBSET Messengers
        /\ ByLooper(i) \in SUBSET Messengers /\ ByLookup(i) \in SUBSET Letters
    BY DEF Original, ByHandler, ByLooper, ByLookup
  <2>2. IsFiniteSet(Handlers) /\ IsFiniteSet(Messengers) /\ IsFiniteSet(Letters)
    BY TokensAssumption
  <2> QED BY <2>1, <2>2, FS_Subset
<1>2. i # None
  BY TokensAssumption
<1>3. At(refs, i) = ((A \cup B) \cup C) \cup D
  <2>1. ASSUME NEW x \in At(refs, i) PROVE x \in ((A \cup B) \cup C) \cup D
    <3>1. x \in RefNames /\ refs[x] = i
      BY DEF At
    <3>2. CASE \E h \in Handlers : x = <<"token", h>>
      <4>1. PICK h \in Handlers : x = <<"token", h>>
        BY <3>2
      <4>2. h \in Original(i)
        BY <1>2, <3>1, <4>1, RefsByName DEF Original
      <4> QED BY <4>1, <4>2
    <3>3. CASE \E m \in Messengers : x = <<"handler", m>>
      <4>1. PICK m \in Messengers : x = <<"handler", m>>
        BY <3>3
      <4>2. m \in ByHandler(i)
        BY <3>1, <4>1, RefsByName DEF ByHandler
      <4> QED BY <4>1, <4>2
    <3>4. CASE \E m \in Messengers : x = <<"looper", m>>
      <4>1. PICK m \in Messengers : x = <<"looper", m>>
        BY <3>4
      <4>2. m \in ByLooper(i)
        BY <3>1, <4>1, RefsByName DEF ByLooper
      <4> QED BY <4>1, <4>2
    <3>5. CASE \E r \in Letters : x = <<"letter", r>>
      <4>1. PICK r \in Letters : x = <<"letter", r>>
        BY <3>5
      <4>2. r \in ByLookup(i)
        BY <1>2, <3>1, <4>1, RefsByName DEF ByLookup
      <4> QED BY <4>1, <4>2
    <3>6. \/ \E h \in Handlers : x = <<"token", h>>
          \/ \E m \in Messengers : x = <<"handler", m>>
          \/ \E m \in Messengers : x = <<"looper", m>>
          \/ \E r \in Letters : x = <<"letter", r>>
      BY <3>1 DEF RefNames
    <3> QED BY <3>2, <3>3, <3>4, <3>5, <3>6
  <2>2. ASSUME NEW h \in Original(i) PROVE <<"token", h>> \in At(refs, i)
    BY RefsByName DEF Original, At
  <2>3. ASSUME NEW m \in ByHandler(i) PROVE <<"handler", m>> \in At(refs, i)
    BY RefsByName DEF ByHandler, At
  <2>4. ASSUME NEW m \in ByLooper(i) PROVE <<"looper", m>> \in At(refs, i)
    BY RefsByName DEF ByLooper, At
  <2>5. ASSUME NEW r \in ByLookup(i) PROVE <<"letter", r>> \in At(refs, i)
    BY RefsByName DEF ByLookup, At
  <2>6. ASSUME NEW x \in ((A \cup B) \cup C) \cup D PROVE x \in At(refs, i)
    <3>1. \/ \E h \in Original(i) : x = <<"token", h>>
          \/ \E m \in ByHandler(i) : x = <<"handler", m>>
          \/ \E m \in ByLooper(i) : x = <<"looper", m>>
          \/ \E r \in ByLookup(i) : x = <<"letter", r>>
      OBVIOUS
    <3> QED BY <2>2, <2>3, <2>4, <2>5, <3>1
  <2> HIDE DEF A, B, C, D
  <2> QED BY <2>1, <2>6
<1>4. A \cap B = {} /\ (A \cup B) \cap C = {} /\ ((A \cup B) \cup C) \cap D = {}
  OBVIOUS
<1>5. /\ IsFiniteSet(A) /\ Cardinality(A) = Cardinality(Original(i))
      /\ IsFiniteSet(B) /\ Cardinality(B) = Cardinality(ByHandler(i))
      /\ IsFiniteSet(C) /\ Cardinality(C) = Cardinality(ByLooper(i))
      /\ IsFiniteSet(D) /\ Cardinality(D) = Cardinality(ByLookup(i))
  BY <1>1, Tagged
<1> HIDE DEF A, B, C, D
<1>6. IsFiniteSet(A \cup B) /\ Cardinality(A \cup B) = Cardinality(A) + Cardinality(B)
  BY <1>4, <1>5, DisjointUnion
<1>7. /\ IsFiniteSet((A \cup B) \cup C)
      /\ Cardinality((A \cup B) \cup C) = Cardinality(A \cup B) + Cardinality(C)
  BY <1>4, <1>5, <1>6, DisjointUnion
<1>8. Cardinality(((A \cup B) \cup C) \cup D) = Cardinality((A \cup B) \cup C) + Cardinality(D)
  BY <1>4, <1>5, <1>7, DisjointUnion
<1> QED BY <1>3, <1>5, <1>6, <1>7, <1>8

LEMMA InvCounts == ASSUME TokensInv PROVE ReferencesCounted
<1>1. Counted(slots, refs) /\ TokensTypeOK /\ Len(slots) \in Nat
  BY LenProperties DEF TokensInv, Counted
<1>2. ASSUME NEW i \in 1..Len(slots)
      PROVE  Cardinality(Original(i)) + Cardinality(ByHandler(i))
               + Cardinality(ByLooper(i)) + Cardinality(ByLookup(i))
             = IF slots[i] = None THEN 0 ELSE slots[i].vitalities
  <2>1. i \in Nat \ {0}
    BY <1>1
  <2>2. Vit(slots, i) = Cardinality(At(refs, i))
    BY <1>1, <2>1 DEF Counted
  <2>3. Vit(slots, i) = IF slots[i] = None THEN 0 ELSE slots[i].vitalities
    BY DEF Vit, Valid
  <2> QED BY <2>1, <2>2, <2>3, FourKinds
<1> QED BY <1>1, <1>2 DEF ReferencesCounted, Counted, EndsInUse

LEMMA InvAims == ASSUME TokensInv PROVE TargetsAreTheRightOnes
<1>1. ASSUME NEW m \in Messengers, userPc[m] = "idle", HandlerOf(slots, TargetId(m)) # None
      PROVE  Made(HandlerOf(slots, TargetId(m))) = meant[m]
  BY <1>1 DEF TokensInv, MessengerAims
<1>2. \A r \in Letters : reached[r] # None => reached[r] = meant[r]
  BY DEF TokensInv, LetterAims
<1> QED BY <1>1, <1>2 DEF TargetsAreTheRightOnes, TargetId

\* Every record is counted as often as it is referred to, and no more: by the
\* handler it was made for, by messengers and by lookups that are under way.
THEOREM TokensCounted == TokensSpec => []ReferencesCounted
<1>1. TokensInit => TokensInv
  BY TokensInitInv
<1>2. TokensInv /\ [TokensNext]_tokensVars => TokensInv'
  BY TokensNextInv
<1>3. TokensInv => ReferencesCounted
  BY InvCounts
<1> QED BY <1>1, <1>2, <1>3, PTL DEF TokensSpec

\* Neither a messenger nor a message ever reaches a later handler that was
\* given the number of the one it was meant for.
THEOREM TokensTargets == TokensSpec => []TargetsAreTheRightOnes
<1>1. TokensInit => TokensInv
  BY TokensInitInv
<1>2. TokensInv /\ [TokensNext]_tokensVars => TokensInv'
  BY TokensNextInv
<1>3. TokensInv => TargetsAreTheRightOnes
  BY InvAims
<1> QED BY <1>1, <1>2, <1>3, PTL DEF TokensSpec
====
