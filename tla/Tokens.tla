---- MODULE Tokens ----
(***************************************************************************)
(* Handler tokens and the references that messengers and messages hold on   *)
(* them: BTokensDepot and BToken (src/src/kits/support/private/Token.cpp),   *)
(* the functions on them in src/src/kits/app/private/PrivateHandler.cpp, and *)
(* the constructors, copies and destructor of BMessenger                     *)
(* (src/src/kits/app/Messenger.cpp).                                         *)
(*                                                                           *)
(* A token is an index into a list of records.  A messenger counts itself in *)
(* the record's vitalities; a message in a queue only carries the number and *)
(* the time stamp of a record (of its target, or of the handler that waits   *)
(* for a reply), so its record may be reused meanwhile.                      *)
(*                                                                           *)
(* One action is one section under the depot's locker.  The second list,     *)
(* opened at 2^31 - 2 records, is left out.                                  *)
(***************************************************************************)
EXTENDS Integers, Sequences, FiniteSets

CONSTANTS
    Handlers,
    Loopers,        \* the handlers that are loopers
    Messengers,     \* BMessenger objects
    Letters,        \* queued messages
    None,           \* NULL, and an object that does not exist
    MaxClock        \* bound: handlers that are ever created

ASSUME TokensAssumption ==
    /\ IsFiniteSet(Handlers) /\ IsFiniteSet(Messengers) /\ IsFiniteSet(Letters)
    /\ Loopers \subseteq Handlers
    /\ Messengers \cap Letters = {}
    /\ MaxClock \in Nat
    \* NULL is neither an object, nor a number, nor a record
    /\ None \notin Handlers \cup Nat
    /\ None \notin [id : Nat, stamp : Nat]
    /\ None \notin [vitalities : Nat, stamp : Nat, data : Handlers \cup {None}]

VARIABLES
    slots,      \* the depot's list: records [vitalities, stamp, data], or None
    fToken,     \* per handler: [id, stamp] of its BToken, or None when deleted
    fLooper,    \* per handler: its looper or None
    msgr,       \* per messenger: [handler, looper], ids of tokens or None
    letter,     \* per message: [id, stamp] of its target, or None
    userPc,     \* per messenger and message: "idle", or between two sections
    clock,      \* b_system_time()
    birth,      \* history: per handler, how many handlers were made before it
    meant,      \* history: per messenger and message, [handler, birth] it is for
    reached     \* history: per message, the [handler, birth] it was given to

Users == Messengers \cup Letters

tokensVars == <<slots, fToken, fLooper, msgr, letter, userPc, clock, birth, meant, reached>>

Ids == 1..MaxClock
NoTokens == [handler |-> None, looper |-> None]
Records == [vitalities : Nat \ {0}, stamp : Nat, data : Handlers \cup {None}]
Births == [handler : Handlers, birth : Nat] \cup {None}

TokensTypeOK ==
    /\ slots \in Seq(Records \cup {None})
    /\ fToken \in [Handlers -> [id : Ids, stamp : Nat] \cup {None}]
    /\ fLooper \in [Handlers -> Loopers \cup {None}]
    /\ msgr \in [Messengers -> [handler : Ids \cup {None}, looper : Ids \cup {None}]]
    /\ letter \in [Letters -> [id : Ids, stamp : Nat] \cup {None}]
    /\ userPc \in [Users -> {"idle", "looper", "check"}]
    /\ clock \in 0..MaxClock
    /\ birth \in [Handlers -> Nat]
    /\ meant \in [Users -> Births]
    /\ reached \in [Letters -> Births]

TokensInit ==
    /\ slots = <<>>
    /\ fToken = [h \in Handlers |-> None]
    /\ fLooper = [h \in Handlers |-> None]
    /\ msgr = [m \in Messengers |-> NoTokens]
    /\ letter = [r \in Letters |-> None]
    /\ userPc = [u \in Users |-> "idle"]
    /\ clock = 0
    /\ birth = [h \in Handlers |-> 0]
    /\ meant = [u \in Users |-> None]
    /\ reached = [r \in Letters |-> None]

-----------------------------------------------------------------------------
(* BTokensDepot.  Each operator maps the list of records to the next one. *)

\* TokenAt
Valid(s, id) == id \in 1..Len(s) /\ s[id] # None

Drained(s) == \A i \in 1..Len(s) : s[i] = None

\* The list without the empty records at its end.
Trimmed(s) == IF Drained(s)
                THEN <<>>
                ELSE SubSeq(s, 1, CHOOSE i \in 1..Len(s) :
                        /\ s[i] # None
                        /\ \A j \in i + 1..Len(s) : s[j] = None)

RemoveToken(s, id) ==
    IF s[id].vitalities > 1
      THEN [s EXCEPT ![id].vitalities = @ - 1, ![id].data = None]
      ELSE Trimmed([s EXCEPT ![id] = None])

AddToken(s, data, stamp) ==
    Append(s, [vitalities |-> 1, stamp |-> stamp, data |-> data])

\* ref_handler of a record that is there, and unref_handler
Ref(s, id) == IF id = None THEN s ELSE [s EXCEPT ![id].vitalities = @ + 1]

Unref(s, id) ==
    IF ~Valid(s, id) THEN s
    ELSE IF s[id].vitalities = 1
           THEN Trimmed([s EXCEPT ![id] = None])
           ELSE [s EXCEPT ![id].vitalities = @ - 1]

\* get_handler, and the token of its looper if it has one
HandlerOf(s, id) == IF Valid(s, id) THEN s[id].data ELSE None
LooperTokenOf(s, id) ==
    LET h == HandlerOf(s, id)
    IN  IF h = None \/ fLooper[h] = None THEN None ELSE fToken[fLooper[h]].id

\* Both references of a messenger given back.
Released(s, m) == Unref(Unref(s, msgr[m].handler), msgr[m].looper)

-----------------------------------------------------------------------------
(* Handlers and loopers *)

\* Seeded fault: the clock is read once, and not waited for.
HastyWaitClock == \E n \in {clock, clock + 1} : clock' = n
\* AddToken spins until b_system_time() has left the record's time stamp.
WaitClock == clock' = clock + 1

CreateHandler(h) ==
    /\ fToken[h] = None
    /\ clock < MaxClock
    /\ slots' = AddToken(slots, h, clock)
    /\ fToken' = [fToken EXCEPT ![h] = [id |-> Len(slots) + 1, stamp |-> clock]]
    /\ fLooper' = [fLooper EXCEPT ![h] = IF h \in Loopers THEN h ELSE None]
    /\ birth' = [birth EXCEPT ![h] = @ + 1]
    /\ WaitClock
    /\ UNCHANGED <<msgr, letter, userPc, meant, reached>>

\* The destructors, of a looper once its handlers are gone.
DeleteHandler(h) ==
    /\ fToken[h] # None
    /\ \A g \in Handlers \ {h} : fLooper[g] # h
    /\ slots' = RemoveToken(slots, fToken[h].id)
    /\ fToken' = [fToken EXCEPT ![h] = None]
    /\ fLooper' = [fLooper EXCEPT ![h] = None]
    /\ UNCHANGED <<msgr, letter, userPc, clock, birth, meant, reached>>

\* The side of AddHandler and RemoveHandler that Looper() shows.
AddHandler(h, l) ==
    /\ fToken[h] # None /\ fToken[l] # None
    /\ fLooper[h] = None
    /\ fLooper' = [fLooper EXCEPT ![h] = l]
    /\ UNCHANGED <<slots, fToken, msgr, letter, userPc, clock, birth, meant, reached>>

RemoveHandler(h) ==
    /\ h \notin Loopers
    /\ fLooper[h] # None
    /\ fLooper' = [fLooper EXCEPT ![h] = None]
    /\ UNCHANGED <<slots, fToken, msgr, letter, userPc, clock, birth, meant, reached>>

-----------------------------------------------------------------------------
(* BMessenger *)

Made(h) == [handler |-> h, birth |-> birth[h]]

\* InitData for a handler: a reference on it, then one on its looper.
InitData(m, h) ==
    /\ userPc[m] = "idle"
    /\ fToken[h] # None
    /\ slots' = Ref(Released(slots, m), fToken[h].id)
    /\ msgr' = [msgr EXCEPT ![m] = [handler |-> fToken[h].id, looper |-> None]]
    /\ meant' = [meant EXCEPT ![m] = Made(h)]
    /\ userPc' = [userPc EXCEPT ![m] = "looper"]
    /\ UNCHANGED <<fToken, fLooper, letter, clock, birth, reached>>

\* Seeded fault: the handler's reference is forgotten when it has no looper.
LeakyAbandon(m) == slots' = slots
Abandon(m) == slots' = Unref(slots, msgr[m].handler)

\* get_ref_looper_token, for a messenger that holds a reference on the handler.
FindLooper(m) ==
    LET id == LooperTokenOf(slots, msgr[m].handler)
    IN  IF id = None
          THEN Abandon(m) /\ msgr' = [msgr EXCEPT ![m] = NoTokens]
          ELSE slots' = Ref(slots, id) /\ msgr' = [msgr EXCEPT ![m].looper = id]

FinishInitData(m) ==
    /\ userPc[m] = "looper"
    /\ FindLooper(m)
    /\ userPc' = [userPc EXCEPT ![m] = "idle"]
    /\ UNCHANGED <<fToken, fLooper, letter, clock, birth, meant, reached>>

\* InitData for a looper: messages go to its preferred handler.
InitDataLooper(m, l) ==
    /\ userPc[m] = "idle"
    /\ fToken[l] # None
    /\ slots' = Ref(Released(slots, m), fToken[l].id)
    /\ msgr' = [msgr EXCEPT ![m] = [handler |-> None, looper |-> fToken[l].id]]
    /\ meant' = [meant EXCEPT ![m] = Made(l)]
    /\ UNCHANGED <<fToken, fLooper, letter, userPc, clock, birth, reached>>

\* BMessenger(team, token, timestamp) refers to the record before it compares.
OpenReply(m, r) ==
    /\ userPc[m] = "idle" /\ userPc[r] = "idle"
    /\ msgr[m] = NoTokens
    /\ letter[r] # None
    /\ Valid(slots, letter[r].id)
    /\ slots' = Ref(slots, letter[r].id)
    /\ msgr' = [msgr EXCEPT ![m] = [handler |-> letter[r].id, looper |-> None]]
    /\ meant' = [meant EXCEPT ![m] = meant[r]]
    /\ userPc' = [userPc EXCEPT ![m] = "check", ![r] = "check"]
    /\ UNCHANGED <<fToken, fLooper, letter, clock, birth, reached>>

SameStamp(r) == slots[letter[r].id].stamp = letter[r].stamp

CheckReply(m, r) ==
    /\ userPc[m] = "check" /\ userPc[r] = "check"
    /\ meant[m] = meant[r] /\ msgr[m].handler = letter[r].id
    /\ IF SameStamp(r)
         THEN FindLooper(m)
         ELSE Abandon(m) /\ msgr' = [msgr EXCEPT ![m] = NoTokens]
    /\ userPc' = [userPc EXCEPT ![m] = "idle", ![r] = "idle"]
    /\ UNCHANGED <<fToken, fLooper, letter, clock, birth, meant, reached>>

\* operator=, and the copy constructor for an n without tokens.  A messenger
\* assigned to itself has let go of its tokens before it looks at them.
CopyMessenger(m, n) ==
    /\ userPc[m] = "idle" /\ userPc[n] = "idle"
    /\ IF m = n \/ msgr[m].looper = None
         THEN /\ slots' = Released(slots, n)
              /\ msgr' = [msgr EXCEPT ![n] = NoTokens]
         ELSE /\ slots' = Ref(Ref(Released(slots, n), msgr[m].handler), msgr[m].looper)
              /\ msgr' = [msgr EXCEPT ![n] = msgr[m]]
    /\ meant' = [meant EXCEPT ![n] = meant[m]]
    /\ UNCHANGED <<fToken, fLooper, letter, userPc, clock, birth, reached>>

Destroy(m) ==
    /\ userPc[m] = "idle"
    /\ msgr[m] # NoTokens
    /\ slots' = Released(slots, m)
    /\ msgr' = [msgr EXCEPT ![m] = NoTokens]
    /\ UNCHANGED <<fToken, fLooper, letter, userPc, clock, birth, meant, reached>>

-----------------------------------------------------------------------------
(* Messages: _PostMessage addresses one, _MessageTarget looks its target up. *)

Address(r, h) ==
    /\ letter[r] = None
    /\ fToken[h] # None
    /\ letter' = [letter EXCEPT ![r] = fToken[h]]
    /\ meant' = [meant EXCEPT ![r] = Made(h)]
    /\ reached' = [reached EXCEPT ![r] = None]
    /\ UNCHANGED <<slots, fToken, fLooper, msgr, userPc, clock, birth>>

\* ref_handler of _MessageTarget
OpenTarget(r) ==
    /\ letter[r] # None
    /\ userPc[r] = "idle"
    /\ Valid(slots, letter[r].id)
    /\ slots' = Ref(slots, letter[r].id)
    /\ userPc' = [userPc EXCEPT ![r] = "looper"]
    /\ UNCHANGED <<fToken, fLooper, msgr, letter, clock, birth, meant, reached>>

\* The message goes to the handler its looper finds, or nowhere.
GiveToTarget(r, l) ==
    LET h == HandlerOf(slots, letter[r].id)
        found == SameStamp(r) /\ h # None /\ fLooper[h] = l
    IN  /\ userPc[r] = "looper"
        /\ reached' = [reached EXCEPT ![r] = IF found THEN Made(h) ELSE None]
        /\ slots' = Unref(slots, letter[r].id)
        /\ letter' = [letter EXCEPT ![r] = None]
        /\ userPc' = [userPc EXCEPT ![r] = "idle"]
        /\ UNCHANGED <<fToken, fLooper, msgr, clock, birth, meant>>

\* A message whose record is gone; or one deleted in its queue.
DropLetter(r) ==
    /\ letter[r] # None
    /\ userPc[r] = "idle"
    /\ letter' = [letter EXCEPT ![r] = None]
    /\ UNCHANGED <<slots, fToken, fLooper, msgr, userPc, clock, birth, meant, reached>>

-----------------------------------------------------------------------------

TokensNext ==
    \/ \E h \in Handlers : CreateHandler(h) \/ DeleteHandler(h) \/ RemoveHandler(h)
    \/ \E h \in Handlers, l \in Loopers : AddHandler(h, l)
    \/ \E m \in Messengers, h \in Handlers : InitData(m, h)
    \/ \E m \in Messengers, l \in Loopers : InitDataLooper(m, l)
    \/ \E m \in Messengers : FinishInitData(m) \/ Destroy(m)
    \/ \E m \in Messengers, r \in Letters : OpenReply(m, r) \/ CheckReply(m, r)
    \/ \E m, n \in Messengers : CopyMessenger(m, n)
    \/ \E r \in Letters, h \in Handlers : Address(r, h)
    \/ \E r \in Letters : OpenTarget(r) \/ DropLetter(r)
    \/ \E r \in Letters, l \in Loopers : GiveToTarget(r, l)

TokensSpec == TokensInit /\ [][TokensNext]_tokensVars

-----------------------------------------------------------------------------
(* Properties *)

Original(id) == {h \in Handlers : fToken[h] # None /\ fToken[h].id = id}
ByHandler(id) == {m \in Messengers : msgr[m].handler = id}
ByLooper(id) == {m \in Messengers : msgr[m].looper = id}
ByLookup(id) == {r \in Letters : userPc[r] = "looper" /\ letter[r].id = id}

\* A record's vitalities (Token.cpp) are exactly the handler it was made for,
\* the messengers that hold it and the lookups under way: no failed constructor,
\* copy or deletion leaks a reference or gives one back twice.  A record that
\* nobody refers to is gone, and the list ends with a record that is in use.
ReferencesCounted ==
    /\ TokensTypeOK
    /\ \A i \in 1..Len(slots) :
         Cardinality(Original(i)) + Cardinality(ByHandler(i))
           + Cardinality(ByLooper(i)) + Cardinality(ByLookup(i))
         = IF slots[i] = None THEN 0 ELSE slots[i].vitalities
    /\ slots # <<>> => slots[Len(slots)] # None

\* A finished messenger leads to the handler or looper it was made for, or to
\* none once that one is deleted, whether made for a handler, copied, or made
\* from a message's reply address; and _MessageTarget (Looper.cpp) gives a
\* message to no handler but the one it was posted for.  Neither ever reaches
\* a later handler that was given the same number.
TargetsAreTheRightOnes ==
    /\ \A m \in Messengers :
        (userPc[m] = "idle" /\ msgr[m] # NoTokens) =>
                LET h == HandlerOf(slots, IF msgr[m].handler = None
                                        THEN msgr[m].looper ELSE msgr[m].handler)
                IN  h # None => Made(h) = meant[m]
    /\ \A r \in Letters : reached[r] # None => reached[r] = meant[r]
====
