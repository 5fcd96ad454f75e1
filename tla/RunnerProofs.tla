---- MODULE RunnerProofs ----
(***************************************************************************)
(* Proofs about Runner for any runners, intervals, counts and bound.         *)
(*                                                                           *)
(* The wait is right because the scan is: sRunnerMinimumInterval covers each *)
(* active runner the scan has passed, as of the scan's reading of the clock, *)
(* or is marked.  What other threads do while the lock is given up either    *)
(* makes nothing active, or marks it and has a wakeup on its way.            *)
(***************************************************************************)
EXTENDS Runner, FiniteSetTheorems, SequenceTheorems, WellFoundedInduction, TLAPS

-----------------------------------------------------------------------------
(* Numbers *)

\* A set of naturals has a least element.
LEMMA LeastNatural ==
    ASSUME NEW T \in SUBSET Nat, T # {}
    PROVE  \E x \in T : \A y \in T : x <= y
<1>1. \E x \in T : \A y \in T : ~ (<<y, x>> \in OpToRel(<, Nat))
  BY NatLessThanWellFounded, WFMin
<1>2. PICK x \in T : \A y \in T : ~ (<<y, x>> \in OpToRel(<, Nat))
  BY <1>1
<1>3. \A y \in T : ~ (y < x)
  BY <1>2 DEF OpToRel
<1> QED BY <1>3

\* A finite set of naturals has a greatest element: take the one with the
\* fewest above it.
LEMMA GreatestNatural ==
    ASSUME NEW S \in SUBSET Nat, S # {}, IsFiniteSet(S)
    PROVE  \E n \in S : \A k \in S : k <= n
<1> DEFINE Over(m) == {z \in S : m < z}
           T == {Cardinality(Over(n)) : n \in S}
<1>1. \A n \in S : IsFiniteSet(Over(n)) /\ Cardinality(Over(n)) \in Nat
  BY FS_Subset, FS_CardinalityType
<1>2. T \in SUBSET Nat /\ T # {}
  BY <1>1
<1>3. \E x \in T : \A y \in T : x <= y
  BY <1>2, LeastNatural
<1>4. PICK n \in S : \A k \in S : Cardinality(Over(n)) <= Cardinality(Over(k))
  BY <1>3
<1>5. ASSUME NEW k \in S, n < k PROVE FALSE
  <2>1. Over(k) \subseteq Over(n) /\ k \in Over(n) /\ k \notin Over(k)
    <3>1. k \in Nat /\ n \in Nat /\ \A x \in S : x \in Nat
      OBVIOUS
    <3>2. \A z \in S : k < z => n < z
      BY <1>5, <3>1
    <3>3. k \in Over(n) /\ k \notin Over(k)
      BY <1>5, <3>1
    <3> QED BY <3>2, <3>3
  <2>2. Cardinality(Over(k)) <= Cardinality(Over(n)) /\ Cardinality(Over(n)) # Cardinality(Over(k))
    BY <1>1, <2>1, FS_Subset
  <2> QED BY <1>1, <1>4, <2>2
<1> QED BY <1>5

\* No interval is as long as Forever.
LEMMA ForeverIsLonger ==
    /\ Forever \in Nat \ {0}
    /\ \A n \in Intervals : n \in Nat /\ n < Forever
<1>1. \E n \in Intervals : \A k \in Intervals : k <= n
  BY GreatestNatural, RunnerAssumption DEF RunnerAssumption
<1>2. PICK n \in Intervals : Forever = 1 + n /\ \A k \in Intervals : k <= n
  BY <1>1 DEF Forever
<1> QED BY <1>2, RunnerAssumption DEF RunnerAssumption

-----------------------------------------------------------------------------
(* The list *)

Entries == Runners \cup {NULL}

\* The slot for a new runner is free, or one behind the end.
LEMMA SlotIsFree ==
    ASSUME sRunnerList \in Seq(Entries)
    PROVE  /\ FreeSlot \in 1 .. Len(sRunnerList) + 1
           /\ FreeSlot <= Len(sRunnerList) => sRunnerList[FreeSlot] = NULL
<1> DEFINE I == {k \in 1 .. Len(sRunnerList) : sRunnerList[k] = NULL}
<1>1. Len(sRunnerList) \in Nat /\ DOMAIN sRunnerList = 1 .. Len(sRunnerList)
  BY LenProperties
<1>2. CASE I # {}
  <2>1. \E x \in I : \A y \in I : x <= y
    <3>1. I \in SUBSET Nat
      BY <1>1
    <3> HIDE DEF I
    <3> QED BY <1>2, <3>1, LeastNatural
  <2>2. Min(I) \in I
    BY <2>1 DEF Min
  <2>3. FreeSlot = Min(I)
    BY <1>1, <1>2 DEF FreeSlot, SelectInSeq
  <2> QED BY <1>1, <2>2, <2>3
<1>3. CASE I = {}
  <2>1. FreeSlot = Len(sRunnerList) + 1
    BY <1>1, <1>3 DEF FreeSlot
  <2> QED BY <1>1, <2>1
<1> QED BY <1>2, <1>3

\* What the list is after r was put into a slot.
LEMMA ListWith ==
    ASSUME NEW S, NEW l \in Seq(S), NEW r \in S, NEW s \in 1 .. Len(l) + 1, NEW m,
           m = [k \in 1 .. (IF s > Len(l) THEN s ELSE Len(l)) |-> IF k = s THEN r ELSE l[k]]
    PROVE  /\ m \in Seq(S)
           /\ Len(m) = IF s > Len(l) THEN s ELSE Len(l)
           /\ \A k \in 1 .. Len(m) : m[k] = IF k = s THEN r ELSE l[k]
<1> DEFINE n == IF s > Len(l) THEN s ELSE Len(l)
<1>1. Len(l) \in Nat /\ l \in [1 .. Len(l) -> S]
  BY LenProperties
<1>2. n \in Nat /\ m \in [1 .. n -> S]
  BY <1>1
<1>3. m \in Seq(S)
  BY <1>2
<1>4. Len(m) = n
  BY <1>1, <1>2, <1>3, LenProperties
<1> QED BY <1>1, <1>3, <1>4

\* What the list is after its entry at token was taken out.
LEMMA ListWithout ==
    ASSUME NEW token \in 0 .. Len(sRunnerList) - 1, sRunnerList \in Seq(Entries)
    PROVE  /\ Removed(token) \in Seq(Entries)
           /\ Len(Removed(token)) = IF token = Len(sRunnerList) - 1 THEN token
                                    ELSE Len(sRunnerList)
           /\ \A k \in 1 .. Len(Removed(token)) :
                Removed(token)[k] = IF k = token + 1 THEN NULL ELSE sRunnerList[k]
<1>1. /\ Len(sRunnerList) \in Nat
      /\ \A k \in 1 .. Len(sRunnerList) : sRunnerList[k] \in Entries
  BY LenProperties
<1>2. CASE token = Len(sRunnerList) - 1
  <2>1. Removed(token) = SubSeq(sRunnerList, 1, token)
    BY <1>2 DEF Removed
  <2>2. \A k \in 1 .. token : sRunnerList[k] \in Entries
    BY <1>1
  <2>3. /\ SubSeq(sRunnerList, 1, token) \in Seq(Entries)
        /\ Len(SubSeq(sRunnerList, 1, token)) = token
        /\ \A k \in 1 .. token : SubSeq(sRunnerList, 1, token)[k] = sRunnerList[k]
    BY <1>1, <2>2, SubSeqProperties
  <2> QED BY <1>1, <1>2, <2>1, <2>3
<1>3. CASE token # Len(sRunnerList) - 1
  <2>1. Removed(token) = [sRunnerList EXCEPT ![token + 1] = NULL]
    BY <1>3 DEF Removed
  <2>2. token + 1 \in 1 .. Len(sRunnerList) /\ NULL \in Entries
    BY <1>1 DEF Entries
  <2>3. /\ [sRunnerList EXCEPT ![token + 1] = NULL] \in Seq(Entries)
        /\ Len([sRunnerList EXCEPT ![token + 1] = NULL]) = Len(sRunnerList)
        /\ \A k \in 1 .. Len(sRunnerList) :
             [sRunnerList EXCEPT ![token + 1] = NULL][k]
               = IF k = token + 1 THEN NULL ELSE sRunnerList[k]
    BY <2>2, ExceptSeq
  <2> QED BY <1>3, <2>1, <2>3
<1> QED BY <1>2, <1>3

-----------------------------------------------------------------------------
(* The inductive invariant *)

Shape ==
    /\ live \subseteq Runners
    /\ fInterval \in [Runners -> Intervals]
    /\ fCount \in [Runners -> Int]
    /\ aimed \in [Runners -> BOOLEAN]
    /\ age \in [Runners -> -1 .. Forever]
    /\ sRunnerMinimumInterval \in -1 .. Forever
    /\ posts \in Nat /\ sem \in Nat /\ posts + sem <= MaxPosts
    /\ at \in {"loop", "scan", "sending", "served", "waiting"}
    /\ i \in Nat /\ (at \notin {"scan", "sending"} => i = 0)
    /\ runner \in Entries /\ (at = "sending" => runner # NULL)
    /\ left \in 0 .. Forever /\ late \in 0 .. MaxLate
    /\ be_app \in BOOLEAN /\ unheard \in BOOLEAN

\* Every runner lies at its token, and only there.
Listed ==
    /\ sRunnerList \in Seq(Entries)
    /\ fToken \in [Runners -> Int]
    /\ \A r \in live : /\ fToken[r] \in 0 .. Len(sRunnerList) - 1
                       /\ sRunnerList[fToken[r] + 1] = r
    /\ \A k \in 1 .. Len(sRunnerList) :
         sRunnerList[k] # NULL => /\ sRunnerList[k] \in live
                                  /\ fToken[sRunnerList[k]] = k - 1

Gone(r) == IF age[r] < 0 THEN 0 ELSE age[r]

\* The minimum is no longer than r has to go.
Covered(r) ==
    /\ sRunnerMinimumInterval > 0
    /\ sRunnerMinimumInterval <= fInterval[r] - Gone(r)

\* Unless a change has marked it, the minimum covers every active runner that the
\* scan has behind it.  The entry that is being sent for is not covered yet; when
\* it is active it is still the runner that was sent for, just now.  That is why
\* the scan may start again behind the first entry, and need not reset the minimum.
ScanCovers ==
    sRunnerMinimumInterval >= 0 /\ ~unheard =>
      \A r \in Runners : Active(r) =>
        /\ at \in {"loop", "waiting"} => sRunnerMinimumInterval > 0
        /\ at = "served" => Covered(r)
        /\ at \in {"scan", "sending"} /\ fToken[r] < i => Covered(r)
        /\ at = "sending" /\ fToken[r] = i => r = runner /\ age[r] <= 0

IInv == Shape /\ Listed /\ ScanCovers /\ WakesInTime

-----------------------------------------------------------------------------
(* What follows from it *)

\* The list by its entries.
LEMMA ListFacts ==
    ASSUME Listed
    PROVE  /\ Len(sRunnerList) \in Nat
           /\ DOMAIN sRunnerList = 1 .. Len(sRunnerList)
           /\ \A k \in 1 .. Len(sRunnerList) : sRunnerList[k] \in Entries
BY LenProperties DEF Listed

LEMMA InvImplies ==
    ASSUME IInv
    PROVE  DeletedIsLeftAlone /\ WakesInTime
<1>1. /\ Len(sRunnerList) \in Nat
      /\ DOMAIN sRunnerList = 1 .. Len(sRunnerList)
      /\ \A k \in 1 .. Len(sRunnerList) : sRunnerList[k] \in Entries
  BY ListFacts DEF IInv
<1>2. \A r \in live : fToken[r] + 1 \in DOMAIN sRunnerList
                      /\ sRunnerList[fToken[r] + 1] = r
  BY <1>1 DEF IInv, Listed, Shape
<1>3. Range(sRunnerList) \ {NULL} = live
  <2>1. ASSUME NEW r \in live PROVE r \in Range(sRunnerList) \ {NULL}
    <3>1. r # NULL
      BY RunnerAssumption DEF RunnerAssumption, IInv, Shape
    <3> QED BY <1>2, <3>1 DEF Range
  <2>2. ASSUME NEW r \in Range(sRunnerList), r # NULL PROVE r \in live
    <3>1. PICK k \in 1 .. Len(sRunnerList) : r = sRunnerList[k]
      BY <1>1 DEF Range
    <3> QED BY <2>2, <3>1 DEF IInv, Listed
  <2> QED BY <2>1, <2>2
<1>4. \A r \in Runners : age[r] \in -1 .. Forever
  BY DEF IInv, Shape
<1>5. TypeOK
  BY <1>2, <1>3, <1>4 DEF TypeOK, IInv, Shape, Entries
<1>6. ASSUME at = "sending", ~Changed PROVE runner \in live
  <2>1. i + 1 \in 1 .. Len(sRunnerList) /\ sRunnerList[i + 1] = runner /\ runner # NULL
    BY <1>1, <1>6 DEF Changed, IInv, Shape
  <2> QED BY <2>1 DEF IInv, Listed
<1> QED BY <1>5, <1>6 DEF DeletedIsLeftAlone, IInv

-----------------------------------------------------------------------------
(* Clients *)

\* A change of one runner that announces what it makes or leaves active keeps
\* what the scan and the wait know of the others.
LEMMA ChangeFrame ==
    ASSUME IInv, NEW r \in Runners,
           UNCHANGED <<loop, sem>>,
           \A q \in Runners \ {r} :
             /\ (q \in live') = (q \in live)
             /\ fToken'[q] = fToken[q] /\ fInterval'[q] = fInterval[q]
             /\ fCount'[q] = fCount[q] /\ aimed'[q] = aimed[q] /\ age'[q] = age[q],
           \/ unheard' = TRUE
           \/ /\ UNCHANGED <<sRunnerMinimumInterval, posts, unheard>>
              /\ Active(r)' => /\ Active(r) /\ fToken'[r] = fToken[r]
                               /\ fInterval'[r] = fInterval[r] /\ age'[r] = -1
           \/ sRunnerMinimumInterval' = -1 /\ posts' = posts + 1
    PROVE  ScanCovers' /\ WakesInTime'
<1>1. /\ at' = at /\ i' = i /\ runner' = runner /\ left' = left /\ late' = late
      /\ sem' = sem /\ late \in Nat /\ posts \in Nat /\ sem \in Nat
  BY RunnerAssumption DEF RunnerAssumption, loop, IInv, Shape
<1>2. CASE sRunnerMinimumInterval' = -1 /\ posts' = posts + 1
  BY <1>1, <1>2 DEF ScanCovers, WakesInTime
<1>3. CASE /\ UNCHANGED <<sRunnerMinimumInterval, posts, unheard>>
           /\ Active(r)' => /\ Active(r) /\ fToken'[r] = fToken[r]
                            /\ fInterval'[r] = fInterval[r] /\ age'[r] = -1
  <2>1. \A q \in Runners : Active(q)' =>
          /\ Active(q) /\ fToken'[q] = fToken[q] /\ fInterval'[q] = fInterval[q]
          /\ (age'[q] = age[q] \/ age'[q] = -1)
    BY <1>3 DEF Active, Sends
  <2>2. \A q \in Runners : /\ age[q] \in -1 .. Forever /\ fInterval[q] \in Nat
                           /\ fToken[q] \in Int
    BY ForeverIsLonger DEF IInv, Shape, Listed
  <2>3. /\ sRunnerMinimumInterval' = sRunnerMinimumInterval /\ posts' = posts
        /\ unheard' = unheard /\ sRunnerMinimumInterval \in Int /\ left \in Nat /\ Forever \in Nat
    BY <1>3, ForeverIsLonger DEF IInv, Shape
  <2>4. ScanCovers'
    BY <1>1, <2>1, <2>2, <2>3 DEF IInv, ScanCovers, Covered, Gone
  <2>5. WakesInTime'
    BY <1>1, <2>1, <2>2, <2>3 DEF IInv, WakesInTime
  <2> QED BY <2>4, <2>5
<1>4. CASE unheard' = TRUE
  BY <1>4 DEF ScanCovers, WakesInTime
<1> QED BY <1>2, <1>3, <1>4

\* What Announce does to the minimum, the wakeups and the history.
LEMMA AnnounceFacts ==
    ASSUME Shape, NEW active \in BOOLEAN, Announce(active), posts + sem < MaxPosts,
           sem' = sem
    PROVE  /\ \/ unheard' = TRUE
              \/ UNCHANGED <<sRunnerMinimumInterval, posts, unheard>> /\ ~active
              \/ sRunnerMinimumInterval' = -1 /\ posts' = posts + 1
           /\ sRunnerMinimumInterval' \in -1 .. Forever
           /\ posts' \in Nat /\ sem' \in Nat /\ posts' + sem' <= MaxPosts
           /\ be_app' \in BOOLEAN /\ unheard' \in BOOLEAN
<1>1. be_app' \in BOOLEAN /\ unheard' \in BOOLEAN
  BY Zenon DEF Announce, Shape
<1>2. CASE active /\ be_app
  BY <1>1, <1>2, ForeverIsLonger, RunnerAssumption DEF RunnerAssumption, Announce, Shape
<1>3. CASE ~(active /\ be_app)
  <2>1. UNCHANGED <<sRunnerMinimumInterval, posts>> /\ unheard' = (unheard \/ active)
    BY <1>3, Zenon DEF Announce
  <2>2. CASE active
    <3>1. unheard' = TRUE
      BY <2>1, <2>2, Zenon
    <3> QED BY <1>1, <2>1, <3>1 DEF Shape
  <2>3. CASE ~active
    <3>1. unheard' = unheard
      BY <2>1, <2>3, Zenon DEF Shape
    <3> QED BY <1>1, <2>1, <2>3, <3>1 DEF Shape
  <2> QED BY <2>2, <2>3
<1> QED BY <1>2, <1>3

LEMMA CreateStep ==
    ASSUME IInv, NEW r \in Runners, NEW n \in Intervals, NEW c \in Counts,
           NEW a \in BOOLEAN, Create(r, n, c, a)
    PROVE  IInv'
<1> DEFINE slot == FreeSlot
           len == Len(sRunnerList)
<1>1. /\ len \in Nat
      /\ \A k \in 1 .. len : sRunnerList[k] \in Entries
      /\ sRunnerList \in Seq(Entries)
  BY ListFacts DEF IInv, Listed
<1>2. slot \in 1 .. len + 1 /\ (slot <= len => sRunnerList[slot] = NULL)
  BY <1>1, SlotIsFree
<1>3. /\ sRunnerList' \in Seq(Entries)
      /\ Len(sRunnerList') = IF slot > len THEN slot ELSE len
      /\ \A k \in 1 .. Len(sRunnerList') : sRunnerList'[k] = IF k = slot THEN r ELSE sRunnerList[k]
  <2>1. sRunnerList' = [k \in 1 .. (IF slot > len THEN slot ELSE len) |->
                          IF k = slot THEN r ELSE sRunnerList[k]]
    BY DEF Create
  <2>2. r \in Entries
    BY DEF Entries
  <2> HIDE DEF slot
  <2> QED BY <1>1, <1>2, <2>1, <2>2, ListWith
<1>4. /\ r \notin live /\ live' = live \cup {r}
      /\ fToken' = [fToken EXCEPT ![r] = slot - 1]
      /\ fToken \in [Runners -> Int] /\ live \subseteq Runners
  BY DEF Create, IInv, Shape, Listed
<1>5. /\ Announce(Sends(c, n, a)) /\ posts + sem < MaxPosts /\ sem' = sem
      /\ Sends(c, n, a) \in BOOLEAN
  BY DEF Create, Sends
<1> HIDE DEF slot
<1>6. Listed'
  <2>1. fToken' \in [Runners -> Int]
    BY <1>1, <1>2, <1>4
  <2>2. ASSUME NEW q \in live'
        PROVE  fToken'[q] \in 0 .. Len(sRunnerList') - 1 /\ sRunnerList'[fToken'[q] + 1] = q
    <3>1. CASE q = r
      BY <1>1, <1>2, <1>3, <1>4, <3>1
    <3>2. CASE q # r
      <4>1. /\ q \in live /\ fToken'[q] = fToken[q]
            /\ fToken[q] \in 0 .. len - 1 /\ sRunnerList[fToken[q] + 1] = q
        BY <1>4, <3>2 DEF IInv, Listed
      <4>2. q # NULL
        BY <1>4, <4>1, RunnerAssumption DEF RunnerAssumption
      <4> QED BY <1>1, <1>2, <1>3, <4>1, <4>2
    <3> QED BY <3>1, <3>2
  <2>3. ASSUME NEW k \in 1 .. Len(sRunnerList'), sRunnerList'[k] # NULL
        PROVE  sRunnerList'[k] \in live' /\ fToken'[sRunnerList'[k]] = k - 1
    <3>1. CASE k = slot
      BY <1>1, <1>2, <1>3, <1>4, <3>1
    <3>2. CASE k # slot
      <4>1. k \in 1 .. len /\ sRunnerList'[k] = sRunnerList[k] /\ sRunnerList[k] # NULL
        BY <1>1, <1>2, <1>3, <2>3, <3>2
      <4>2. sRunnerList[k] \in live /\ fToken[sRunnerList[k]] = k - 1
        BY <4>1 DEF IInv, Listed
      <4> QED BY <1>4, <4>1, <4>2
    <3> QED BY <3>1, <3>2
  <2> QED BY <1>3, <2>1, <2>2, <2>3 DEF Listed
<1>7. Shape'
  <2>1. aimed' \in [Runners -> BOOLEAN]
    BY DEF Create, IInv, Shape
  <2>2. /\ age' \in [Runners -> -1 .. Forever] /\ fInterval' \in [Runners -> Intervals]
        /\ fCount' \in [Runners -> Int] /\ live' \subseteq Runners
    BY ForeverIsLonger, RunnerAssumption DEF RunnerAssumption, Create, IInv, Shape
  <2>3. /\ sRunnerMinimumInterval' \in -1 .. Forever
        /\ posts' \in Nat /\ sem' \in Nat /\ posts' + sem' <= MaxPosts
        /\ be_app' \in BOOLEAN /\ unheard' \in BOOLEAN
    BY <1>5, AnnounceFacts DEF IInv
  <2>4. UNCHANGED loop
    BY DEF Create
  <2> QED BY <2>1, <2>2, <2>3, <2>4 DEF Shape, IInv, loop
<1>8. ScanCovers' /\ WakesInTime'
  <2>1. UNCHANGED <<loop, sem>>
    BY DEF Create
  <2>2. \A q \in Runners \ {r} :
          /\ (q \in live') = (q \in live)
          /\ fToken'[q] = fToken[q] /\ fInterval'[q] = fInterval[q]
          /\ fCount'[q] = fCount[q] /\ aimed'[q] = aimed[q] /\ age'[q] = age[q]
    BY <1>4 DEF Create, IInv, Shape
  <2>3. Active(r)' = Sends(c, n, a)
    BY <1>4 DEF Create, Active, Sends, IInv, Shape
  <2>4. \/ unheard' = TRUE
        \/ UNCHANGED <<sRunnerMinimumInterval, posts, unheard>> /\ ~Active(r)'
        \/ sRunnerMinimumInterval' = -1 /\ posts' = posts + 1
    BY <1>5, <2>3, AnnounceFacts DEF IInv
  <2> QED BY <2>1, <2>2, <2>4, ChangeFrame
<1> QED BY <1>6, <1>7, <1>8 DEF IInv

LEMMA DeleteStep ==
    ASSUME IInv, NEW r \in Runners, Delete(r)
    PROVE  IInv'
<1> DEFINE token == fToken[r]
           len == Len(sRunnerList)
<1>1. /\ len \in Nat
      /\ \A k \in 1 .. len : sRunnerList[k] \in Entries
      /\ sRunnerList \in Seq(Entries)
  BY ListFacts DEF IInv, Listed
<1>2. token \in 0 .. len - 1 /\ sRunnerList[token + 1] = r
  BY DEF Delete, IInv, Listed
<1>3. /\ sRunnerList' \in Seq(Entries)
      /\ Len(sRunnerList') = IF token = len - 1 THEN token ELSE len
      /\ \A k \in 1 .. Len(sRunnerList') :
           sRunnerList'[k] = IF k = token + 1 THEN NULL ELSE sRunnerList[k]
  <2>1. sRunnerList' = Removed(token)
    BY DEF Delete
  <2> QED BY <1>1, <1>2, <2>1, ListWithout
<1>4. /\ r \in live /\ live' = live \ {r}
      /\ fToken' = [fToken EXCEPT ![r] = -1]
      /\ fToken \in [Runners -> Int] /\ live \subseteq Runners
  BY DEF Delete, IInv, Shape, Listed
<1>5. Listed'
  <2>1. fToken' \in [Runners -> Int]
    BY <1>4
  <2>2. ASSUME NEW q \in live'
        PROVE  fToken'[q] \in 0 .. Len(sRunnerList') - 1 /\ sRunnerList'[fToken'[q] + 1] = q
    <3>1. /\ q \in live /\ q # r /\ fToken'[q] = fToken[q]
          /\ fToken[q] \in 0 .. len - 1 /\ sRunnerList[fToken[q] + 1] = q
      BY <1>4 DEF IInv, Listed
    <3>2. fToken[q] # token
      BY <1>2, <3>1
    <3>3. fToken[q] + 1 \in 1 .. Len(sRunnerList') /\ fToken[q] + 1 # token + 1
      BY <1>1, <1>2, <1>3, <3>1, <3>2
    <3>4. sRunnerList'[fToken[q] + 1] = q
      BY <1>3, <3>1, <3>3
    <3> QED BY <1>1, <1>2, <1>3, <3>1, <3>2, <3>4
  <2>3. ASSUME NEW k \in 1 .. Len(sRunnerList'), sRunnerList'[k] # NULL
        PROVE  sRunnerList'[k] \in live' /\ fToken'[sRunnerList'[k]] = k - 1
    <3>1. k \in 1 .. len /\ k # token + 1 /\ sRunnerList'[k] = sRunnerList[k] /\ sRunnerList[k] # NULL
      BY <1>1, <1>2, <1>3, <2>3
    <3>2. sRunnerList[k] \in live /\ fToken[sRunnerList[k]] = k - 1
      BY <3>1 DEF IInv, Listed
    <3>3. sRunnerList[k] # r
      BY <1>2, <3>1, <3>2
    <3> QED BY <1>4, <3>1, <3>2, <3>3
  <2> QED BY <1>3, <2>1, <2>2, <2>3 DEF Listed
<1>6. Shape'
  <2>1. aimed' \in [Runners -> BOOLEAN]
    BY DEF Delete, IInv, Shape
  <2>2. /\ age' \in [Runners -> -1 .. Forever] /\ fInterval' \in [Runners -> Intervals]
        /\ fCount' \in [Runners -> Int] /\ live' \subseteq Runners
    BY ForeverIsLonger, RunnerAssumption DEF RunnerAssumption, Delete, IInv, Shape
  <2>3. UNCHANGED <<sRunnerMinimumInterval, posts, sem, loop, app>>
    BY DEF Delete
  <2> QED BY <2>1, <2>2, <2>3 DEF Shape, IInv, loop, app
<1>7. ScanCovers' /\ WakesInTime'
  <2>1. UNCHANGED <<loop, sem>> /\ UNCHANGED <<sRunnerMinimumInterval, posts, unheard>>
    BY DEF Delete, app
  <2>2. \A q \in Runners \ {r} :
          /\ (q \in live') = (q \in live)
          /\ fToken'[q] = fToken[q] /\ fInterval'[q] = fInterval[q]
          /\ fCount'[q] = fCount[q] /\ aimed'[q] = aimed[q] /\ age'[q] = age[q]
    BY <1>4 DEF Delete, IInv, Shape
  <2>3. ~Active(r)'
    BY <1>4 DEF Active
  <2> QED BY <2>1, <2>2, <2>3, ChangeFrame
<1> QED BY <1>5, <1>6, <1>7 DEF IInv

\* A setter leaves the list alone.
LEMMA SetterFrame ==
    ASSUME IInv, NEW r \in Runners, Restart(r),
           fInterval' \in [Runners -> Intervals], fCount' \in [Runners -> Int],
           aimed' \in [Runners -> BOOLEAN],
           \A q \in Runners \ {r} :
             fInterval'[q] = fInterval[q] /\ fCount'[q] = fCount[q] /\ aimed'[q] = aimed[q],
           /\ sRunnerMinimumInterval' \in -1 .. Forever
           /\ posts' \in Nat /\ sem' \in Nat /\ posts' + sem' <= MaxPosts
           /\ be_app' \in BOOLEAN /\ unheard' \in BOOLEAN,
           \/ unheard' = TRUE
           \/ /\ UNCHANGED <<sRunnerMinimumInterval, posts, unheard>>
              /\ Active(r)' => Active(r) /\ fInterval'[r] = fInterval[r]
           \/ sRunnerMinimumInterval' = -1 /\ posts' = posts + 1
    PROVE  IInv'
<1>1. Listed'
  BY DEF Restart, IInv, Listed
<1>2. Shape'
  <2>1. age' \in [Runners -> -1 .. Forever] /\ live' \subseteq Runners
    BY ForeverIsLonger DEF Restart, IInv, Shape
  <2>2. UNCHANGED loop
    BY DEF Restart
  <2> QED BY <2>1, <2>2 DEF Shape, IInv, loop
<1>3. ScanCovers' /\ WakesInTime'
  <2>1. UNCHANGED <<loop, sem>>
    BY DEF Restart
  <2>2. \A q \in Runners \ {r} :
          /\ (q \in live') = (q \in live)
          /\ fToken'[q] = fToken[q] /\ fInterval'[q] = fInterval[q]
          /\ fCount'[q] = fCount[q] /\ aimed'[q] = aimed[q] /\ age'[q] = age[q]
    BY DEF Restart, IInv, Shape
  <2>3. fToken'[r] = fToken[r] /\ age'[r] = -1
    BY DEF Restart, IInv, Shape
  <2> QED BY <2>1, <2>2, <2>3, ChangeFrame
<1> QED BY <1>1, <1>2, <1>3 DEF IInv

LEMMA SetterStep ==
    ASSUME IInv, NEW r \in Runners,
           \/ \E a \in BOOLEAN : SetAim(r, a)
           \/ \E n \in Intervals : SetInterval(r, n)
           \/ \E c \in Counts : SetCount(r, c)
           \/ SetReplyTo(r)
    PROVE  IInv'
<1> USE DEF IInv, Shape
<1>1. ASSUME NEW a \in BOOLEAN, SetAim(r, a) PROVE IInv'
  <2>1. /\ Restart(r) /\ UNCHANGED <<fInterval, fCount>>
        /\ aimed' = [aimed EXCEPT ![r] = a] /\ live' = live
    BY <1>1 DEF SetAim, Restart
  <2>2. Active(r)' = Sends(fCount[r], fInterval[r], a)
    BY <2>1 DEF Active, Sends, Restart
  <2>3. /\ Announce(Sends(fCount[r], fInterval[r], a)) /\ posts + sem < MaxPosts /\ sem' = sem
        /\ Sends(fCount[r], fInterval[r], a) \in BOOLEAN
    BY <1>1 DEF SetAim, Restart, Sends
  <2>4. /\ sRunnerMinimumInterval' \in -1 .. Forever
        /\ posts' \in Nat /\ sem' \in Nat /\ posts' + sem' <= MaxPosts
        /\ be_app' \in BOOLEAN /\ unheard' \in BOOLEAN
    BY <2>3, AnnounceFacts
  <2>5. \/ unheard' = TRUE
        \/ UNCHANGED <<sRunnerMinimumInterval, posts, unheard>> /\ ~Active(r)'
        \/ sRunnerMinimumInterval' = -1 /\ posts' = posts + 1
    BY <2>2, <2>3, AnnounceFacts
  <2>6. aimed' \in [Runners -> BOOLEAN]
    BY <2>1
  <2>7. \A q \in Runners \ {r} :
          fInterval'[q] = fInterval[q] /\ fCount'[q] = fCount[q] /\ aimed'[q] = aimed[q]
    BY <2>1
  <2>8. fInterval' \in [Runners -> Intervals] /\ fCount' \in [Runners -> Int]
    BY <2>1
  <2> QED BY <2>1, <2>4, <2>5, <2>6, <2>7, <2>8, SetterFrame
<1>2. ASSUME NEW n \in Intervals, SetInterval(r, n) PROVE IInv'
  <2>1. /\ Restart(r) /\ UNCHANGED <<fCount, aimed>>
        /\ fInterval' = [fInterval EXCEPT ![r] = n] /\ live' = live
    BY <1>2 DEF SetInterval, Restart
  <2>2. Active(r)' = Sends(fCount[r], n, aimed[r])
    BY <2>1 DEF Active, Sends, Restart
  <2>3. /\ Announce(Sends(fCount[r], n, aimed[r])) /\ posts + sem < MaxPosts /\ sem' = sem
        /\ Sends(fCount[r], n, aimed[r]) \in BOOLEAN
    BY <1>2 DEF SetInterval, Restart, Sends
  <2>4. /\ sRunnerMinimumInterval' \in -1 .. Forever
        /\ posts' \in Nat /\ sem' \in Nat /\ posts' + sem' <= MaxPosts
        /\ be_app' \in BOOLEAN /\ unheard' \in BOOLEAN
    BY <2>3, AnnounceFacts
  <2>5. \/ unheard' = TRUE
        \/ UNCHANGED <<sRunnerMinimumInterval, posts, unheard>> /\ ~Active(r)'
        \/ sRunnerMinimumInterval' = -1 /\ posts' = posts + 1
    BY <2>2, <2>3, AnnounceFacts
  <2>6. fInterval' \in [Runners -> Intervals] /\ fCount' \in [Runners -> Int]
    BY <2>1
  <2>7. \A q \in Runners \ {r} :
          fInterval'[q] = fInterval[q] /\ fCount'[q] = fCount[q] /\ aimed'[q] = aimed[q]
    BY <2>1
  <2> QED BY <2>1, <2>4, <2>5, <2>6, <2>7, SetterFrame
<1>3. ASSUME NEW c \in Counts, SetCount(r, c) PROVE IInv'
  <2>1. /\ Restart(r) /\ UNCHANGED <<fInterval, aimed>>
        /\ fCount' = [fCount EXCEPT ![r] = c] /\ live' = live
    BY <1>3 DEF SetCount, Restart
  <2>2. Active(r)' = Sends(c, fInterval[r], aimed[r])
    BY <2>1 DEF Active, Sends, Restart
  <2>3. /\ Announce(Sends(c, fInterval[r], aimed[r])) /\ posts + sem < MaxPosts /\ sem' = sem
        /\ Sends(c, fInterval[r], aimed[r]) \in BOOLEAN
    BY <1>3 DEF SetCount, Restart, Sends
  <2>4. /\ sRunnerMinimumInterval' \in -1 .. Forever
        /\ posts' \in Nat /\ sem' \in Nat /\ posts' + sem' <= MaxPosts
        /\ be_app' \in BOOLEAN /\ unheard' \in BOOLEAN
    BY <2>3, AnnounceFacts
  <2>5. \/ unheard' = TRUE
        \/ UNCHANGED <<sRunnerMinimumInterval, posts, unheard>> /\ ~Active(r)'
        \/ sRunnerMinimumInterval' = -1 /\ posts' = posts + 1
    BY <2>2, <2>3, AnnounceFacts
  <2>6. fCount' \in [Runners -> Int] /\ fInterval' \in [Runners -> Intervals]
    BY <2>1, RunnerAssumption DEF RunnerAssumption
  <2>7. \A q \in Runners \ {r} :
          fInterval'[q] = fInterval[q] /\ fCount'[q] = fCount[q] /\ aimed'[q] = aimed[q]
    BY <2>1
  <2> QED BY <2>1, <2>4, <2>5, <2>6, <2>7, SetterFrame
<1>4. ASSUME SetReplyTo(r) PROVE IInv'
  <2>1. /\ Restart(r)
        /\ UNCHANGED <<live, fInterval, fCount, aimed, sRunnerMinimumInterval, posts>>
        /\ UNCHANGED <<be_app, unheard, sem>>
    BY <1>4 DEF SetReplyTo, Restart, app
  <2>2. Active(r)' = Active(r)
    BY <2>1 DEF Active, Sends
  <2> QED BY <2>1, <2>2, SetterFrame
<1> QED BY <1>1, <1>2, <1>3, <1>4

-----------------------------------------------------------------------------
(* The application's loop *)

\* What the loop's own steps leave alone, as far as they do.
LEMMA SetupFrame ==
    ASSUME UNCHANGED setup
    PROVE  /\ Listed => Listed'
           /\ \A r \in Runners : Active(r)' = Active(r)
BY DEF setup, Listed, Active, Sends

\* What the arithmetic of the loop's steps needs.
LEMMA Numbers ==
    ASSUME Shape
    PROVE  /\ \A r \in Runners : /\ age[r] \in -1 .. Forever
                                 /\ fInterval[r] \in Nat /\ fInterval[r] < Forever
           /\ sRunnerMinimumInterval \in -1 .. Forever
           /\ posts \in Nat /\ sem \in Nat /\ i \in Nat
           /\ left \in 0 .. Forever /\ late \in 0 .. MaxLate /\ MaxLate \in Nat
           /\ Forever \in Nat \ {0}
BY ForeverIsLonger, RunnerAssumption DEF RunnerAssumption, Shape

\* How old the runners are after a time t.
LEMMA OlderFacts ==
    ASSUME Shape, NEW t \in Nat
    PROVE  /\ Older(t) \in [Runners -> -1 .. Forever]
           /\ \A r \in Runners :
                (IF Older(t)[r] < 0 THEN 0 ELSE Older(t)[r]) <= Gone(r) + t
BY Numbers DEF Older, Capped, Gone

LEMMA PostStep ==
    ASSUME IInv, Post
    PROVE  IInv'
<1>1. Listed' /\ \A r \in Runners : Active(r)' = Active(r)
  BY SetupFrame DEF Post, IInv
<1>2. Shape'
  BY RunnerAssumption DEF RunnerAssumption, Post, IInv, Shape, setup, loop, app
<1>3. ScanCovers'
  BY <1>1 DEF Post, IInv, ScanCovers, Covered, Gone, setup, loop, app
<1>4. WakesInTime'
  BY Numbers DEF Post, IInv, WakesInTime
<1> QED BY <1>1, <1>2, <1>3, <1>4 DEF IInv

LEMMA InitAppStep ==
    ASSUME IInv, InitApp
    PROVE  IInv'
<1>1. Listed' /\ \A r \in Runners : Active(r)' = Active(r)
  BY SetupFrame DEF InitApp, IInv
<1>2. /\ UNCHANGED <<setup, age, sRunnerMinimumInterval, posts, sem, loop, unheard>>
      /\ be_app' \in BOOLEAN
  BY DEF InitApp
<1>3. Shape'
  BY <1>2 DEF IInv, Shape, setup, loop
<1>4. ScanCovers' /\ WakesInTime'
  BY <1>1, <1>2 DEF IInv, ScanCovers, Covered, Gone, WakesInTime, setup, loop
<1> QED BY <1>1, <1>3, <1>4 DEF IInv

\* The steps that only move the application's thread.
LEMMA LoopStep ==
    ASSUME IInv,
           BeginScan \/ EndScan \/ Dispatch \/ BeginWait \/ Woken \/ TimedOut
    PROVE  IInv'
<1>1. /\ UNCHANGED setup /\ UNCHANGED <<posts, runner, be_app, unheard>>
      /\ age' = age \/ age' = Older(late)
      /\ late' = late \/ late' = 0
  BY DEF BeginScan, EndScan, Dispatch, BeginWait, Woken, TimedOut, app
<1>2. /\ age' \in [Runners -> -1 .. Forever] /\ late' \in 0 .. MaxLate /\ late \in Nat
      /\ NULL \in Entries
  BY <1>1, OlderFacts, Numbers DEF IInv, Shape, Entries
<1>3. Listed' /\ \A r \in Runners : Active(r)' = Active(r)
  BY <1>1, SetupFrame DEF IInv
<1>4. /\ fInterval' = fInterval /\ fToken' = fToken
      /\ live' = live /\ fCount' = fCount /\ aimed' = aimed
  BY <1>1 DEF setup
<1>5. \A r \in Runners : Active(r) => fToken[r] < Len(sRunnerList) /\ fToken[r] \in Nat
  BY ListFacts DEF Active, IInv, Listed
<1>6. CASE BeginScan
  <2>1. Shape'
    BY <1>1, <1>2, <1>4, <1>6, Numbers DEF BeginScan, IInv, Shape
  <2>2. ScanCovers'
    <3>1. CASE sRunnerMinimumInterval = 0
      <4>1. unheard' \/ \A r \in Runners : ~Active(r)'
        BY <1>1, <1>3, <1>6, <3>1 DEF BeginScan, IInv, ScanCovers
      <4> QED BY <4>1 DEF ScanCovers
    <3>2. CASE sRunnerMinimumInterval # 0
      <4>1. at' = "scan" /\ i' = 0
        BY <1>6, <3>2 DEF BeginScan, IInv, Shape
      <4>2. \A r \in Runners : Active(r)' => ~(fToken'[r] < i')
        BY <1>3, <1>4, <1>5, <4>1
      <4> QED BY <4>1, <4>2 DEF ScanCovers
    <3> QED BY <3>1, <3>2
  <2>3. WakesInTime'
    BY <1>6 DEF BeginScan, WakesInTime
  <2> QED BY <1>3, <2>1, <2>2, <2>3 DEF IInv
<1>7. CASE EndScan
  <2>1. Shape'
    BY <1>1, <1>2, <1>4, <1>7 DEF EndScan, IInv, Shape
  <2>2. \A r \in Runners : Active(r) => fToken[r] < i
    BY <1>5, <1>7, ListFacts, Numbers DEF EndScan, IInv
  <2>3. ScanCovers'
    BY <1>1, <1>3, <1>4, <1>7, <2>2 DEF EndScan, IInv, ScanCovers, Covered, Gone
  <2>4. WakesInTime'
    BY <1>7 DEF EndScan, WakesInTime
  <2> QED BY <1>3, <2>1, <2>3, <2>4 DEF IInv
<1>8. CASE Dispatch
  <2>1. Shape'
    BY <1>1, <1>2, <1>4, <1>8 DEF Dispatch, IInv, Shape
  <2>2. ScanCovers'
    BY <1>1, <1>3, <1>4, <1>8 DEF Dispatch, IInv, ScanCovers, Covered
  <2>3. WakesInTime'
    BY <1>8 DEF Dispatch, WakesInTime
  <2> QED BY <1>3, <2>1, <2>2, <2>3 DEF IInv
<1>9. CASE BeginWait
  <2>1. Shape'
    BY <1>1, <1>2, <1>4, <1>9, Numbers DEF BeginWait, IInv, Shape
  <2>2. ScanCovers'
    BY <1>1, <1>3, <1>4, <1>9 DEF BeginWait, IInv, ScanCovers, Covered
  <2>3. WakesInTime'
    <3>1. ASSUME NEW r \in Runners, Active(r)', ~unheard'
          PROVE  /\ left' < Forever
                 /\ \/ left' <= 1
                    \/ left' <= fInterval'[r] - (IF age'[r] < 0 THEN 0 ELSE age'[r]) + late'
      <4>1. Active(r) /\ fInterval[r] > 0
        BY <1>3, <3>1 DEF Active, Sends
      <4>2. sRunnerMinimumInterval >= 0 => Covered(r)
        BY <1>1, <1>9, <3>1, <4>1 DEF BeginWait, IInv, ScanCovers
      <4>3. late' = late /\ (IF age'[r] < 0 THEN 0 ELSE age'[r]) <= Gone(r) + late
        BY <1>2, <1>9, OlderFacts DEF BeginWait, IInv
      <4>4. Gone(r) \in Nat /\ (IF age'[r] < 0 THEN 0 ELSE age'[r]) \in Nat
        BY <1>2, Numbers DEF Gone, IInv
      <4> QED BY <1>2, <1>4, <1>9, <4>1, <4>2, <4>3, <4>4, Numbers DEF BeginWait, IInv, Covered
    <3> QED BY <3>1 DEF WakesInTime
  <2> QED BY <1>3, <2>1, <2>2, <2>3 DEF IInv
<1>10. CASE Woken
  <2>1. Shape'
    BY <1>1, <1>2, <1>4, <1>10, Numbers, RunnerAssumption DEF RunnerAssumption, Woken, IInv, Shape
  <2>2. ScanCovers'
    BY <1>1, <1>3, <1>4, <1>10 DEF Woken, IInv, ScanCovers
  <2>3. WakesInTime'
    BY <1>10 DEF Woken, WakesInTime
  <2> QED BY <1>3, <2>1, <2>2, <2>3 DEF IInv
<1>11. CASE TimedOut
  <2>1. Shape'
    BY <1>1, <1>2, <1>4, <1>11 DEF TimedOut, IInv, Shape
  <2>2. ScanCovers'
    BY <1>1, <1>3, <1>4, <1>11 DEF TimedOut, IInv, ScanCovers
  <2>3. WakesInTime'
    BY <1>11 DEF TimedOut, WakesInTime
  <2> QED BY <1>3, <2>1, <2>2, <2>3 DEF IInv
<1> QED BY <1>6, <1>7, <1>8, <1>9, <1>10, <1>11

\* One entry of the scan.
LEMMA ScanStep ==
    ASSUME IInv, Scan
    PROVE  IInv'
<1> DEFINE e == sRunnerList[i + 1]
<1>1. Listed' /\ \A r \in Runners : Active(r)' = Active(r)
  BY SetupFrame DEF Scan, IInv
<1>2. /\ fInterval' = fInterval /\ fToken' = fToken
      /\ live' = live /\ fCount' = fCount /\ aimed' = aimed
      /\ posts' = posts /\ sem' = sem /\ left' = left /\ late' = late
      /\ be_app' = be_app /\ unheard' = unheard
      /\ at = "scan" /\ i \in Nat
  BY DEF Scan, setup, app, IInv, Shape
<1>3. i + 1 \in 1 .. Len(sRunnerList) /\ e \in Entries
  BY ListFacts DEF Scan, IInv, Shape
<1>4. \A r \in Runners : Active(r) =>
        /\ fToken[r] \in Nat
        /\ fToken[r] = i => e = r
  BY DEF Active, IInv, Listed
<1>5. e # NULL => e \in Runners
  BY <1>3 DEF Entries
<1>6. CASE PassOver(e)
  <2>1. Shape'
    BY <1>2, <1>6 DEF PassOver, IInv, Shape
  <2>2. ASSUME NEW r \in Runners, Active(r), fToken[r] < i + 1
        PROVE  fToken[r] < i
    <3>1. fToken[r] # i
      BY <1>4, <1>6, <2>2, RunnerAssumption DEF RunnerAssumption, PassOver
    <3> QED BY <1>2, <1>4, <2>2, <3>1
  <2>3. ScanCovers'
    BY <1>1, <1>2, <1>6, <2>2 DEF PassOver, IInv, ScanCovers, Covered, Gone
  <2>4. WakesInTime'
    BY <1>2, <1>6 DEF PassOver, WakesInTime
  <2> QED BY <1>1, <2>1, <2>3, <2>4 DEF IInv
<1>7. CASE NotYet(e)
  <2>1. e \in Runners /\ Active(e) /\ age[e] >= 0 /\ age[e] < fInterval[e]
    BY <1>5, <1>7, Numbers DEF NotYet, Due, IInv
  <2>2. /\ sRunnerMinimumInterval' = Lowered(fInterval[e] - age[e])
        /\ age' = age /\ at' = at /\ i' = i + 1 /\ runner' = runner
    BY <1>7 DEF NotYet
  <2>3. sRunnerMinimumInterval' \in -1 .. Forever
    BY <2>1, <2>2, Numbers DEF Lowered, IInv
  <2>4. Shape'
    BY <1>2, <2>2, <2>3 DEF IInv, Shape
  <2>5. ASSUME sRunnerMinimumInterval' >= 0, ~unheard, NEW r \in Runners, Active(r), fToken[r] < i + 1
        PROVE  Covered(r)'
    <3>1. CASE r = e
      BY <1>2, <2>1, <2>2, <2>5, <3>1, Numbers DEF Lowered, Covered, Gone, IInv
    <3>2. CASE r # e
      <4>1. fToken[r] < i
        BY <1>2, <1>4, <2>5, <3>2
      <4>2. sRunnerMinimumInterval >= 0
        BY <2>1, <2>2, <2>5, Numbers DEF Lowered, IInv
      <4>3. Covered(r)
        BY <1>2, <2>5, <4>1, <4>2 DEF IInv, ScanCovers
      <4> QED BY <1>2, <2>1, <2>2, <4>3, Numbers DEF Lowered, Covered, Gone, IInv
    <3> QED BY <3>1, <3>2
  <2>6. ScanCovers'
    BY <1>1, <1>2, <2>2, <2>5 DEF ScanCovers
  <2>7. WakesInTime'
    BY <1>2, <2>2 DEF WakesInTime
  <2> QED BY <1>1, <2>4, <2>6, <2>7 DEF IInv
<1>8. CASE Send(e)
  <2>1. /\ e \in Runners /\ e # NULL
        /\ age' = [age EXCEPT ![e] = 0] /\ runner' = e /\ at' = "sending"
        /\ i' = i /\ sRunnerMinimumInterval' = sRunnerMinimumInterval
    BY <1>5, <1>8 DEF Send
  <2>2. age' \in [Runners -> -1 .. Forever] /\ age'[e] = 0
    BY <2>1, ForeverIsLonger DEF IInv, Shape
  <2>3. Shape'
    BY <1>2, <1>3, <2>1, <2>2 DEF IInv, Shape
  <2>4. ASSUME sRunnerMinimumInterval >= 0, ~unheard, NEW r \in Runners, Active(r), fToken[r] < i
        PROVE  Covered(r)'
    <3>1. Covered(r)
      BY <1>2, <2>4 DEF IInv, ScanCovers
    <3>2. age'[r] = age[r] \/ age'[r] = 0
      BY <2>1 DEF IInv, Shape
    <3> QED BY <1>2, <2>1, <3>1, <3>2, Numbers DEF Covered, Gone, IInv
  <2>5. \A r \in Runners : Active(r) /\ fToken[r] = i => r = e /\ age'[r] <= 0
    BY <1>4, <2>2
  <2>6. ScanCovers'
    BY <1>1, <1>2, <2>1, <2>4, <2>5 DEF ScanCovers
  <2>7. WakesInTime'
    BY <2>1 DEF WakesInTime
  <2> QED BY <1>1, <2>3, <2>6, <2>7 DEF IInv
<1> QED BY <1>6, <1>7, <1>8 DEF Scan

\* The lock is taken back after a send.
LEMMA SendReturnsStep ==
    ASSUME IInv, NEW sent \in BOOLEAN, SendReturns(sent)
    PROVE  IInv'
<1>1. /\ fInterval' = fInterval /\ fToken' = fToken /\ live' = live /\ aimed' = aimed
      /\ sRunnerList' = sRunnerList /\ age' = age
      /\ posts' = posts /\ sem' = sem /\ left' = left /\ late' = late
      /\ be_app' = be_app /\ unheard' = unheard
      /\ at = "sending" /\ at' = "scan" /\ runner' = NULL
      /\ runner \in Runners /\ i \in Nat
  BY DEF SendReturns, app, IInv, Shape, Entries
<1>2. Listed'
  BY <1>1 DEF IInv, Listed
<1>3. \A r \in Runners : Active(r) =>
        /\ fToken[r] \in Nat /\ i \in Nat
        /\ fToken[r] < Len(sRunnerList) /\ sRunnerList[fToken[r] + 1] = r
  BY ListFacts DEF Active, IInv, Listed, Shape
<1>4. NULL \in Entries
  BY DEF Entries
<1>5. WakesInTime'
  BY <1>1 DEF WakesInTime
<1>6. CASE Changed
  <2>1. i' = 1 /\ fCount' = fCount /\ sRunnerMinimumInterval' = sRunnerMinimumInterval
    BY <1>6 DEF SendReturns
  <2>2. Shape'
    BY <1>1, <1>4, <2>1 DEF IInv, Shape
  <2>3. \A r \in Runners : Active(r)' = Active(r)
    BY <1>1, <2>1 DEF Active, Sends
  <2>4. ASSUME sRunnerMinimumInterval >= 0, ~unheard, NEW r \in Runners, Active(r), fToken[r] < 1
        PROVE  Covered(r)
    <3>1. fToken[r] = 0
      BY <1>3, <2>4
    <3>2. i # 0
      <4>1. ASSUME i = 0 PROVE FALSE
        <5>1. r = runner
          BY <1>1, <2>4, <3>1, <4>1 DEF IInv, ScanCovers
        <5>2. i < Len(sRunnerList) /\ sRunnerList[i + 1] = runner
          BY <1>3, <2>4, <3>1, <4>1, <5>1
        <5>3. Len(sRunnerList) \in Nat
          BY ListFacts DEF IInv
        <5> QED BY <1>1, <1>6, <2>4, <5>2, <5>3, Numbers DEF Changed, IInv
      <4> QED BY <4>1
    <3>3. fToken[r] < i
      BY <1>1, <3>1, <3>2
    <3> QED BY <1>1, <2>4, <3>3 DEF IInv, ScanCovers
  <2>5. ScanCovers'
    BY <1>1, <2>1, <2>3, <2>4 DEF ScanCovers, Covered, Gone
  <2> QED BY <1>2, <1>5, <2>2, <2>5 DEF IInv
<1>7. CASE ~Changed
  <2>1. /\ i' = i + 1 /\ fCount' = [fCount EXCEPT ![runner] = CountAfter(sent)]
        /\ sRunnerMinimumInterval' = NextOf(sent)
    BY <1>7 DEF SendReturns
  <2>2. /\ CountAfter(sent) \in Int /\ fCount[runner] \in Int
        /\ CountAfter(sent) # 0 => fCount[runner] # 0
    BY <1>1 DEF CountAfter, IInv, Shape
  <2>3. fCount' \in [Runners -> Int]
    BY <1>1, <2>1, <2>2 DEF IInv, Shape
  <2>4. sRunnerMinimumInterval >= 0 /\ sRunnerMinimumInterval' \in 0 .. Forever
    BY <1>1, <1>7, <2>1, Numbers DEF Changed, NextOf, Lowered, IInv
  <2>5. Shape'
    BY <1>1, <1>4, <2>1, <2>3, <2>4 DEF IInv, Shape
  <2>6. \A r \in Runners : Active(r)' => Active(r)
    BY <1>1, <2>1, <2>2 DEF Active, Sends, IInv, Shape
  <2>7. ASSUME ~unheard, NEW r \in Runners, Active(r)', fToken[r] < i + 1
        PROVE  Covered(r)'
    <3>1. Active(r)
      BY <2>6, <2>7
    <3>2. CASE r = runner
      <4>1. Sends(CountAfter(sent), fInterval[runner], aimed[runner])
        BY <1>1, <2>1, <2>7, <3>2 DEF Active, IInv, Shape
      <4>2. sRunnerMinimumInterval' = Lowered(fInterval[runner]) /\ fInterval[runner] > 0
        BY <2>1, <4>1 DEF NextOf, Sends
      <4>3. sRunnerMinimumInterval' > 0 /\ sRunnerMinimumInterval' <= fInterval[runner]
        BY <1>1, <2>4, <4>2, Numbers DEF Lowered, IInv
      <4>4. CASE fToken[r] = i
        <5>1. age[r] <= 0
          BY <1>1, <2>4, <2>7, <3>1, <4>4 DEF IInv, ScanCovers
        <5> QED BY <1>1, <3>2, <4>3, <5>1, Numbers DEF Covered, Gone, IInv
      <4>5. CASE fToken[r] < i
        <5>1. Covered(r)
          BY <1>1, <2>4, <2>7, <3>1, <4>5 DEF IInv, ScanCovers
        <5> QED BY <1>1, <2>4, <3>2, <4>2, <4>3, <5>1, Numbers DEF Lowered, Covered, Gone, IInv
      <4> QED BY <1>3, <2>7, <3>1, <4>4, <4>5
    <3>3. CASE r # runner
      <4>1. fToken[r] < i
        <5>1. fToken[r] # i
          BY <1>1, <2>4, <2>7, <3>1, <3>3 DEF IInv, ScanCovers
        <5> QED BY <1>3, <2>7, <3>1, <5>1
      <4>2. Covered(r)
        BY <1>1, <2>4, <2>7, <3>1, <4>1 DEF IInv, ScanCovers
      <4>3. sRunnerMinimumInterval' > 0 /\ sRunnerMinimumInterval' <= sRunnerMinimumInterval
        BY <1>1, <2>1, <2>4, <4>2, Numbers DEF NextOf, Sends, Lowered, Covered, IInv
      <4> QED BY <1>1, <2>4, <4>2, <4>3, Numbers DEF Covered, Gone, IInv
    <3> QED BY <3>2, <3>3
  <2>8. ScanCovers'
    BY <1>1, <2>1, <2>7 DEF ScanCovers
  <2> QED BY <1>2, <1>5, <2>5, <2>8 DEF IInv
<1> QED BY <1>6, <1>7

\* Time passes.
LEMMA TickStep ==
    ASSUME IInv, Tick
    PROVE  IInv'
<1>1. Listed' /\ \A r \in Runners : Active(r)' = Active(r)
  BY SetupFrame DEF Tick, IInv
<1>2. /\ fInterval' = fInterval /\ fToken' = fToken
      /\ live' = live /\ fCount' = fCount /\ aimed' = aimed
      /\ sRunnerMinimumInterval' = sRunnerMinimumInterval
      /\ posts' = posts /\ sem' = sem /\ at' = at /\ i' = i /\ runner' = runner
      /\ late' = late /\ be_app' = be_app /\ unheard' = unheard
      /\ at = "loop" \/ (at = "waiting" /\ left > 0)
  BY DEF Tick, setup, app
<1>3. /\ age' \in [Runners -> -1 .. Forever]
      /\ \A r \in Runners : (IF age'[r] < 0 THEN 0 ELSE age'[r]) <= Gone(r) + 1
  BY OlderFacts DEF Tick, IInv
<1>4. left' \in 0 .. Forever
  BY <1>2, Numbers DEF Tick, IInv
<1>5. Shape'
  BY <1>2, <1>3, <1>4 DEF IInv, Shape
<1>6. ScanCovers'
  BY <1>1, <1>2 DEF IInv, ScanCovers
<1>7. WakesInTime'
  <2>1. ASSUME at = "waiting", posts = 0, sem = 0, ~unheard, NEW r \in Runners, Active(r)
        PROVE  /\ left' < Forever
               /\ \/ left' <= 1
                  \/ left' <= fInterval[r] - (IF age'[r] < 0 THEN 0 ELSE age'[r]) + late
    <3>1. left < Forever /\ (left <= 1 \/ left <= fInterval[r] - Gone(r) + late)
      BY <2>1 DEF IInv, WakesInTime, Gone
    <3>2. left' = left - 1
      BY <2>1, <3>1 DEF Tick
    <3>3. Gone(r) \in Nat /\ (IF age'[r] < 0 THEN 0 ELSE age'[r]) \in Nat
      BY <1>3, Numbers DEF Gone, IInv
    <3> QED BY <1>3, <3>1, <3>2, <3>3, Numbers DEF IInv
  <2> QED BY <1>1, <1>2, <2>1 DEF WakesInTime
<1> QED BY <1>1, <1>5, <1>6, <1>7 DEF IInv

LEMMA TickLateStep ==
    ASSUME IInv, TickLate
    PROVE  IInv'
<1>1. Listed' /\ \A r \in Runners : Active(r)' = Active(r)
  BY SetupFrame DEF TickLate, IInv
<1>2. /\ UNCHANGED <<setup, age, sRunnerMinimumInterval, posts, sem, at, i, runner, left, app>>
      /\ late' \in 0 .. MaxLate /\ at # "waiting"
  BY Numbers DEF TickLate, IInv
<1>3. Shape'
  BY <1>2 DEF IInv, Shape, setup, app
<1>4. ScanCovers' /\ WakesInTime'
  BY <1>1, <1>2 DEF IInv, ScanCovers, Covered, Gone, WakesInTime, setup, app
<1> QED BY <1>1, <1>3, <1>4 DEF IInv


-----------------------------------------------------------------------------
(* The theorems *)

LEMMA InitInv ==
    ASSUME Init
    PROVE  IInv
<1>1. Listed
  BY EmptySeq DEF Init, Listed
<1>2. Shape
  <2>1. be_app \in BOOLEAN /\ unheard \in BOOLEAN /\ aimed \in [Runners -> BOOLEAN]
    BY Zenon DEF Init
  <2> QED BY <2>1, ForeverIsLonger, RunnerAssumption DEF RunnerAssumption, Init, Shape, Entries
<1>3. ScanCovers
  BY DEF Init, ScanCovers, Active
<1>4. WakesInTime
  BY DEF Init, WakesInTime
<1> QED BY <1>1, <1>2, <1>3, <1>4 DEF IInv

LEMMA NextInv ==
    ASSUME IInv, [Next]_vars
    PROVE  IInv'
<1>1. CASE Change
  BY <1>1, CreateStep, DeleteStep, SetterStep DEF Change
<1>2. CASE Post
  BY <1>2, PostStep
<1>3. CASE Serve
  BY <1>3, LoopStep, ScanStep, SendReturnsStep DEF Serve
<1>4. CASE Tick
  BY <1>4, TickStep
<1>5. CASE InitApp
  BY <1>5, InitAppStep
<1>6. CASE TickLate
  BY <1>6, TickLateStep
<1>7. CASE UNCHANGED vars
  <2>1. Listed' /\ \A r \in Runners : Active(r)' = Active(r)
    BY <1>7, SetupFrame DEF vars, IInv
  <2>2. Shape' /\ ScanCovers' /\ WakesInTime'
    BY <1>7, <2>1 DEF vars, setup, loop, app, IInv, Shape, ScanCovers, Covered, Gone, WakesInTime
  <2> QED BY <2>1, <2>2 DEF IInv
<1> QED BY <1>1, <1>2, <1>3, <1>4, <1>5, <1>6, <1>7 DEF Next

\* The inductive invariant holds, for any runners, intervals, counts and bounds.
THEOREM RunnerInvariant == Spec => []IInv
BY InitInv, NextInv, PTL DEF Spec

\* A runner that was deleted while dispatch_message_runners sent for it is not
\* touched when the send comes back, even if its address or its slot is in use
\* again; and every runner lies at its token, so that the destructor finds it.
THEOREM DeletedRunnerIsLeftAlone == Spec => []DeletedIsLeftAlone
<1>1. IInv => DeletedIsLeftAlone
  BY InvImplies
<1> QED BY <1>1, RunnerInvariant, PTL

\* The application never sleeps past the time of an active runner, without a
\* wakeup on its way, by more than what its last scan took, whatever other threads
\* do to the runners in the middle of it; only runners made active before there was
\* an application can be slept past, until a later change marks the minimum.
THEOREM RunnersAreServedInTime == Spec => []WakesInTime
<1>1. IInv => WakesInTime
  BY InvImplies
<1> QED BY <1>1, RunnerInvariant, PTL
====
