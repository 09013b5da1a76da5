--------------------------- MODULE ForwardFeedProofs ---------------------------
(***************************************************************************)
(* Safety of ForwardFeed for every market, calendar, set of candidates and *)
(* budget: what the heartbeats say is backed by the store, nothing older   *)
(* than a freeze is stored, and the charges stay under the ceiling.        *)
(***************************************************************************)
EXTENDS ForwardFeed, FiniteSetTheorems, WellFoundedInduction, TLAPS

-----------------------------------------------------------------------------
(* Least and greatest of a finite set.  Of the sets of what lies below an  *)
(* element one is contained in no other: that element is the least.        *)

\* What is contained in an interval of integers is finite.
LEMMA BoundedFinite ==
  ASSUME NEW a \in Int, NEW b \in Int, NEW S \in SUBSET (a .. b)
  PROVE  IsFiniteSet(S)
<1>1. IsFiniteSet(a .. b)
  BY FS_Interval
<1> DEFINE I == a .. b
<1> HIDE DEF I
<1>2. IsFiniteSet(I) /\ S \in SUBSET I
  BY <1>1 DEF I
<1> QED BY <1>2, FS_Subset

\* A finite set of integers has a least element, and Min is it.
LEMMA FiniteMin ==
  ASSUME NEW S, IsFiniteSet(S), S \subseteq Int, S # {}
  PROVE  Min(S) \in S /\ \A y \in S : Min(S) <= y
<1> DEFINE Below(x) == {y \in S : y < x}
           Family == {Below(x) : x \in S}
<1>0. FiniteSubsetsOf(S) = SUBSET S
  BY FS_FiniteSubsetsOfFinite
<1>1. Family \subseteq SUBSET S /\ Family # {}
  OBVIOUS
<1>2. IsWellFoundedOn(StrictSubsetOrdering(S), SUBSET S)
  BY <1>0, FS_StrictSubsetOrderingWellFounded
<1> HIDE DEF Family
<1>3. PICK D \in Family : \A E \in Family : ~(<<E, D>> \in StrictSubsetOrdering(S))
  BY <1>1, <1>2, WFMin
<1>4. PICK x \in S : D = Below(x)
  BY DEF Family
<1>5. ASSUME NEW z \in S, z < x PROVE FALSE
  <2>1. Below(z) \in Family /\ Below(z) \in SUBSET S /\ Below(x) \in SUBSET S
    BY DEF Family
  <2>2. Below(z) \subseteq Below(x) /\ Below(z) # Below(x)
    <3>1. z \in Below(x) /\ ~(z \in Below(z))
      BY <1>5
    <3>2. \A y \in S : y < z => y < x
      BY <1>5
    <3> QED BY <3>1, <3>2
  <2>3. <<Below(z), D>> \in StrictSubsetOrdering(S)
    BY <1>4, <2>1, <2>2 DEF StrictSubsetOrdering
  <2> QED BY <1>3, <2>1, <2>3
<1>6. \A y \in S : x <= y
  BY <1>5
<1> QED BY <1>6 DEF Min

\* And a greatest, which is Max.
LEMMA FiniteMax ==
  ASSUME NEW S, IsFiniteSet(S), S \subseteq Int, S # {}
  PROVE  Max(S) \in S /\ \A y \in S : y <= Max(S)
<1> DEFINE T == {y \in Int : -y \in S}
           f == [x \in S |-> -x]
<1>1. f \in Surjection(S, T)
  BY DEF Surjection
<1>2. T \subseteq Int /\ T # {}
  <2>1. PICK x \in S : x \in Int
    OBVIOUS
  <2>2. -x \in T
    BY <2>1
  <2> QED BY <2>2
<1> HIDE DEF f, T
<1>7. IsFiniteSet(T)
  BY <1>1, FS_Surjection
<1> USE DEF T
<1>3. Min(T) \in T /\ \A y \in T : Min(T) <= y
  BY <1>2, <1>7, FiniteMin
<1>4. PICK x \in S : x = -Min(T) /\ Min(T) \in Int
  BY <1>3
<1>5. \A y \in S : y <= x
  BY <1>3, <1>4
<1>6. \E w \in S : \A y \in S : w >= y
  BY <1>5
<1> QED BY <1>6 DEF Max

\* The next bar to be appended is one that was selected, and the least of its
\* root.
LEMMA NextBarIsNext ==
  ASSUME traded \in Markets, Selected # {}
  PROVE  /\ NextBar \in Selected
         /\ \A d \in Selected : NextBar[1] = d[1] => NextBar[2] <= d[2]
<1>1. Selected \subseteq Roots \X Minutes
  BY FeedAssumption DEF Selected, Offered, Minutes
<1>2. IsFiniteSet(Minutes) /\ Minutes \subseteq Int
  BY FeedAssumption, FS_Interval DEF Minutes
<1> DEFINE Rs == {r \in Roots : \E d \in Selected : d[1] = r}
<1>3. IsFiniteSet(Rs) /\ Rs \subseteq Int /\ Rs # {}
  BY <1>1, FeedAssumption, FS_Subset
<1>4. PICK r \in Rs : \A q \in Rs : r <= q
  BY <1>3, FiniteMin
<1> DEFINE Ms == {m \in Minutes : <<r, m>> \in Selected}
<1>5. IsFiniteSet(Ms) /\ Ms \subseteq Int /\ Ms # {}
  <2>1. PICK d \in Selected : d[1] = r
    BY <1>4
  <2>2. d = <<r, d[2]>> /\ d[2] \in Minutes
    BY <1>1, <2>1
  <2>3. Ms # {}
    BY <2>1, <2>2
  <2> QED BY <1>2, <2>3, FS_Subset
<1>6. PICK m \in Ms : \A n \in Ms : m <= n
  BY <1>5, FiniteMin
<1> DEFINE Least(b) == \A d \in Selected : b[1] < d[1] \/ (b[1] = d[1] /\ b[2] <= d[2])
<1>7. <<r, m>> \in Selected
  BY <1>6
<1>8. Least(<<r, m>>)
  <2>1. ASSUME NEW d \in Selected PROVE r < d[1] \/ (r = d[1] /\ m <= d[2])
    <3>1. d[1] \in Rs /\ d = <<d[1], d[2]>> /\ d[2] \in Minutes
      BY <1>1, <2>1
    <3>2. r <= d[1] /\ r \in Int /\ d[1] \in Int
      BY <1>3, <1>4, <3>1
    <3>3. r = d[1] => d[2] \in Ms
      BY <2>1, <3>1
    <3> QED BY <1>6, <3>2, <3>3
  <2> QED BY <2>1
<1>9. NextBar \in Selected /\ Least(NextBar)
  BY <1>7, <1>8 DEF NextBar
<1>10. \A d \in Selected : d[1] \in Int
  BY <1>1, FeedAssumption
<1> QED BY <1>9, <1>10

-----------------------------------------------------------------------------
(* The operators of the update.                                            *)

\* A finite set has a finite image.
LEMMA ImageFinite ==
  ASSUME NEW S, IsFiniteSet(S), NEW g
  PROVE  IsFiniteSet({g[x] : x \in S})
<1> DEFINE T == {g[x] : x \in S}
           h == [x \in S |-> g[x]]
<1>1. h \in Surjection(S, T)
  BY DEF Surjection
<1> HIDE DEF h, T
<1>2. IsFiniteSet(T)
  BY <1>1, FS_Surjection
<1> QED BY <1>2 DEF T

\* The bars of a root are some of the minutes, and finitely many.
LEMMA BarsAreMinutes ==
  ASSUME FeedTypeOK, NEW r \in Roots
  PROVE  bars[r] \subseteq Minutes /\ bars[r] \subseteq Int /\ IsFiniteSet(bars[r])
<1>1. bars[r] \in SUBSET OpenAt
  BY DEF FeedTypeOK
<1>2. OpenAt \subseteq 0 .. LastMinute /\ LastMinute \in Int
  BY FeedAssumption
<1>3. bars[r] \subseteq 0 .. LastMinute
  BY <1>1, <1>2
<1>4. IsFiniteSet(bars[r])
  <2>1. bars[r] \in SUBSET (0 .. LastMinute)
    BY <1>3
  <2>2. 0 \in Int
    OBVIOUS
  <2> QED BY <1>2, <2>1, <2>2, BoundedFinite, Zenon
<1> QED BY <1>2, <1>3, <1>4 DEF Minutes

\* The latest bar of a root is a bar of it, and none is later.
LEMMA LatestIsLast ==
  ASSUME FeedTypeOK, NEW r \in Roots, bars[r] # {}
  PROVE  /\ Latest(r) \in bars[r] /\ Latest(r) \in Minutes
         /\ \A k \in bars[r] : k <= Latest(r)
BY BarsAreMinutes, FiniteMax DEF Latest

\* Each root has a freeze.
LEMMA FreezeIsInt == \A r \in Roots : FreezeOf(r) \in Int
<1>1. ASSUME NEW r \in Roots PROVE FreezeOf(r) \in Int
  <2> DEFINE Cs == {d \in Candidates : r \in Required[d]}
             g == [c \in Candidates |-> 2 * Freeze[c] + 1]
             T == {g[c] : c \in Cs}
  <2>1. IsFiniteSet(Cs)
    BY FeedAssumption, FS_Subset
  <2>2. \A c \in Cs : g[c] \in Int /\ g[c] = 2 * Freeze[c] + 1
    BY FeedAssumption
  <2>3. Cs # {}
    BY <1>1, FeedAssumption
  <2> HIDE DEF Cs, g
  <2>4. IsFiniteSet(T) /\ T \subseteq Int /\ T # {}
    BY <2>1, <2>2, <2>3, ImageFinite
  <2>5. T = {2 * Freeze[c] + 1 : c \in Cs}
    BY <2>2
  <2> HIDE DEF T
  <2>6. Min(T) \in Int
    BY <2>4, FiniteMin
  <2> QED BY <2>5, <2>6 DEF FreezeOf, Cs
<1> QED BY <1>1

\* A contract is active from one of the minutes on.
LEMMA ActiveStartInt == \A r \in Roots, m \in Minutes : ActiveStart(r, m) \in Minutes
<1>1. ASSUME NEW r \in Roots, NEW m \in Minutes PROVE ActiveStart(r, m) \in Minutes
  <2> DEFINE T == {k \in Minutes : \A l \in k..m : Contract[r][l] = Contract[r][m]}
  <2>1. m \in T
    BY FeedAssumption DEF Minutes
  <2>2. T \subseteq 0 .. LastMinute /\ LastMinute \in Int
    BY FeedAssumption DEF Minutes
  <2>3. IsFiniteSet(0 .. LastMinute) /\ 0 .. LastMinute \subseteq Int
    BY <2>2, FS_Interval
  <2> HIDE DEF T
  <2>5. IsFiniteSet(T) /\ T \subseteq Int
    BY <2>2, <2>3, FS_Subset
  <2>4. Min(T) \in T
    BY <2>1, <2>5, FiniteMin
  <2> QED BY <2>2, <2>4 DEF ActiveStart, T, Minutes
<1> QED BY <1>1

\* What is asked for a root begins after its freeze and after all its bars.
LEMMA QueryIsLater ==
  ASSUME FeedTypeOK, job.asOf \in Minutes, NEW r \in Roots
  PROVE  /\ QueryStart(r) \in Int /\ QueryStart(r) >= FreezeOf(r)
         /\ \A k \in bars[r] : 2 * Close(k) <= QueryStart(r)
<1> DEFINE B == {2 * Close(m) : m \in bars[r]}
           A == {FreezeOf(r), 2 * ActiveStart(r, job.asOf)}
           T == A \cup B
<1>1. bars[r] \subseteq 0 .. LastMinute /\ LastMinute \in Int
  BY BarsAreMinutes, FeedAssumption DEF Minutes
<1>2. B \subseteq 0 .. 2 * (LastMinute + 1)
  BY <1>1 DEF Close
<1>3. \A k \in bars[r] : 2 * Close(k) \in B
  OBVIOUS
<1>4. A \subseteq Int /\ FreezeOf(r) \in A
  <2>1. FreezeOf(r) \in Int /\ ActiveStart(r, job.asOf) \in Int
    <3>1. ActiveStart(r, job.asOf) \in Minutes
      BY ActiveStartInt
    <3> QED BY <3>1, FreezeIsInt, FeedAssumption DEF Minutes
  <2> QED BY <2>1
<1>5. IsFiniteSet(A)
  <2>1. IsFiniteSet({FreezeOf(r)})
    BY FS_Singleton
  <2>2. A = {FreezeOf(r)} \cup {2 * ActiveStart(r, job.asOf)}
    OBVIOUS
  <2> QED BY <2>1, <2>2, FS_AddElement
<1> HIDE DEF A, B
<1>6. IsFiniteSet(B) /\ B \subseteq Int
  <2>1. PICK n \in Int : n = 2 * (LastMinute + 1)
    BY <1>1
  <2>2. B \in SUBSET (0 .. n)
    BY <1>2, <2>1
  <2>3. 0 \in Int
    OBVIOUS
  <2>4. IsFiniteSet(B)
    BY <2>1, <2>2, <2>3, BoundedFinite, Zenon
  <2> QED BY <2>2, <2>4
<1>7. IsFiniteSet(T) /\ T \subseteq Int /\ T # {}
  BY <1>4, <1>5, <1>6, FS_Union
<1>8. QueryStart(r) = Max(T)
  BY DEF QueryStart, A, B
<1> HIDE DEF T
<1>9. QueryStart(r) \in T /\ \A y \in T : y <= QueryStart(r)
  BY <1>7, <1>8, FiniteMax
<1>10. FreezeOf(r) \in T /\ \A k \in bars[r] : 2 * Close(k) \in T
  BY <1>3, <1>4 DEF T
<1> QED BY <1>7, <1>9, <1>10

\* So the request, which begins with the root that is furthest behind, has a
\* beginning.
LEMMA EarliestIsInt ==
  ASSUME FeedTypeOK, job.asOf \in Minutes
  PROVE  EarliestStart \in Int
<1> DEFINE g == [r \in Roots |-> QueryStart(r)]
           T == {g[r] : r \in Roots}
<1>1. \A r \in Roots : g[r] = QueryStart(r) /\ QueryStart(r) \in Int
  BY QueryIsLater
<1>2. Roots # {} /\ IsFiniteSet(Roots)
  BY FeedAssumption
<1> HIDE DEF g
<1>3. IsFiniteSet(T) /\ T \subseteq Int /\ T # {}
  BY <1>1, <1>2, ImageFinite
<1>4. T = {QueryStart(r) : r \in Roots}
  BY <1>1
<1> HIDE DEF T
<1>5. Min(T) \in Int
  BY <1>3, FiniteMin
<1> QED BY <1>4, <1>5 DEF EarliestStart

\* A heartbeat is as old as the root that is furthest behind.
LEMMA BeatIsBehind ==
  ASSUME FeedTypeOK, NEW c \in Candidates, \A r \in Required[c] : bars[r] # {},
         job.observed \in Minutes
  PROVE  /\ Beat(c) \in [latest : Int, observed : Int, sequence : Int]
         /\ \A r \in Required[c] : Beat(c).latest <= Close(Latest(r))
<1>1. Required[c] \subseteq Roots /\ Required[c] # {}
  BY FeedAssumption
<1>2. IsFiniteSet(Required[c])
  BY <1>1, FeedAssumption, FS_Subset
<1>3. \A r \in Required[c] : Close(Latest(r)) \in Int
  <2>1. ASSUME NEW r \in Required[c] PROVE Latest(r) \in Minutes
    BY <1>1, LatestIsLast
  <2>2. \A m \in Minutes : Close(m) \in Int
    BY FeedAssumption DEF Close, Minutes
  <2> QED BY <2>1, <2>2
<1>4. \A r \in Required[c] : Cardinality(bars[r]) \in Int
  <2>1. ASSUME NEW r \in Required[c] PROVE Cardinality(bars[r]) \in Int
    <3>1. IsFiniteSet(bars[r])
      BY <1>1, BarsAreMinutes
    <3> QED BY <3>1, FS_CardinalityType
  <2> QED BY <2>1
<1>5. /\ Min({Close(Latest(r)) : r \in Required[c]}) \in Int
      /\ \A r \in Required[c] : Min({Close(Latest(q)) : q \in Required[c]}) <= Close(Latest(r))
  <2> DEFINE g == [r \in Required[c] |-> Close(Latest(r))]
             T == {g[r] : r \in Required[c]}
  <2>1. \A r \in Required[c] : g[r] = Close(Latest(r))
    OBVIOUS
  <2> HIDE DEF g
  <2>2. IsFiniteSet(T) /\ T \subseteq Int /\ T # {}
    BY <1>1, <1>2, <1>3, <2>1, ImageFinite
  <2>3. T = {Close(Latest(r)) : r \in Required[c]} /\ \A r \in Required[c] : Close(Latest(r)) \in T
    BY <2>1
  <2> HIDE DEF T
  <2>4. Min(T) \in Int /\ \A y \in T : Min(T) <= y
    BY <2>2, FiniteMin
  <2> QED BY <2>3, <2>4
<1>6. Max({Cardinality(bars[r]) : r \in Required[c]}) \in Int
  <2> DEFINE g == [r \in Required[c] |-> Cardinality(bars[r])]
             T == {g[r] : r \in Required[c]}
  <2>1. \A r \in Required[c] : g[r] = Cardinality(bars[r])
    OBVIOUS
  <2> HIDE DEF g
  <2>2. IsFiniteSet(T) /\ T \subseteq Int /\ T # {}
    BY <1>1, <1>2, <1>4, <2>1, ImageFinite
  <2>3. T = {Cardinality(bars[r]) : r \in Required[c]}
    BY <2>1
  <2> HIDE DEF T
  <2>4. Max(T) \in Int
    BY <2>2, FiniteMax
  <2> QED BY <2>3, <2>4
<1>7. job.observed \in Int
  BY FeedAssumption DEF Minutes
<1> QED BY <1>5, <1>6, <1>7 DEF Beat

-----------------------------------------------------------------------------
(* The inductive invariant.                                                *)

\* Nothing is stored, spent or scheduled when the process first starts.
LEMMA FeedInvInit == FeedInit => FeedInv
<1> SUFFICES ASSUME FeedInit PROVE FeedInv
  OBVIOUS
<1>1. FeedTypeOK
  BY FeedAssumption DEF FeedInit, FeedTypeOK, Minutes, Updates, MaxAttempts
<1>2. JobTypeOK
  BY FeedAssumption DEF FeedInit, JobTypeOK, Idle, Minutes, Requests
<1>3. SpendOnRecord /\ OneUpdate
  BY FeedAssumption DEF FeedInit, SpendOnRecord, OneUpdate, Active
<1>4. \A r \in Roots : bars[r] = {}
  BY DEF FeedInit
<1>5. OnlyLater /\ NothingBeforeFreeze /\ GapsAreKnown /\ BeatsAreBacked
  BY <1>4 DEF FeedInit, OnlyLater, Asking, NothingBeforeFreeze, GapsAreKnown, BeatsAreBacked
<1> QED BY <1>1, <1>2, <1>3, <1>5 DEF FeedInv

\* The greater of two.
LEMMA PairMax ==
  ASSUME NEW a \in Int, NEW b \in Int PROVE Max({a, b}) \in Int /\ Max({a, b}) >= a
<1>1. IsFiniteSet({a})
  BY FS_Singleton
<1>2. {a, b} = {a} \cup {b}
  OBVIOUS
<1>3. IsFiniteSet({a, b}) /\ {a, b} \subseteq Int /\ {a, b} # {}
  BY <1>1, <1>2, FS_AddElement
<1> QED BY <1>3, FiniteMax

\* An estimate is recorded before its request, a charge before its entry.
LEMMA SpendStep ==
  ASSUME FeedInv, FeedNext PROVE SpendOnRecord'
<1>0. /\ estimated \in Nat /\ actual \in Nat /\ paid \in Nat /\ SafetyCeiling \in Nat
      /\ SpendOnRecord
  BY FeedAssumption DEF FeedInv, FeedTypeOK
<1> USE <1>0 DEF SpendOnRecord, At, spend
<1>1. CASE Raise
  BY <1>1 DEF Raise, Settle
<1>2. CASE Estimate
  BY <1>2, FeedAssumption DEF Estimate, Affordable
<1>3. CASE Request
  BY <1>3 DEF Request
<1>4. CASE Receive
  BY <1>4 DEF Receive
<1>5. CASE RecordSpend
  BY <1>5 DEF RecordSpend
<1>6. CASE Control \/ PassMinute
  <2>1. UNCHANGED <<estimated, actual, paid>>
    BY <1>6 DEF Control, PassMinute, Boot, ScheduleUpdate, FlagUpdate, CompleteUpdate, RouteUpdate,
                Crash
  <2>2. pc' \notin {"requesting", "receiving", "recording"}
    BY <1>6 DEF Control, PassMinute, Boot, ScheduleUpdate, FlagUpdate, CompleteUpdate, RouteUpdate,
                Crash, Settle
  <2> QED BY <2>1, <2>2
<1>7. CASE BeginUpdate \/ Resolve \/ PlanQuery \/ UseCached \/ LoadDefinitions \/ MapContracts
           \/ LoadBars
  BY <1>7 DEF BeginUpdate, Resolve, PlanQuery, UseCached, LoadDefinitions, MapContracts, LoadBars
<1>8. CASE AppendBar \/ Appended \/ SkipBeat \/ PublishBeat
  BY <1>8 DEF AppendBar, Appended, SkipBeat, PublishBeat
<1> QED
  BY <1>1, <1>2, <1>3, <1>4, <1>5, <1>6, <1>7, <1>8
     DEF FeedNext, Update, ResolveFails, EstimateFails, ReceiveFails, LoadFails, MapFails,
         AppendFails, BeatFails

\* One update at a time, and none that waits has used up its attempts.
LEMMA OneUpdateStep ==
  ASSUME FeedInv, FeedNext PROVE OneUpdate'
<1>0. /\ rows \in [Updates -> {"none", "QUEUED", "RUNNING", "COMPLETED", "FAILED"}]
      /\ attempt \in 0 .. MaxAttempts /\ sequence \in Int
  BY FeedAssumption DEF FeedInv, FeedTypeOK
<1> USE <1>0 DEF FeedInv, OneUpdate, Active, At, schedule
<1>1. CASE Raise
  BY <1>1 DEF Raise, Settle, MaxAttempts
<1>2. CASE ScheduleUpdate
  <2>1. CASE rows[sequence + 1] = "none"
    <3>1. /\ rows' = [rows EXCEPT ![sequence + 1] = "QUEUED"] /\ attempt' = 0
          /\ sequence + 1 \in Updates /\ sequence' = sequence /\ pc' = "flagging" /\ Active = {}
      BY <1>2, <2>1 DEF ScheduleUpdate, Due
    <3>2. \A u \in Updates : rows'[u] = IF u = sequence + 1 THEN "QUEUED" ELSE rows[u]
      BY <3>1
    <3>3. Active' = {sequence + 1} /\ \A u \in Updates : rows'[u] # "RUNNING"
      BY <3>1, <3>2
    <3> QED BY <3>1, <3>2, <3>3 DEF MaxAttempts
  <2>2. CASE rows[sequence + 1] # "none"
    BY <1>2, <2>2 DEF ScheduleUpdate
  <2> QED BY <2>1, <2>2
<1>3. CASE Boot
  BY <1>3 DEF Boot
<1>4. CASE BeginUpdate
  BY <1>4 DEF BeginUpdate
<1>5. CASE CompleteUpdate
  BY <1>5 DEF CompleteUpdate, Settle
<1>6. CASE FlagUpdate \/ RouteUpdate \/ Crash \/ PassMinute
  BY <1>6 DEF FlagUpdate, RouteUpdate, Crash, PassMinute
<1>7. CASE Resolve \/ PlanQuery \/ UseCached \/ Estimate \/ Request \/ Receive \/ RecordSpend
           \/ LoadDefinitions \/ MapContracts \/ LoadBars
  BY <1>7 DEF Resolve, PlanQuery, UseCached, Estimate, Request, Receive, RecordSpend,
              LoadDefinitions, MapContracts, LoadBars
<1>8. CASE AppendBar \/ Appended \/ SkipBeat \/ PublishBeat
  BY <1>8 DEF AppendBar, Appended, SkipBeat, PublishBeat
<1> QED
  BY <1>1, <1>2, <1>3, <1>4, <1>5, <1>6, <1>7, <1>8
     DEF FeedNext, Control, Update, ResolveFails, EstimateFails, ReceiveFails, LoadFails, MapFails,
         AppendFails, BeatFails

\* The candidate whose turn it is.
LEMMA NextIsOpen ==
  ASSUME job.beaten \in SUBSET Candidates, job.beaten # Candidates PROVE Next1 \in Candidates
<1> DEFINE T == Candidates \ job.beaten
<1>1. T \in SUBSET Candidates /\ T # {} /\ T \subseteq Int
  BY FeedAssumption
<1>2. IsFiniteSet(T)
  BY <1>1, FeedAssumption, FS_Subset
<1> HIDE DEF T
<1>3. Min(T) \in T
  BY <1>1, <1>2, FiniteMin
<1> QED BY <1>1, <1>3 DEF T, Next1

\* What every step but a few leaves alone has its type.
LEMMA TypeStep ==
  ASSUME FeedInv, FeedNext PROVE FeedTypeOK'
<1>0. estimated \in Nat /\ actual \in Nat /\ paid \in Nat /\ actual <= paid
  BY DEF FeedInv, FeedTypeOK
<1> USE DEF FeedInv, FeedTypeOK, At, schedule, spend, store, market
<1>1. CASE Raise
  BY <1>1 DEF Raise, Settle, Updates
<1>2. CASE PassMinute
  BY <1>2, FeedAssumption DEF PassMinute, Minutes
<1>3. CASE Boot \/ ScheduleUpdate
  <2>1. rows' \in [Updates -> {"none", "QUEUED", "RUNNING", "COMPLETED", "FAILED"}]
    BY <1>3 DEF Boot, ScheduleUpdate
  <2>2. attempt' \in 0 .. MaxAttempts
    BY <1>3 DEF Boot, ScheduleUpdate, MaxAttempts
  <2> QED BY <1>3, <2>1, <2>2 DEF Boot, ScheduleUpdate
<1>4. CASE FlagUpdate
  <2>1. sequence' = sequence + 1 /\ sequence + 1 \in 1 .. MaxUpdates /\ MaxUpdates \in Nat
    BY <1>4, FeedAssumption DEF FlagUpdate, OneUpdate, Updates
  <2>2. sequence' \in 0 .. MaxUpdates
    BY <2>1
  <2> QED BY <1>4, <2>2 DEF FlagUpdate
<1>5. CASE CompleteUpdate \/ Crash
  BY <1>5 DEF CompleteUpdate, Settle, Crash
<1>6. CASE RouteUpdate
  BY <1>6 DEF RouteUpdate, Unaccounted
<1>7. CASE BeginUpdate
  <2>1. avail \in Int /\ avail >= 0 /\ clock \in Int /\ clock - MaxLag \in Int
    BY FeedAssumption DEF Minutes
  <2>2. Max({avail, clock - MaxLag}) \in Int /\ Max({avail, clock - MaxLag}) >= avail
    BY <2>1, PairMax
  <2>3. avail' \in 0 .. clock /\ clock' = clock
    BY <1>7, <2>1, <2>2 DEF BeginUpdate
  <2>4. attempt' \in 0 .. MaxAttempts
    BY <1>7 DEF BeginUpdate, OneUpdate, Active, MaxAttempts
  <2>5. rows' \in [Updates -> {"none", "QUEUED", "RUNNING", "COMPLETED", "FAILED"}]
    BY <1>7 DEF BeginUpdate, Active
  <2> QED BY <1>7, <2>3, <2>4, <2>5 DEF BeginUpdate
<1>8. CASE Estimate \/ RecordSpend
  <2>1. estimated' \in Nat /\ actual' \in Nat /\ paid' \in Nat
    BY <1>0, <1>8 DEF Estimate, RecordSpend
  <2>2. actual' <= paid'
    BY <1>0, <1>8 DEF Estimate, RecordSpend, SpendOnRecord
  <2> QED BY <1>8, <2>1, <2>2 DEF Estimate, RecordSpend
<1>9. CASE Request \/ Receive
  <2>1. \A whole \in BOOLEAN : File(whole).request \in Requests /\ File(whole).whole = whole
    BY DEF File, JobTypeOK
  <2>2. \A f \in files' : f.request \in Requests /\ f.whole \in BOOLEAN
    BY <1>9, <2>1 DEF Request, Receive
  <2>3. paid' \in {paid, paid + 1} /\ actual' = actual
    BY <1>9 DEF Request, Receive
  <2>4. paid' \in Nat /\ actual' <= paid'
    BY <1>0, <2>3
  <2> QED BY <1>9, <2>2, <2>4 DEF Request, Receive
<1>10. CASE Resolve \/ PlanQuery \/ UseCached \/ LoadDefinitions \/ MapContracts \/ LoadBars
  BY <1>10 DEF Resolve, PlanQuery, UseCached, LoadDefinitions, MapContracts, LoadBars
<1>11. CASE AppendBar
  <2>1. NextBar \in Selected
    BY <1>11, NextBarIsNext DEF AppendBar
  <2>2. NextBar = <<NextBar[1], NextBar[2]>> /\ NextBar[1] \in Roots /\ NextBar \in traded
    BY <2>1, FeedAssumption DEF Selected, Offered
  <2>3. bars' \in [Roots -> SUBSET OpenAt] /\ missing' \subseteq traded
    BY <1>11, <2>2 DEF AppendBar
  <2> QED BY <1>11, <2>3 DEF AppendBar
<1>12. CASE Appended \/ SkipBeat
  BY <1>12 DEF Appended, SkipBeat
<1>13. CASE PublishBeat
  <2>1. Next1 \in Candidates
    BY <1>13, NextIsOpen DEF PublishBeat, JobTypeOK
  <2>2. \A r \in Required[Next1] : bars[r] # {}
    BY <1>13 DEF PublishBeat, PostFreeze
  <2>3. Beat(Next1) \in [latest : Int, observed : Int, sequence : Int]
    BY <2>1, <2>2, BeatIsBehind DEF JobTypeOK
  <2> QED BY <1>13, <2>1, <2>3 DEF PublishBeat
<1> QED
  BY <1>1, <1>2, <1>3, <1>4, <1>5, <1>6, <1>7, <1>8, <1>9, <1>10, <1>11, <1>12, <1>13
     DEF FeedNext, Control, Update, ResolveFails, EstimateFails, ReceiveFails, LoadFails, MapFails,
         AppendFails, BeatFails

\* What an update that has not begun stands for.
LEMMA IdleTyped ==
  Idle \in [observed : Minutes, end : Minutes, asOf : Minutes \cup {-1}, from : [Roots -> Int],
            request : Requests, upto : Minutes, beaten : SUBSET Candidates]
<1>1. 0 \in Minutes /\ 0 \in Int
  BY FeedAssumption DEF Minutes
<1> QED BY <1>1 DEF Idle, Requests

\* The update's variables have their types, and it has found its session.
LEMMA JobStep ==
  ASSUME FeedInv, FeedNext PROVE JobTypeOK'
<1> USE DEF FeedInv, JobTypeOK, At
<1>1. CASE Raise \/ Crash
  BY <1>1, IdleTyped DEF Raise, Settle, Crash
<1>2. CASE CompleteUpdate
  BY <1>2, IdleTyped, FeedAssumption DEF CompleteUpdate, Settle, Idle
<1>3. CASE PassMinute \/ Boot \/ ScheduleUpdate \/ FlagUpdate \/ RouteUpdate
  BY <1>3 DEF PassMinute, Boot, ScheduleUpdate, FlagUpdate, RouteUpdate
<1>4. CASE BeginUpdate
  <2>1. clock \in Minutes /\ avail' \in Minutes
    <3>1. clock' \in Minutes /\ avail' \in 0 .. clock' /\ clock' = clock
      BY <1>4, TypeStep DEF FeedTypeOK, BeginUpdate
    <3> QED BY <3>1, FeedAssumption DEF Minutes
  <2>2. Max({m \in OpenAt : m < avail'} \cup {-1}) \in Minutes \cup {-1}
    <3> DEFINE O == {m \in OpenAt : m < avail'}
               T == O \cup {-1}
    <3>0. OpenAt \subseteq 0 .. LastMinute /\ LastMinute \in Int
      BY FeedAssumption
    <3>6. O \subseteq OpenAt
      OBVIOUS
    <3>7. 0 \in Int
      OBVIOUS
    <3>1. O \in SUBSET (0 .. LastMinute) /\ 0 \in Int /\ LastMinute \in Int
      BY <3>0, <3>6, <3>7, Zenon
    <3>2. O \subseteq Minutes /\ T \subseteq Int
      BY <3>1 DEF Minutes
    <3> HIDE DEF O
    <3>3. IsFiniteSet(O)
      BY <3>1, BoundedFinite, Zenon
    <3>4. IsFiniteSet(T) /\ T # {}
      BY <3>3, FS_AddElement
    <3>5. Max(T) \in T
      BY <3>2, <3>4, FiniteMax
    <3> QED BY <3>2, <3>5 DEF O
  <2> QED BY <1>4, <2>1, <2>2, IdleTyped DEF BeginUpdate
<1>5. CASE Resolve
  BY <1>5 DEF Resolve, Requests
<1>6. CASE PlanQuery
  <2>1. job.asOf \in Minutes /\ FeedTypeOK
    BY <1>6 DEF PlanQuery
  <2>2. EarliestStart \in Int /\ \A r \in Roots : QueryStart(r) \in Int
    BY <2>1, EarliestIsInt, QueryIsLater
  <2>3. CASE UNCHANGED job
    BY <1>6, <2>3 DEF PlanQuery
  <2>4. PICK from : from = [r \in Roots |-> QueryStart(r)]
    OBVIOUS
  <2>5. PICK request : request = [kind |-> "bars", from |-> EarliestStart, to |-> job.end]
    OBVIOUS
  <2>6. from \in [Roots -> Int] /\ request \in Requests
    BY <2>2, <2>4, <2>5 DEF Requests
  <2>7. CASE job' = [job EXCEPT !.request = request, !.from = from]
    BY <1>6, <2>6, <2>7 DEF PlanQuery
  <2> QED BY <1>6, <2>3, <2>4, <2>5, <2>7 DEF PlanQuery
<1>7. CASE LoadBars
  BY <1>7 DEF LoadBars
<1>8. CASE UseCached \/ Estimate \/ Request \/ Receive \/ RecordSpend \/ LoadDefinitions
           \/ MapContracts \/ AppendBar \/ Appended
  BY <1>8 DEF UseCached, Estimate, Request, Receive, RecordSpend, LoadDefinitions, MapContracts,
              AppendBar, Appended
<1>9. CASE SkipBeat \/ PublishBeat
  BY <1>9, NextIsOpen DEF SkipBeat, PublishBeat
<1> QED
  BY <1>1, <1>2, <1>3, <1>4, <1>5, <1>6, <1>7, <1>8, <1>9
     DEF FeedNext, Control, Update, ResolveFails, EstimateFails, ReceiveFails, LoadFails, MapFails,
         AppendFails, BeatFails

\* A bar that is appended is the next of its root, after all that are there
\* and after the freeze.
LEMMA NextIsLater ==
  ASSUME FeedInv, AppendBar
  PROVE  \E r \in Roots, m \in Minutes :
           /\ \A k \in bars[r] : k < m
           /\ 2 * Close(m) > FreezeOf(r)
           /\ bars' = [bars EXCEPT ![r] = @ \cup {m}]
           /\ missing' = IF Gap(r, m) THEN missing \cup {<<r, m>>} ELSE missing
           /\ m \in OpenAt
           /\ \A d \in Selected : d[1] = r => m <= d[2]
<1>1. NextBar \in Selected /\ \A d \in Selected : NextBar[1] = d[1] => NextBar[2] <= d[2]
  BY NextBarIsNext DEF FeedInv, FeedTypeOK, AppendBar
<1>2. NextBar[1] \in Roots /\ NextBar[2] \in Minutes
  BY <1>1, FeedAssumption DEF Selected, Offered, FeedInv, FeedTypeOK, Minutes
<1>3. \A k \in bars[NextBar[1]] : k < NextBar[2]
  BY <1>1 DEF FeedInv, OnlyLater, AppendBar, At
<1>4. 2 * Close(NextBar[2]) > job.from[NextBar[1]] /\ job.from[NextBar[1]] \in Int
  BY <1>1, <1>2 DEF Selected, FeedInv, JobTypeOK
<1>5. job.from[NextBar[1]] >= FreezeOf(NextBar[1]) /\ FreezeOf(NextBar[1]) \in Int
  BY <1>2, FreezeIsInt DEF FeedInv, OnlyLater, AppendBar, At
<1>6. 2 * Close(NextBar[2]) \in Int
  BY <1>2, FeedAssumption DEF Close, Minutes
<1>7. 2 * Close(NextBar[2]) > FreezeOf(NextBar[1])
  BY <1>4, <1>5, <1>6
<1> QED BY <1>1, <1>2, <1>3, <1>7 DEF AppendBar

\* What is asked for, and what is still to be appended, lies after all that
\* the store has of its root.
LEMMA OnlyLaterStep ==
  ASSUME FeedInv, FeedNext PROVE OnlyLater'
<1> USE DEF FeedInv, OnlyLater, Asking, At
<1>1. CASE Raise \/ Crash \/ CompleteUpdate
  BY <1>1 DEF Raise, Settle, Crash, CompleteUpdate
<1>2. CASE PassMinute \/ Boot \/ ScheduleUpdate \/ FlagUpdate \/ RouteUpdate \/ BeginUpdate
  BY <1>2 DEF PassMinute, Boot, ScheduleUpdate, FlagUpdate, RouteUpdate, BeginUpdate
<1>3. CASE Resolve
  BY <1>3 DEF Resolve, JobTypeOK
<1>4. CASE PlanQuery
  <2>1. job.asOf \in Minutes /\ FeedTypeOK
    BY <1>4 DEF PlanQuery, JobTypeOK
  <2>2. \A r \in Roots : /\ QueryStart(r) \in Int /\ QueryStart(r) >= FreezeOf(r)
                         /\ \A k \in bars[r] : 2 * Close(k) <= QueryStart(r)
    BY <2>1, QueryIsLater
  <2>3. pc' = "estimating" => \A r \in Roots : job'.from[r] = QueryStart(r)
    <3>1. PICK from : from = [r \in Roots |-> QueryStart(r)]
      OBVIOUS
    <3>2. PICK request : request = [kind |-> "bars", from |-> EarliestStart, to |-> job.end]
      OBVIOUS
    <3>3. pc' = "estimating" => job' = [job EXCEPT !.request = request, !.from = from]
      BY <1>4, <3>1, <3>2 DEF PlanQuery
    <3>4. pc' = "estimating" => job'.from = from
      BY <3>3 DEF JobTypeOK
    <3> QED BY <3>1, <3>4
  <2>4. bars' = bars /\ pc' \in {"estimating", "beating"}
    BY <1>4 DEF PlanQuery, store
  <2> QED BY <2>2, <2>3, <2>4
<1>5. CASE UseCached \/ Estimate \/ Request \/ Receive \/ RecordSpend
  BY <1>5 DEF UseCached, Estimate, Request, Receive, RecordSpend, store
<1>6. CASE LoadDefinitions \/ MapContracts \/ Appended \/ SkipBeat \/ PublishBeat
  BY <1>6 DEF LoadDefinitions, MapContracts, Appended, SkipBeat, PublishBeat
<1>7. CASE LoadBars
  <2>1. /\ pc = "loading" /\ pc' = "appending" /\ bars' = bars /\ traded' = traded
        /\ job'.from = job.from /\ job.request.kind = "bars"
    BY <1>7 DEF LoadBars, store, market, JobTypeOK
  <2>2. ASSUME NEW b \in Selected', NEW k \in bars'[b[1]] PROVE k < b[2]
    <3>1. b \in traded /\ 2 * Close(b[2]) > job.from[b[1]]
      BY <2>1, <2>2 DEF Selected, Offered
    <3>2. b[1] \in Roots /\ b[2] \in Int
      BY SMTT(30), <3>1, FeedAssumption DEF FeedTypeOK
    <3>3. 2 * Close(k) <= job.from[b[1]] /\ job.from[b[1]] \in Int /\ k \in Int
      BY <2>1, <2>2, <3>2, BarsAreMinutes DEF JobTypeOK
    <3> QED BY <3>1, <3>2, <3>3 DEF Close
  <2> QED BY <2>1, <2>2
<1>8. CASE AppendBar
  <2>1. PICK r \in Roots, m \in Minutes :
          /\ bars' = [bars EXCEPT ![r] = @ \cup {m}]
          /\ \A d \in Selected : d[1] = r => m <= d[2]
    BY <1>8, NextIsLater
  <2>2. pc = "appending" /\ pc' = "appending" /\ UNCHANGED <<job, traded>>
    BY <1>8 DEF AppendBar, market
  <2>3. bars \in [Roots -> SUBSET OpenAt]
    BY DEF FeedTypeOK
  <2>4. ASSUME NEW b \in Selected', NEW k \in bars'[b[1]] PROVE k < b[2]
    <3>1. b \in traded /\ ~(b[2] \in bars'[b[1]])
      BY <2>2, <2>4 DEF Selected, Offered
    <3>2. b[1] \in Roots /\ b[2] \in Int /\ m \in Int
      BY SMTT(30), <3>1, FeedAssumption DEF FeedTypeOK, Minutes
    <3>3. b \in Selected
      BY <2>1, <2>2, <2>3, <2>4, <3>2 DEF Selected, Offered
    <3>4. CASE k \in bars[b[1]]
      BY <2>2, <3>3, <3>4
    <3>5. CASE b[1] = r /\ k = m
      BY <2>1, <2>3, <3>1, <3>2, <3>3, <3>5
    <3> QED BY <2>1, <2>3, <2>4, <3>2, <3>4, <3>5
  <2> QED BY <2>2, <2>4
<1> QED
  BY <1>1, <1>2, <1>3, <1>4, <1>5, <1>6, <1>7, <1>8
     DEF FeedNext, Control, Update, ResolveFails, EstimateFails, ReceiveFails, LoadFails, MapFails,
         AppendFails, BeatFails

\* Only one step writes bars, and one a heartbeat.
LEMMA WhoWrites ==
  ASSUME FeedNext
  PROVE  /\ AppendBar \/ UNCHANGED <<bars, missing>>
         /\ PublishBeat \/ UNCHANGED heartbeat
<1>1. CASE Raise
  BY <1>1 DEF Raise, store
<1>2. CASE Control \/ PassMinute
  BY <1>2 DEF Control, PassMinute, Boot, ScheduleUpdate, FlagUpdate, CompleteUpdate, RouteUpdate,
              Crash, store
<1>3. CASE BeginUpdate \/ Resolve \/ PlanQuery \/ UseCached \/ LoadDefinitions \/ MapContracts
           \/ LoadBars
  BY <1>3 DEF BeginUpdate, Resolve, PlanQuery, UseCached, LoadDefinitions, MapContracts, LoadBars,
              store
<1>4. CASE Estimate \/ Request \/ Receive \/ RecordSpend \/ Appended \/ SkipBeat
  BY <1>4 DEF Estimate, Request, Receive, RecordSpend, Appended, SkipBeat, store
<1>5. CASE AppendBar \/ PublishBeat
  BY <1>5 DEF AppendBar, PublishBeat, store
<1> QED
  BY <1>1, <1>2, <1>3, <1>4, <1>5
     DEF FeedNext, Update, ResolveFails, EstimateFails, ReceiveFails, LoadFails, MapFails,
         AppendFails, BeatFails

\* No bar from before its root's freeze.
LEMMA FreezeStep ==
  ASSUME FeedInv, FeedNext PROVE NothingBeforeFreeze'
<1>1. CASE AppendBar
  <2>1. PICK r \in Roots, m \in Minutes :
          2 * Close(m) > FreezeOf(r) /\ bars' = [bars EXCEPT ![r] = @ \cup {m}]
    BY <1>1, NextIsLater
  <2> QED BY <2>1 DEF FeedInv, FeedTypeOK, NothingBeforeFreeze
<1>2. CASE UNCHANGED bars
  BY <1>2 DEF FeedInv, NothingBeforeFreeze
<1> QED BY <1>1, <1>2, WhoWrites

\* A bar on top of a root's history leaves what lies below an earlier bar as
\* it was.
LEMMA UnbrokenStays ==
  ASSUME FeedTypeOK, NEW r \in Roots, NEW m \in Minutes, \A k \in bars[r] : k < m,
         bars' = [bars EXCEPT ![r] = @ \cup {m}],
         NEW q \in Roots, NEW n \in bars[q], Unbroken(q, n)
  PROVE  n \in bars'[q] /\ Unbroken(q, n)'
<1>1. bars \in [Roots -> SUBSET OpenAt] /\ n \in Int /\ m \in Int
  BY BarsAreMinutes, FeedAssumption DEF FeedTypeOK, Minutes
<1>2. ASSUME NEW k \in bars'[q], NEW l \in OpenAt,
             k < l, l < n, Together(q, k, n), Together(q, l, n)
      PROVE  l \in bars'[q]
  <2>1. l \in Int
    BY FeedAssumption
  <2>2. k \in bars[q]
    BY <1>1, <1>2, <2>1
  <2> QED BY <1>1, <1>2, <2>2 DEF Unbroken
<1> QED BY <1>1, <1>2 DEF Unbroken, Together

\* A break in the day and the contract of a new bar shows as a gap behind the
\* last bar of that contract.
LEMMA NoGapNoBreak ==
  ASSUME FeedTypeOK, NEW r \in Roots, NEW m \in Minutes, \A k \in bars[r] : k < m,
         ~Gap(r, m), \A n \in bars[r] : Unbroken(r, n),
         bars' = [bars EXCEPT ![r] = @ \cup {m}]
  PROVE  Unbroken(r, m)'
<1>0. bars[r] \subseteq Int /\ bars[r] \subseteq Minutes /\ IsFiniteSet(bars[r])
  BY BarsAreMinutes
<1>1. /\ bars \in [Roots -> SUBSET OpenAt] /\ m \in Int /\ bars[r] \subseteq Int
      /\ bars[r] \subseteq Minutes /\ IsFiniteSet(bars[r])
  BY SMTT(30), <1>0, FeedAssumption DEF FeedTypeOK, Minutes
<1>2. ASSUME NEW k \in bars'[r], NEW l \in OpenAt,
             k < l, l < m, Together(r, k, m), Together(r, l, m)
      PROVE  l \in bars[r]
  <2>1. l \in Int /\ l \in Minutes /\ k \in bars[r] /\ k \in Int
    <3>1. l \in Int /\ l \in Minutes
      BY FeedAssumption DEF Minutes
    <3>2. k \in bars[r]
      BY <1>1, <1>2, <3>1
    <3> QED BY <1>1, <3>1, <3>2
  <2> DEFINE C == {i \in bars[r] : Contract[r][i] = Contract[r][m]}
  <2>2. k \in C /\ C \in SUBSET bars[r]
    BY <1>2, <2>1 DEF Together
  <2>3. IsFiniteSet(C) /\ C \subseteq Int /\ C # {}
    BY <1>1, <2>2, FS_Subset
  <2>4. PICK last \in C : \A i \in C : i <= last
    BY <2>3, FiniteMax
  <2>5. last \in LastOf(r, m) /\ last \in bars[r] /\ last \in Int /\ k <= last /\ last < m
    BY <1>1, <2>2, <2>4 DEF LastOf
  <2>6. Together(r, last, m) /\ Together(r, k, last) /\ Day[k] = Day[m]
    <3>1. Day[k] <= Day[last] /\ Day[last] <= Day[m] /\ Day[k] = Day[m]
          /\ Day[k] \in Int /\ Day[last] \in Int
      BY <1>1, <1>2, <2>1, <2>5, FeedAssumption DEF Together, Minutes
    <3> QED BY <1>2, <2>4, <3>1 DEF Together
  <2>7. m = last + 1
    BY <1>1, <2>5, <2>6 DEF Gap, Close
  <2>8. CASE l = last
    BY <2>5, <2>8
  <2>9. CASE l < last
    BY <1>2, <2>1, <2>5, <2>6, <2>9 DEF Unbroken, Together
  <2> QED BY <1>2, <2>1, <2>5, <2>7, <2>8, <2>9
<1> QED BY <1>1, <1>2 DEF Unbroken, Together

\* While no interval is missing, none is.
LEMMA GapsStep ==
  ASSUME FeedInv, FeedNext PROVE GapsAreKnown'
<1>1. CASE AppendBar
  <2>1. PICK r \in Roots, m \in Minutes :
          /\ \A k \in bars[r] : k < m
          /\ bars' = [bars EXCEPT ![r] = @ \cup {m}]
          /\ missing' = IF Gap(r, m) THEN missing \cup {<<r, m>>} ELSE missing
    BY <1>1, NextIsLater
  <2>2. ASSUME missing' = {}, NEW q \in Roots, NEW n \in bars'[q] PROVE Unbroken(q, n)'
    <3>1. ~Gap(r, m) /\ missing = {}
      BY <2>1, <2>2
    <3>2. FeedTypeOK /\ \A p \in Roots : \A i \in bars[p] : Unbroken(p, i)
      BY <3>1 DEF FeedInv, GapsAreKnown
    <3>3. CASE n \in bars[q]
      BY <2>1, <3>2, <3>3, UnbrokenStays
    <3>4. CASE q = r /\ n = m
      BY <2>1, <3>1, <3>2, <3>4, NoGapNoBreak
    <3> QED BY <2>1, <2>2, <3>2, <3>3, <3>4 DEF FeedTypeOK
  <2> QED BY <2>2 DEF GapsAreKnown
<1>2. CASE UNCHANGED <<bars, missing>>
  BY <1>2 DEF FeedInv, GapsAreKnown, Unbroken
<1> QED BY <1>1, <1>2, WhoWrites

\* A heartbeat is backed when it is published, and stays so.
LEMMA BeatsStep ==
  ASSUME FeedInv, FeedNext PROVE BeatsAreBacked'
<1>1. CASE AppendBar
  <2>1. PICK r \in Roots, m \in Minutes :
          (\A k \in bars[r] : k < m) /\ bars' = [bars EXCEPT ![r] = @ \cup {m}]
    BY <1>1, NextIsLater
  <2>2. heartbeat' = heartbeat
    BY <1>1 DEF AppendBar
  <2>3. ASSUME NEW c \in Candidates, heartbeat[c] # NoBeat, NEW q \in Required[c]
        PROVE  \E n \in bars'[q] : Backs(n, c, q)'
    <3>1. PICK n \in bars[q] : Backs(n, c, q)
      BY <2>3 DEF FeedInv, BeatsAreBacked
    <3>2. q \in Roots
      BY <2>3, FeedAssumption
    <3>3. n \in bars'[q] /\ Unbroken(q, n)'
      BY <2>1, <3>1, <3>2, UnbrokenStays DEF FeedInv, Backs
    <3> QED BY <2>2, <3>1, <3>3 DEF Backs
  <2> QED BY <2>2, <2>3 DEF BeatsAreBacked
<1>2. CASE PublishBeat
  <2>1. Next1 \in Candidates
    BY <1>2, NextIsOpen DEF PublishBeat, FeedInv, JobTypeOK
  <2>2. PICK next \in Candidates :
          /\ UNCHANGED <<bars, missing>> /\ missing = {} /\ PostFreeze(next)
          /\ heartbeat' = [heartbeat EXCEPT ![next] = Beat(next)]
    BY <1>2, <2>1 DEF PublishBeat, store, Ready
  <2>3. /\ DOMAIN heartbeat = Candidates /\ FeedTypeOK
        /\ \A c \in Candidates : heartbeat'[c] = IF c = next THEN Beat(next) ELSE heartbeat[c]
    BY <2>2 DEF FeedInv, FeedTypeOK
  <2>4. ASSUME NEW q \in Required[next]
        PROVE  \E n \in bars'[q] : Backs(n, next, q)'
    <3>1. q \in Roots /\ \A p \in Required[next] : bars[p] # {}
      BY <2>2, <2>4, FeedAssumption DEF PostFreeze
    <3>2. Latest(q) \in bars[q]
      BY <2>3, <2>4, <3>1, LatestIsLast
    <3>3. Unbroken(q, Latest(q))
      BY <2>2, <3>1, <3>2 DEF FeedInv, GapsAreKnown
    <3>4. Beat(next).latest <= Close(Latest(q)) /\ 2 * Close(Latest(q)) > 2 * Freeze[next] + 1
      <4>1. Beat(next).latest <= Close(Latest(q))
        BY <2>2, <2>3, <2>4, <3>1, BeatIsBehind DEF FeedInv, JobTypeOK
      <4> QED BY <2>2, <2>4, <4>1 DEF PostFreeze
    <3>5. PICK n \in bars[q] : n = Latest(q)
      BY <3>2
    <3>6. Unbroken(q, n)'
      BY <2>2, <3>3, <3>5 DEF Unbroken
    <3>7. Close(n) >= heartbeat'[next].latest
      <4>1. Beat(next).latest \in Int /\ Close(n) \in Int
        BY <2>2, <2>3, <3>1, <3>2, <3>5, BeatIsBehind, BarsAreMinutes
           DEF FeedInv, JobTypeOK, Close
      <4>2. heartbeat'[next] = Beat(next)
        BY <2>2, <2>3
      <4>3. Beat(next).latest <= Close(n)
        BY <3>4, <3>5
      <4> QED BY <4>1, <4>2, <4>3
    <3> QED BY <2>2, <3>4, <3>5, <3>6, <3>7 DEF Backs
  <2>5. ASSUME NEW c \in Candidates, c # next, heartbeat[c] # NoBeat, NEW q \in Required[c]
        PROVE  \E n \in bars'[q] : Backs(n, c, q)'
    <3>1. PICK n \in bars[q] : Backs(n, c, q)
      BY <2>5 DEF FeedInv, BeatsAreBacked
    <3>2. heartbeat'[c] = heartbeat[c] /\ bars' = bars
      BY <2>2, <2>3, <2>5
    <3> QED BY <3>1, <3>2 DEF Backs, Unbroken
  <2> QED BY <2>3, <2>4, <2>5 DEF BeatsAreBacked
<1>3. CASE UNCHANGED <<bars, missing, heartbeat>>
  BY <1>3 DEF FeedInv, BeatsAreBacked, Backs, Unbroken
<1> QED BY <1>1, <1>2, <1>3, WhoWrites

\* Every step keeps the invariant.
LEMMA FeedInvStep == FeedInv /\ [FeedNext]_feedvars => FeedInv'
<1>1. ASSUME FeedInv, FeedNext PROVE FeedInv'
  BY <1>1, SpendStep, OneUpdateStep, TypeStep, JobStep, OnlyLaterStep, FreezeStep, GapsStep,
     BeatsStep DEF FeedInv
<1>2. ASSUME FeedInv, UNCHANGED feedvars PROVE FeedInv'
  <2> USE <1>2 DEF feedvars, market, store, spend, schedule
  <2>1. FeedTypeOK' /\ JobTypeOK' /\ SpendOnRecord'
    BY DEF FeedInv, FeedTypeOK, JobTypeOK, SpendOnRecord
  <2>2. OneUpdate' /\ NothingBeforeFreeze' /\ GapsAreKnown'
    BY DEF FeedInv, OneUpdate, Active, NothingBeforeFreeze, GapsAreKnown, Unbroken
  <2>3. OnlyLater' /\ BeatsAreBacked'
    BY DEF FeedInv, OnlyLater, Asking, Selected, Offered, BeatsAreBacked, Backs, Unbroken
  <2> QED BY <2>1, <2>2, <2>3 DEF FeedInv
<1> QED BY <1>1, <1>2

-----------------------------------------------------------------------------
(* The theorems.                                                           *)

\* An update asks only for what comes after, one at a time, and records what
\* it is charged before it is charged.
THEOREM FeedInvariance == FeedSpec => []FeedInv
BY FeedInvInit, FeedInvStep, PTL DEF FeedSpec

\* The types of the feed.
THEOREM FeedTypeCorrect == FeedSpec => []FeedTypeOK
<1>1. FeedInv => FeedTypeOK
  BY DEF FeedInv
<1> QED BY <1>1, FeedInvariance, PTL

\* A candidate that the pipeline calls active has its bars, however the store
\* came to be.
THEOREM ActiveHasBars == FeedSpec => []ActiveIsBacked
<1>1. FeedInv => ActiveIsBacked
  BY DEF FeedInv, BeatsAreBacked, ActiveIsBacked, ActiveCandidate
<1> QED BY <1>1, FeedInvariance, PTL

\* No bar of the store is from before the freeze of its root.
THEOREM StoreIsForward == FeedSpec => []NothingBeforeFreeze
<1>1. FeedInv => NothingBeforeFreeze
  BY DEF FeedInv
<1> QED BY <1>1, FeedInvariance, PTL

\* What was charged is at most what was estimated, and that at most the
\* ceiling (enforce_budget).
THEOREM ChargesAreCapped == FeedSpec => []SpendUnderCeiling
<1>1. FeedInv => SpendUnderCeiling
  BY SMTT(30), FeedAssumption DEF FeedInv, FeedTypeOK, SpendOnRecord, SpendUnderCeiling
<1> QED BY <1>1, FeedInvariance, PTL
=============================================================================
