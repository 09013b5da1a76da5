----------------------------- MODULE ForwardFeed -----------------------------
(***************************************************************************)
(* The delayed forward feed of the shadow candidates: the controller       *)
(* schedules an update, a worker runs it (hydra/shadow/                    *)
(* databento_forward_feed.py): it resolves the contracts, pays for what it *)
(* has not cached, appends the bars to the store (forward_bar_store.py)    *)
(* and publishes a heartbeat per candidate (feed_health.py,                *)
(* data_heartbeat.py), by which the shadow pipeline calls it active.       *)
(*                                                                         *)
(* A write, a download and a commit is a step of its own and Crash may     *)
(* strike at each: the worker ends with the controller.  A minute is the   *)
(* interval from its number to the next; a freeze falls inside a minute.   *)
(* One request costs one unit.  Left out: prices, audit chains, manifests  *)
(* and reports, which no step reads again.                                 *)
(***************************************************************************)
EXTENDS FiniteSetsExt, Integers

CONSTANTS
  Roots, Candidates,  \* numbers, in the order of the loops over them
  Required,           \* roots of each candidate
  Freeze,             \* minute in which each candidate was frozen
  Stale,              \* age in minutes at which its data is stale
  OpenAt,             \* minutes of the session, as the calendar has them
  Day,                \* trading day of each minute
  Contract,           \* contract of each root at each minute
  Unsafe,             \* minutes inside a roll window
  HardCap, SafetyCeiling, Reserve,
  LastMinute,         \* BOUND: the clock
  MaxUpdates,         \* BOUND: updates ever scheduled
  Markets,            \* BOUND: the sets of bars that may trade: some may lack
                      \* a minute, or have one outside the session
  MaxLag,             \* BOUND: minutes by which the vendor is behind
  NoBeat

\* A root is there for a candidate that requires it, trading days follow each
\* other (the calendar), and what trades trades in one of the minutes.
ASSUME FeedAssumption ==
  /\ IsFiniteSet(Roots) /\ Roots \subseteq Int
  /\ IsFiniteSet(Candidates) /\ Candidates \subseteq Int /\ Candidates # {}
  /\ Required \in [Candidates -> (SUBSET Roots) \ {{}}]
  /\ \A r \in Roots : \E c \in Candidates : r \in Required[c]
  /\ Freeze \in [Candidates -> Int]
  /\ LastMinute \in Nat /\ OpenAt \subseteq 0..LastMinute
  /\ Day \in [0..LastMinute -> Int]
  /\ \A k, m \in 0..LastMinute : k <= m => Day[k] <= Day[m]
  /\ {HardCap, Reserve} \subseteq Int /\ {SafetyCeiling, MaxUpdates, MaxLag} \subseteq Nat
  /\ Markets \subseteq SUBSET (Roots \X (0..LastMinute))

MaxAttempts == 2

VARIABLES
  clock, traded, avail,     \* time; bars that trade, past and future; the vendor's end
  mapped,                   \* trading days that the contract maps cover
  bars, missing,            \* the store: bars of each root, missing intervals
  heartbeat,                \* of each candidate, or NoBeat
  files,                    \* downloaded files, whole or not
  estimated, actual, paid,  \* sums of the spend ledger, and what was charged
  rows, attempt,            \* status of the update experiments, attempts of the last
  nextCheck,                \* next_check_at_utc in the last result
  sequence, due, accounted, \* kv: forward_feed_* rows
  pc, job                   \* next step of the process, and the update's variables

market == <<clock, traded, avail>>
store == <<bars, missing>>
spend == <<files, estimated, actual, paid>>
schedule == <<rows, attempt, nextCheck, sequence, due, accounted>>
feedvars == <<market, mapped, store, heartbeat, spend, schedule, pc, job>>

Minutes == 0..LastMinute
Updates == 1..MaxUpdates
Requests == [kind : {"definitions", "bars"}, from : Int, to : Minutes]
Idle == [observed |-> 0, end |-> 0, asOf |-> 0, from |-> [r \in Roots |-> 0],
         request |-> [kind |-> "bars", from |-> 0, to |-> 0], upto |-> 0, beaten |-> {}]

FeedInit ==
  /\ clock = 0 /\ traded \in Markets /\ avail = 0
  /\ mapped = {}
  /\ bars = [r \in Roots |-> {}] /\ missing = {}
  /\ heartbeat = [c \in Candidates |-> NoBeat]
  /\ files = {} /\ estimated = 0 /\ actual = 0 /\ paid = 0
  /\ rows = [u \in Updates |-> "none"] /\ attempt = 0 /\ nextCheck = 0
  /\ sequence = 0 /\ due = 0 /\ accounted = {}
  /\ pc = "down" /\ job = Idle

-----------------------------------------------------------------------------
(* The market and its vendor.  Time passes while the process is idle: an   *)
(* update reads the clock and the vendor's end, which lags behind, once    *)
(* when it begins, and the start-up reads no clock at all.                 *)

PassMinute ==
  /\ pc = "idle"
  /\ clock < LastMinute /\ clock' = clock + 1
  /\ UNCHANGED <<traded, avail, mapped, store, heartbeat, spend, schedule, pc, job>>

-----------------------------------------------------------------------------
(* The controller.                                                         *)

At(here, there) == pc = here /\ pc' = there

Active == {u \in Updates : rows[u] \in {"QUEUED", "RUNNING"}}
Unaccounted == {u \in Updates : rows[u] = "COMPLETED"} \ accounted

\* Start-up: what ran is recovered, and completed updates are routed.
Boot ==
  /\ At("down", IF Unaccounted # {} THEN "routing" ELSE "idle")
  /\ rows' = [u \in Updates |-> IF rows[u] # "RUNNING" THEN rows[u]
                                ELSE IF attempt < MaxAttempts THEN "QUEUED" ELSE "FAILED"]
  /\ UNCHANGED <<market, mapped, store, heartbeat, spend, attempt, nextCheck, sequence, due, accounted, job>>

\* _reconcile_due_forward_shadow_update.  The specification names a boundary
\* manifest made at this moment, so an id that exists is a conflict, and
\* the exception ends the process.
Due == Active = {} /\ due <= clock

ScheduleUpdate ==
  /\ Due /\ sequence + 1 \in Updates
  /\ IF rows[sequence + 1] = "none"
     THEN /\ At("idle", "flagging")
          /\ rows' = [rows EXCEPT ![sequence + 1] = "QUEUED"] /\ attempt' = 0
     ELSE /\ At("idle", "down")
          /\ UNCHANGED <<rows, attempt>>
  /\ UNCHANGED <<market, mapped, store, heartbeat, spend, nextCheck, sequence, due, accounted, job>>

\* The next check is erased, which makes it due.
FlagUpdate ==
  /\ At("flagging", "idle")
  /\ sequence' = sequence + 1 /\ due' = 0
  /\ UNCHANGED <<market, mapped, store, heartbeat, spend, rows, attempt, nextCheck, accounted, job>>

Settle(outcome, there) ==
  /\ \E u \in Active : rows' = [rows EXCEPT ![u] = outcome]
  /\ job' = Idle /\ pc' = there

\* An exception of the worker.
Raise ==
  /\ Settle(IF attempt < MaxAttempts THEN "QUEUED" ELSE "FAILED", "idle")
  /\ UNCHANGED <<market, mapped, store, heartbeat, spend, attempt, nextCheck, sequence, due, accounted>>

\* _next_check: two minutes on, in the session or after its next opening.
NextCheck ==
  IF job.observed \in OpenAt THEN job.observed + 2
  ELSE 2 + Min({m \in OpenAt : m > job.observed} \cup {LastMinute})

CompleteUpdate ==
  /\ pc = "beating" /\ job.beaten = Candidates
  /\ nextCheck' = NextCheck
  /\ Settle("COMPLETED", "routing")
  /\ UNCHANGED <<market, mapped, store, heartbeat, spend, attempt, sequence, due, accounted>>

RouteUpdate ==
  /\ At("routing", "idle")
  /\ due' = nextCheck /\ accounted' = accounted \cup Unaccounted
  /\ UNCHANGED <<market, mapped, store, heartbeat, spend, rows, attempt, nextCheck, sequence, job>>

\* The process dies, at any point, and the worker with it.
Crash ==
  /\ pc # "down" /\ pc' = "down" /\ job' = Idle
  /\ UNCHANGED <<market, mapped, store, heartbeat, spend, schedule>>

-----------------------------------------------------------------------------
(* The update: contracts.                                                  *)

\* resolve_current_contracts: exact dated coverage, outside a roll window.
Resolved(m) == Day[m] \in mapped /\ m \notin Unsafe

\* The update is claimed and its variables read once: the moment, the
\* vendor's end, and the last open minute before it.
BeginUpdate ==
  /\ At("idle", "resolving")
  /\ \E u \in Active : rows' = [rows EXCEPT ![u] = "RUNNING"]
  /\ attempt' = attempt + 1
  /\ avail' \in Max({avail, clock - MaxLag})..clock
  /\ job' = [Idle EXCEPT !.observed = clock, !.end = avail',
                         !.asOf = Max({m \in OpenAt : m < avail'} \cup {-1})]
  /\ UNCHANGED <<clock, traded, mapped, store, heartbeat, spend, nextCheck, sequence, due, accounted>>

Resolve ==
  /\ job.asOf # -1
  /\ IF Resolved(job.asOf)
     THEN At("resolving", "planning") /\ UNCHANGED job
     ELSE /\ At("resolving", "estimating")
          /\ job' = [job EXCEPT !.request = [kind |-> "definitions", from |-> 0, to |-> job.asOf]]
  /\ UNCHANGED <<market, mapped, store, heartbeat, spend, schedule>>

\* No session before the vendor's end.
ResolveFails == pc = "resolving" /\ job.asOf = -1 /\ Raise

-----------------------------------------------------------------------------
(* The update: what to ask for.  Instants are counted in half minutes.     *)

Close(m) == m + 1
Latest(r) == Max(bars[r])
FreezeOf(r) == Min({2 * Freeze[c] + 1 : c \in {d \in Candidates : r \in Required[d]}})
ActiveStart(r, m) == Min({k \in Minutes : \A l \in k..m : Contract[r][l] = Contract[r][m]})

\* MUTANT of QueryStart: the freeze is not looked at.
QueryStartUnfrozen(r) ==
  Max({2 * ActiveStart(r, job.asOf)} \cup {2 * Close(m) : m \in bars[r]})

QueryStart(r) ==
  Max({FreezeOf(r), 2 * ActiveStart(r, job.asOf)} \cup {2 * Close(m) : m \in bars[r]})

EarliestStart == Min({QueryStart(r) : r \in Roots})
Offered(from, to) == {b \in traded : from <= 2 * b[2] /\ b[2] < to}

\* Nothing is asked for when the vendor has no record in the bounds.
PlanQuery ==
  /\ IF job.end * 2 > EarliestStart /\ Offered(EarliestStart, job.end) # {}
     THEN /\ At("planning", "estimating")
          /\ job' = [job EXCEPT
               !.request = [kind |-> "bars", from |-> EarliestStart, to |-> job.end],
               !.from = [r \in Roots |-> QueryStart(r)]]
     ELSE At("planning", "beating") /\ UNCHANGED job
  /\ UNCHANGED <<market, mapped, store, heartbeat, spend, schedule>>

-----------------------------------------------------------------------------
(* The update: paying for it.                                              *)

File(whole) == [request |-> job.request, whole |-> whole]

\* A file in the cache is used as it is, be it the remains of a download
\* that was cut off.
Cached == \E f \in files : f.request = job.request

UseCached ==
  /\ Cached /\ At("estimating", "loading")
  /\ UNCHANGED <<market, mapped, store, heartbeat, spend, schedule, job>>

\* enforce_budget on the estimates, and the reserve on the actual spend.
Affordable ==
  /\ estimated + 1 <= HardCap /\ estimated + 1 <= SafetyCeiling
  /\ HardCap - (actual + 1) >= Reserve

\* MUTANT of Estimate: the estimate is not recorded.
EstimateUnrecorded ==
  /\ ~Cached /\ Affordable
  /\ At("estimating", "requesting")
  /\ UNCHANGED <<market, mapped, store, heartbeat, spend, schedule, job>>

Estimate ==
  /\ ~Cached /\ Affordable
  /\ At("estimating", "requesting")
  /\ estimated' = estimated + 1
  /\ UNCHANGED <<market, mapped, store, heartbeat, files, actual, paid, schedule, job>>

EstimateFails == pc = "estimating" /\ ~Cached /\ ~Affordable /\ Raise

\* The vendor charges for the request and streams into the file's place;
\* what arrived before it was cut off may be nothing.
Request ==
  /\ At("requesting", "receiving")
  /\ files' \in {files, files \cup {File(FALSE)}} /\ paid' = paid + 1
  /\ UNCHANGED <<market, mapped, store, heartbeat, estimated, actual, schedule, job>>

Receive ==
  /\ At("receiving", "recording")
  /\ files' = (files \ {File(FALSE)}) \cup {File(TRUE)}
  /\ UNCHANGED <<market, mapped, store, heartbeat, estimated, actual, paid, schedule, job>>

ReceiveFails == pc = "receiving" /\ Raise

RecordSpend ==
  /\ At("recording", "loading")
  /\ actual' = actual + 1
  /\ UNCHANGED <<market, mapped, store, heartbeat, files, estimated, paid, schedule, job>>

\* What a cut-off file yields is not defined: an error, or a first part.
LoadFails == pc = "loading" /\ File(TRUE) \notin files /\ Raise

LoadDefinitions ==
  /\ job.request.kind = "definitions"
  /\ At("loading", "mapping")
  /\ mapped' = mapped \cup {Day[job.asOf]}
  /\ UNCHANGED <<market, store, heartbeat, spend, schedule, job>>

\* With the new map the contracts are resolved, or the update fails.
MapContracts ==
  /\ At("mapping", "planning") /\ Resolved(job.asOf)
  /\ UNCHANGED <<market, mapped, store, heartbeat, spend, schedule, job>>

MapFails == pc = "mapping" /\ ~Resolved(job.asOf) /\ Raise

LoadBars ==
  /\ job.request.kind = "bars"
  /\ At("loading", "appending")
  /\ \E upto \in Minutes :
       /\ upto <= job.request.to /\ (File(TRUE) \in files => upto = job.request.to)
       /\ job' = [job EXCEPT !.upto = upto]
  /\ UNCHANGED <<market, mapped, store, heartbeat, spend, schedule>>

-----------------------------------------------------------------------------
(* The update: bars and heartbeats.                                        *)

\* The rows of the file that are newer than what its root has, root by root.
Selected ==
  {b \in Offered(job.request.from, job.upto) :
     2 * Close(b[2]) > job.from[b[1]] /\ b[2] \notin bars[b[1]]}
NextBar == CHOOSE b \in Selected : \A d \in Selected : b[1] < d[1] \/ (b[1] = d[1] /\ b[2] <= d[2])

\* Of one contract and one trading day.
Together(r, k, m) == Contract[r][k] = Contract[r][m] /\ Day[k] = Day[m]
LastOf(r, m) == {k \in bars[r] : Contract[r][k] = Contract[r][m]
                                  /\ \A l \in bars[r] : Contract[r][l] = Contract[r][m] => l <= k}

\* MUTANT of Gap: the first missing minute is taken for the bar's own.
GapBeyondOne(r, m) == \E k \in LastOf(r, m) : Together(r, k, m) /\ m - Close(k) > 1

\* Minutes are missing if the last bar of the contract is of the same day
\* and does not end where this one starts.
Gap(r, m) == \E k \in LastOf(r, m) : Together(r, k, m) /\ m - Close(k) > 0

\* ForwardBarWriter.append: the bar, its interval and its audit row in one
\* transaction.
AppendBar ==
  /\ At("appending", "appending") /\ Selected # {}
  /\ LET r == NextBar[1] m == NextBar[2] IN
       /\ m \in OpenAt
       /\ bars' = [bars EXCEPT ![r] = @ \cup {m}]
       /\ missing' = IF Gap(r, m) THEN missing \cup {<<r, m>>} ELSE missing
  /\ UNCHANGED <<market, mapped, heartbeat, spend, schedule, job>>

\* A bar that starts outside the session is rejected, and the update fails.
AppendFails == pc = "appending" /\ Selected # {} /\ NextBar[2] \notin OpenAt /\ Raise

Appended ==
  /\ At("appending", "beating") /\ Selected = {}
  /\ UNCHANGED <<market, mapped, store, heartbeat, spend, schedule, job>>

\* assess_feed_health is READY.
Ready(c) ==
  /\ job.observed \in OpenAt /\ missing = {}
  /\ \A r \in Required[c] :
       /\ bars[r] # {} /\ Contract[r][Latest(r)] = Contract[r][job.asOf]
       /\ job.observed - Close(Latest(r)) \in 0..Stale[c]

PostFreeze(c) == \A r \in Required[c] : bars[r] # {} /\ 2 * Close(Latest(r)) > 2 * Freeze[c] + 1

\* The heartbeat is as old as the root that is furthest behind; a bar's
\* source sequence is its place in its root's history.
Beat(c) ==
  [latest |-> Min({Close(Latest(r)) : r \in Required[c]}), observed |-> job.observed,
   sequence |-> Max({Cardinality(bars[r]) : r \in Required[c]})]

Supersedes(c) ==
  heartbeat[c] # NoBeat =>
    /\ Beat(c).sequence > heartbeat[c].sequence
    /\ Beat(c).latest >= heartbeat[c].latest /\ Beat(c).observed >= heartbeat[c].observed

Next1 == Min(Candidates \ job.beaten)

SkipBeat ==
  /\ At("beating", "beating") /\ job.beaten # Candidates
  /\ ~(PostFreeze(Next1) /\ Ready(Next1))
  /\ job' = [job EXCEPT !.beaten = @ \cup {Next1}]
  /\ UNCHANGED <<market, mapped, store, heartbeat, spend, schedule>>

PublishBeat ==
  /\ At("beating", "beating") /\ job.beaten # Candidates
  /\ PostFreeze(Next1) /\ Ready(Next1) /\ Supersedes(Next1)
  /\ heartbeat' = [heartbeat EXCEPT ![Next1] = Beat(Next1)]
  /\ job' = [job EXCEPT !.beaten = @ \cup {Next1}]
  /\ UNCHANGED <<market, mapped, store, spend, schedule>>

\* A heartbeat that is not newer than the one in place ends the update,
\* for the candidates behind it too.
BeatFails ==
  /\ pc = "beating" /\ job.beaten # Candidates
  /\ PostFreeze(Next1) /\ Ready(Next1) /\ ~Supersedes(Next1)
  /\ Raise

-----------------------------------------------------------------------------
Control == Boot \/ ScheduleUpdate \/ FlagUpdate \/ CompleteUpdate \/ RouteUpdate \/ Crash

Update ==
  \/ BeginUpdate \/ Resolve \/ ResolveFails \/ PlanQuery
  \/ UseCached \/ Estimate \/ EstimateFails \/ Request \/ Receive \/ ReceiveFails \/ RecordSpend
  \/ LoadFails \/ LoadDefinitions \/ MapContracts \/ MapFails \/ LoadBars
  \/ AppendBar \/ AppendFails \/ Appended \/ SkipBeat \/ PublishBeat \/ BeatFails

FeedNext == PassMinute \/ Control \/ Update

FeedSpec == FeedInit /\ [][FeedNext]_feedvars

-----------------------------------------------------------------------------
(* Properties.                                                             *)

FeedTypeOK ==
  /\ clock \in Minutes /\ avail \in 0..clock
  /\ traded \in Markets /\ missing \subseteq traded
  /\ bars \in [Roots -> SUBSET OpenAt]
  /\ heartbeat \in [Candidates -> [latest : Int, observed : Int, sequence : Int] \cup {NoBeat}]
  /\ \A f \in files : f.request \in Requests /\ f.whole \in BOOLEAN
  /\ {estimated, actual, paid} \subseteq Nat /\ actual <= paid
  /\ rows \in [Updates -> {"none", "QUEUED", "RUNNING", "COMPLETED", "FAILED"}]
  /\ attempt \in 0..MaxAttempts /\ sequence \in 0..MaxUpdates /\ accounted \subseteq Updates

\* tick_shadow_pipeline: a candidate is active by its heartbeat's age alone.
ActiveCandidate(c) == heartbeat[c] # NoBeat /\ clock - heartbeat[c].latest <= Stale[c]

\* The bars up to n that are of its contract and its day lack no open minute
\* from the first of them on.
Unbroken(r, n) ==
  \A k \in bars[r], m \in OpenAt :
    k < m /\ m < n /\ Together(r, k, n) /\ Together(r, m, n) => m \in bars[r]

Backs(n, c, r) ==
  Close(n) >= heartbeat[c].latest /\ 2 * Close(n) > 2 * Freeze[c] + 1 /\ Unbroken(r, n)

\* What the pipeline calls active is backed by the store: each root of the
\* candidate has a bar that ends where the heartbeat says or later, and no
\* open minute of that bar's contract and day is missing before it, whatever
\* crashed, lagged or was cut off.
ActiveIsBacked ==
  \A c \in Candidates : ActiveCandidate(c) =>
    \A r \in Required[c] : \E n \in bars[r] : Backs(n, c, r)

\* No bar from before the freeze enters the forward evidence, though a
\* request starts with the root that is furthest behind.
NothingBeforeFreeze ==
  \A r \in Roots : \A m \in bars[r] : 2 * Close(m) > FreezeOf(r)

\* What the vendor charges stays under the safety ceiling, however many
\* downloads are cut off and asked for again: the estimate is on record first.
SpendUnderCeiling == paid <= SafetyCeiling

\* A restart at any point leaves the scheduling able to go on: when an
\* update is due, its id is free.
SchedulingSurvivesRestart ==
  pc = "idle" /\ Due /\ sequence + 1 \in Updates => rows[sequence + 1] = "none"

(* The strengthening under which the three invariants hold at every step.  *)

\* An estimate is on record before the charge it allows, and the charge
\* before its entry.
SpendOnRecord ==
  /\ paid + (IF pc = "requesting" THEN 1 ELSE 0) <= estimated /\ estimated <= SafetyCeiling
  /\ actual + (IF pc \in {"receiving", "recording"} THEN 1 ELSE 0) <= paid

\* One update at a time; one that waits has an attempt left.
OneUpdate ==
  /\ \A u, v \in Active : u = v
  /\ \A u \in Updates : rows[u] = "QUEUED" => attempt < MaxAttempts
  /\ pc \in {"idle", "flagging", "routing"} => \A u \in Updates : rows[u] # "RUNNING"
  /\ pc = "flagging" => sequence + 1 \in Updates

\* An update that plans has found its session.
JobTypeOK ==
  /\ job \in [observed : Minutes, end : Minutes, asOf : Minutes \cup {-1}, from : [Roots -> Int],
              request : Requests, upto : Minutes, beaten : SUBSET Candidates]
  /\ pc \notin {"down", "idle", "flagging", "routing", "resolving"} => job.asOf # -1

\* A request for bars starts after the freeze and after every bar of the
\* root; what is still to be appended lies after it.
Asking ==
  /\ pc \in {"estimating", "requesting", "receiving", "recording", "loading"}
  /\ job.request.kind = "bars"

OnlyLater ==
  /\ Asking \/ pc = "appending" => \A r \in Roots : job.from[r] >= FreezeOf(r)
  /\ Asking => \A r \in Roots : \A k \in bars[r] : 2 * Close(k) <= job.from[r]
  /\ pc = "appending" => \A b \in Selected : \A k \in bars[b[1]] : k < b[2]

GapsAreKnown == missing = {} => \A r \in Roots : \A n \in bars[r] : Unbroken(r, n)

BeatsAreBacked ==
  \A c \in Candidates : heartbeat[c] # NoBeat =>
    \A r \in Required[c] : \E n \in bars[r] : Backs(n, c, r)

FeedInv ==
  /\ FeedTypeOK /\ JobTypeOK /\ SpendOnRecord /\ OneUpdate
  /\ OnlyLater /\ NothingBeforeFreeze /\ GapsAreKnown /\ BeatsAreBacked
=============================================================================
