---------------------------- MODULE Generations ----------------------------
(***************************************************************************)
(* What follows the campaign: the engines of AutonomousMissionController   *)
(* that queue one numbered experiment after the other.  Turbo epochs       *)
(* supply candidates, promotion batches replay them; when the grammar of   *)
(* turbo is exhausted, conversion cohorts turn the stock into candidates   *)
(* until an earliest stop; the decision bridge prepares the final cohort   *)
(* and runs Q4 once; then forward updates, conversion of the remaining     *)
(* debt, the V5 epochs and at last the V6 generations, which freeze V5.    *)
(*                                                                         *)
(* As in Campaign, every set_kv, enqueue and retirement commits by itself: *)
(* the controller works off todo, and a crash forgets the rest of it.  How *)
(* Q4 is run is told by Q4OneShot, how bars are fetched by ForwardFeed.    *)
(***************************************************************************)
EXTENDS Naturals, FiniteSets, SequencesExt

CONSTANTS
  Enough,      \* pre-holdout candidates that end the conversion
  Saturation,  \* V5 generations that let V6 begin
  MaxNumber,   \* BOUND: highest number of the experiments of each engine
  MaxFaults    \* BOUND: crashes and changed files

ASSUME GenerationsAssumption ==
  /\ {Enough, Saturation} \subseteq Nat \ {0} /\ MaxFaults \in Nat
  /\ \A e \in {"turbo", "promotion", "cohort", "update", "v5", "v6"} :
       e \in DOMAIN MaxNumber /\ MaxNumber[e] \in Nat

-----------------------------------------------------------------------------
(* The engines in the order in which completed results are routed.         *)
Engines == <<"prepare", "q4", "turbo", "promotion", "cohort", "update", "v5", "v6">>
Single == {"prepare", "q4"}
Numbers(e) == IF e \in Single THEN {0} ELSE 0..MaxNumber[e]
Jobs == UNION {{e} \X Numbers(e) : e \in ToSet(Engines)}

Priority ==
  [q4 |-> 320, prepare |-> 300, update |-> 300, v6 |-> 300, cohort |-> 260, v5 |-> 250,
   promotion |-> 210, turbo |-> 200]

\* What the routes tell apart: turbo epochs with candidates for promotion;
\* cohorts by a new pre-holdout candidate and by evidence debt that remains;
\* preparations by the commit they were made with.
Results(e) ==
  CASE e = "turbo" -> {"candidates", "barren"}
    [] e = "cohort" -> {"found", "found_debt", "zero", "zero_debt"}
    [] e = "prepare" -> {"frozen", "superseded"}
    [] OTHER -> {"done"}

Blocked == {"INTEGRITY_BLOCKED", "ENGINEERING_BLOCKED", "EXPERIMENT_BLOCKED"}

VARIABLES
  up,          \* the controller runs
  kv,          \* its mission state
  row,         \* the experiments
  closure,     \* cohorts specified with post_q4_debt_closure
  accounted,   \* results whose routing is recorded
  todo,        \* what the controller still has to do before it looks again
  saved,       \* locals of _initialize: what it met, and whether it queued work
  faults,      \* faults so far
  refused      \* history: engines that once found their frozen sources changed

vars == <<up, kv, row, closure, accounted, todo, saved, faults, refused>>

NoSave == [phase |-> "", blocker |-> "none", bridge |-> FALSE, queued |-> FALSE]
None == MaxNumber["cohort"] + 1

\* The blocker with which the campaign ends; kv holds the rows that steer the
\* engines, blocker both current_blocker and whether last_error tells of an
\* exhausted grammar.
GenerationsInit ==
  /\ up = FALSE /\ todo = <<>> /\ saved = NoSave
  /\ kv = [phase |-> "ENGINEERING_BLOCKED", blocker |-> "TURBO_CONTINUATION",
           counted |-> {}, latest |-> None, finalization |-> FALSE,
           issued |-> FALSE, committed |-> FALSE, sequence |-> 0,
            evolved |-> {}, saturated |-> FALSE]
  /\ row = [j \in Jobs |-> "absent"]
  /\ closure = {} /\ accounted = {} /\ faults = 0 /\ refused = {}

Fault == faults < MaxFaults /\ faults' = faults + 1
NoFault == UNCHANGED faults

Of(e, st) == {i \in Numbers(e) : row[<<e, i>>] = st}
Queued == {j \in Jobs : row[j] = "QUEUED"}
Completed(j) == row[j] \in Results(j[1])
Known(e) == {i \in Numbers(e) : row[<<e, i>>] # "absent"}
Unresolved(e) == Of(e, "FAILED") \cup Of(e, "BLOCKED") # {}
IsBlocked == kv.phase \in Blocked

-----------------------------------------------------------------------------
(* When conversion stops.                                                  *)
Converted == {i \in Numbers("cohort") : Completed(<<"cohort", i>>)}
Zero(i) == row[<<"cohort", i>>] \in {"zero", "zero_debt"}
InDebt(i) == row[<<"cohort", i>>] \in {"found_debt", "zero_debt"}

\* Of the completed cohorts, i and k are the last two.
LastTwo(i, k) == i < k /\ \A m \in Converted : m \in {i, k} \/ m < i

\* MUTANT of TwoZeros: off by one, the first two cohorts do not count.
LaterTwoZeros ==
  Cardinality(Converted) > 2 /\ \E i, k \in Converted : LastTwo(i, k) /\ Zero(i) /\ Zero(k)

TwoZeros == \E i, k \in Converted : LastTwo(i, k) /\ Zero(i) /\ Zero(k)

\* _evidence_conversion_finalization_reason; a cohort finds one candidate.
StopReason(counted, latest) ==
  \/ Cardinality({i \in counted : ~Zero(i)}) >= Enough
  \/ latest # None /\ ~InDebt(latest)
  \/ TwoZeros
Stopped == StopReason(kv.counted, kv.latest)

-----------------------------------------------------------------------------
(* The calls of the controller: the writes they go on to do, and whether   *)
(* they report queued work.                                                *)
Put(name, value) == <<"set", name, value>>
Writes(p, b) == <<Put("phase", p), Put("blocker", b)>>
Clear == Writes("PLANNING_NEXT_ACTION", "none")
Answer(ok, steps) == [ok |-> ok, steps |-> steps]
Mismatch == Answer(FALSE, Writes("INTEGRITY_BLOCKED", "SOURCE_MISMATCH"))
QueueIt(e, i) == << <<"queue", e, i>> >>

NextNumber(e) == IF Known(e) = {} THEN 0 ELSE Max(Known(e)) + 1
\* MUTANT of PendingOrNext: work that is queued already is overlooked.
AlwaysNext(e) == NextNumber(e)
PendingOrNext(e) == IF Of(e, "QUEUED") # {} THEN Min(Of(e, "QUEUED")) ELSE NextNumber(e)

\* The steps to queue experiment i of an engine whose row is absent.
Existing(e, i) == Answer(row[<<e, i>>] = "QUEUED" \/ Completed(<<e, i>>), <<>>)
Resumed(e, i) ==
  [Existing(e, i) EXCEPT !.steps = IF row[<<e, i>>] = "QUEUED" THEN Clear ELSE <<>>]

ReconcileTurbo(i, intact) ==
  CASE i \in Known("turbo") -> Resumed("turbo", i)
    [] i \notin Known("turbo") /\ intact -> Answer(TRUE, QueueIt("turbo", i) \o Clear)
    [] OTHER -> Mismatch

ReconcilePromotion(i, intact) ==
  CASE i \in Known("promotion") -> Existing("promotion", i)
    [] i \notin Known("promotion") /\ row[<<"turbo", i>>] = "barren" -> Answer(FALSE, <<>>)
    [] OTHER -> IF intact THEN Answer(TRUE, QueueIt("promotion", i)) ELSE Mismatch

Retire(e) == << <<"retire", e>> >>
FinishConversion ==
  Retire("cohort") \o <<Put("finalization", TRUE)>> \o
  Writes("ENGINEERING_BLOCKED", "FINAL_Q4_COHORT")

\* Cohorts are built on the completed promotions; those after Q4 only close
\* debt and know no stop.
ReconcileCohort(e, i, intact) ==
  CASE Stopped /\ e = "cohort" -> Answer(FALSE, FinishConversion)
    [] ~(Stopped /\ e = "cohort") /\ i \in Known("cohort") -> Resumed("cohort", i)
    [] OTHER ->
         IF intact /\ \E n \in Numbers("promotion") : Completed(<<"promotion", n>>)
         THEN Answer(TRUE, QueueIt(e, i) \o Clear)
         ELSE Mismatch

\* The artifacts that the bridge freezes are those of the first cohort.
ReconcilePrepare(intact) ==
  CASE Known("prepare") # {} -> Existing("prepare", 0)
    [] Known("prepare") = {} /\ intact /\ Completed(<<"cohort", 0>>) ->
         Answer(TRUE, QueueIt("prepare", 0) \o Clear)
    [] OTHER -> Mismatch

Evolve(e, i, intact) ==
  CASE i \in Known(e) -> Existing(e, i)
    [] i \notin Known(e) /\ intact -> Answer(TRUE, QueueIt(e, i) \o Clear)
    [] OTHER -> Mismatch
ReconcileV5(i, intact) == Evolve("v5", i, intact)
ReconcileV6(i, intact) == Evolve("v6", i, intact)

Reconcile(e, i, intact) ==
  CASE e = "turbo" -> ReconcileTurbo(i, intact)
    [] e = "promotion" -> ReconcilePromotion(i, intact)
    [] e \in {"cohort", "closure"} -> ReconcileCohort(e, i, intact)
    [] e = "prepare" -> ReconcilePrepare(intact)
    [] e = "v5" -> ReconcileV5(i, intact)
    [] e = "v6" -> ReconcileV6(i, intact)

Call(e, i) == << <<"reconcile", e, i>> >>

-----------------------------------------------------------------------------
(* The routes of the results.                                              *)
RouteTurbo(i) == Call("promotion", i) \o Clear \o Call("turbo", i + 1)

RoutePromotion == IF Queued # {} THEN Clear ELSE <<>>

Accumulated(i) == IF i \in closure THEN kv.counted ELSE kv.counted \cup {i}

RouteCohort(i) ==
  <<Put("counted", Accumulated(i)), Put("latest", i)>> \o
  (IF i \notin closure /\ StopReason(Accumulated(i), i)
   THEN FinishConversion
   ELSE (IF InDebt(i) THEN Call(IF i \in closure THEN "closure" ELSE "cohort", i + 1)
         ELSE <<>>) \o
        << <<"followed", i>> >>)

\* With an unconsumed capability of the same cohort the second routing of a
\* preparation refuses to rotate the token.
RoutePrepare(preflight) ==
  CASE row[<<"prepare", 0>>] = "superseded" -> Call("prepare", 0)
    [] row[<<"prepare", 0>>] # "superseded" /\ preflight /\ ~kv.issued ->
         <<Put("issued", TRUE)>> \o QueueIt("q4", 0) \o Clear
    [] OTHER -> Writes("ENGINEERING_BLOCKED", "Q4_PREFLIGHT")

RouteQ4 == <<Put("committed", TRUE)>> \o Writes("ENGINEERING_BLOCKED", "FORWARD_FEED")

RouteUpdate ==
  Clear \o (IF kv.latest # None /\ InDebt(kv.latest)
            THEN Call("closure", PendingOrNext("cohort")) ELSE <<>>)

RouteV5(i) == <<Put("evolved", kv.evolved \cup {i})>> \o Clear \o Call("v5", i + 1)
RouteV6(i) == Clear \o Call("v6", i + 1)

Route(e, i, preflight) ==
  CASE e = "turbo" -> RouteTurbo(i)
    [] e = "promotion" -> RoutePromotion
    [] e = "cohort" -> RouteCohort(i)
    [] e = "prepare" -> RoutePrepare(preflight)
    [] e = "q4" -> RouteQ4
    [] e = "update" -> RouteUpdate
    [] e = "v5" -> RouteV5(i)
    [] e = "v6" -> RouteV6(i)

\* MUTANT of Routing: the result is recorded as accounted before its route.
RoutingLast(j) == << <<"accounted", j>>, <<"route", j>> >>
Routing(j) == << <<"route", j>>, <<"accounted", j>> >>

\* The results to be routed, in the order of the engines and their numbers.
Due == {j \in Jobs : Completed(j) /\ j \notin accounted}
Rank(e) == CHOOSE n \in DOMAIN Engines : Engines[n] = e
Before(j, k) == Rank(j[1]) < Rank(k[1]) \/ (j[1] = k[1] /\ j[2] < k[2])

-----------------------------------------------------------------------------
(* The work of the controller, one commit after the other.                 *)
Step(d) == todo # <<>> /\ Head(todo)[1] = d
Arg(k) == Head(todo)[k + 1]
Then(steps) == todo' = steps \o Tail(todo)

SetKv ==
  /\ Step("set") /\ Then(<<>>)
  /\ kv' = [kv EXCEPT ![Arg(1)] = Arg(2)]
  /\ UNCHANGED <<up, row, closure, accounted, saved, faults, refused>>

Name(e) == IF e = "closure" THEN "cohort" ELSE e

Enqueue ==
  /\ Step("queue") /\ Then(<<>>)
  /\ LET j == <<Name(Arg(1)), Arg(2)>>
     IN  row' = [row EXCEPT ![j] = IF @ = "absent" THEN "QUEUED" ELSE @]
  /\ closure' = IF Arg(1) = "closure" THEN closure \cup {Arg(2)} ELSE closure
  /\ UNCHANGED <<up, kv, accounted, saved, faults, refused>>

\* block_queued_experiments_by_type
RetireQueued ==
  /\ Step("retire") /\ Then(<<>>)
  /\ row' = [j \in Jobs |-> IF j \in Queued /\ j[1] = Arg(1) THEN "BLOCKED" ELSE row[j]]
  /\ UNCHANGED <<up, kv, closure, accounted, saved, faults, refused>>

RouteResult ==
  /\ Step("route")
  /\ \E preflight \in BOOLEAN :
       LET j == Arg(1)
       IN  /\ Then(Route(j[1], j[2], preflight))
           /\ IF preflight THEN NoFault ELSE (j[1] = "prepare" /\ Fault)
  /\ UNCHANGED <<up, kv, row, closure, accounted, saved, refused>>

RecordAccounted ==
  /\ Step("accounted") /\ Then(<<>>)
  /\ accounted' = accounted \cup {Arg(1)}
  /\ UNCHANGED <<up, kv, row, closure, saved, faults, refused>>

\* A reconcile call; _initialize keeps the answer of its own ones.  A source
\* that is not intact is a fault.
Resolving(d, keep) ==
  /\ Step(d) /\ Arg(2) \in Numbers(Name(Arg(1)))
  /\ \E intact \in BOOLEAN :
       LET answer == Reconcile(Arg(1), Arg(2), intact)
       IN  /\ Then(answer.steps)
           /\ saved' = [saved EXCEPT !.queued = @ \/ (keep /\ answer.ok)]
           /\ refused' = IF answer = Mismatch THEN refused \cup {Name(Arg(1))} ELSE refused
           /\ IF intact THEN NoFault
              ELSE (Fault /\ answer # Reconcile(Arg(1), Arg(2), TRUE))
  /\ UNCHANGED <<up, kv, row, closure, accounted>>
ResolveNow == Resolving("reconcile", FALSE)
ResolveAtStart == Resolving("start", TRUE)

\* The end of a cohort's route, after its follow-up was asked for.
CohortFollowed ==
  /\ Step("followed")
  /\ Then(IF Queued # {} \/ Arg(1) \in closure THEN Clear
          ELSE Writes("ENGINEERING_BLOCKED", "NOVEL_REPRESENTATION"))
  /\ UNCHANGED <<up, kv, row, closure, accounted, saved, faults, refused>>

\* _reconcile_completed_X of each engine: one result after the other.
RouteCompleted ==
  /\ Step("completed")
  /\ \/ Due = {} /\ Then(<<>>)
     \/ \E j \in Due : (\A k \in Due \ {j} : Before(j, k)) /\ todo' = Routing(j) \o todo
  /\ UNCHANGED <<up, kv, row, closure, accounted, saved, faults, refused>>

Settle ==
  /\ Step("settle") /\ Then(IF IsBlocked THEN <<>> ELSE Clear)
  /\ UNCHANGED <<up, kv, row, closure, accounted, saved, faults, refused>>

-----------------------------------------------------------------------------
(* The start of the controller.                                            *)
Resumable == {"SCHEDULER_STALLED", "ENGINEERING_BLOCKED", "EXPERIMENT_BLOCKED",
              "STOPPED_CLEANLY"}

\* last_error is cleared at the start, and with it the exhaustion it tells of.
Start ==
  /\ ~up /\ up' = TRUE
  /\ saved' = [phase |-> kv.phase, blocker |-> kv.blocker, queued |-> FALSE,
               bridge |-> /\ Known("prepare") = {} /\ Known("q4") = {}
                          /\ \/ kv.finalization
                             \/ /\ kv.phase \in Resumable
                                /\ kv.blocker \in {"FINAL_Q4_COHORT",
                                                   "NO_EXECUTABLE_ACTION"}]
  /\ kv' = [kv EXCEPT !.phase = "RECOVERING",
                      !.blocker = IF @ = "TURBO_EXHAUSTED" THEN "TURBO_FAILED" ELSE @]
  /\ todo' = << <<"completed">>, <<"collect">> >>
  /\ UNCHANGED <<row, closure, accounted, faults, refused>>

TurboRequired ==
  \/ saved.phase \in Resumable /\ saved.blocker \in {"TURBO_CONTINUATION", "TURBO_FAILED"}
  \/ /\ kv.phase \in {"SCHEDULER_STALLED", "ENGINEERING_BLOCKED"}
     /\ kv.blocker = "TURBO_CONTINUATION"
ConversionRequired == saved.phase \in Resumable /\ saved.blocker = "TURBO_EXHAUSTED"

StartIf(required, e, i) == IF required THEN << <<"start", e, i>> >> ELSE <<>>

Collect ==
  /\ Step("collect")
  /\ Then(StartIf(TurboRequired, "turbo",
                  IF saved.blocker = "TURBO_FAILED" THEN PendingOrNext("turbo") ELSE 0) \o
          StartIf(ConversionRequired, "cohort", PendingOrNext("cohort")) \o
          StartIf(saved.bridge, "prepare", 0) \o
          << <<"conclude">>, <<"reevaluate">>, <<"v6">>, <<"v5">> >>)
  /\ UNCHANGED <<up, kv, row, closure, accounted, saved, faults, refused>>

Restored ==
  Writes(saved.phase, IF saved.blocker = "TURBO_EXHAUSTED" THEN "TURBO_FAILED"
                      ELSE saved.blocker) \o
  (IF saved.blocker = "TURBO_EXHAUSTED" THEN <<Put("blocker", saved.blocker)>> ELSE <<>>)

Conclude ==
  /\ Step("conclude")
  /\ Then(IF saved.phase \in Blocked /\ ~saved.queued THEN Restored
          ELSE IF IsBlocked THEN <<>> ELSE Clear)
  /\ saved' = NoSave
  /\ UNCHANGED <<up, kv, row, closure, accounted, faults, refused>>

\* The stop is applied to cohorts that were queued before it was known.
Reevaluate ==
  /\ Step("reevaluate")
  /\ Then(IF /\ Stopped /\ ~Completed(<<"q4", 0>>)
             /\ \A e \in Single : row[<<e, 0>>] # "QUEUED"
          THEN FinishConversion ELSE <<>>)
  /\ UNCHANGED <<up, kv, row, closure, accounted, saved, faults, refused>>

Evolvable(e) == kv.committed /\ ~IsBlocked /\ ~Unresolved(e)

\* _freeze_saturated_v5_grammar
FreezeV5 == IF kv.saturated THEN <<>> ELSE Retire("v5") \o <<Put("saturated", TRUE)>>
StartV6 ==
  /\ Step("v6")
  /\ Then(IF Evolvable("v6") /\ Cardinality(kv.evolved) >= Saturation
          THEN FreezeV5 \o Call("v6", PendingOrNext("v6")) ELSE <<>>)
  /\ UNCHANGED <<up, kv, row, closure, accounted, saved, faults, refused>>

\* MUTANT of V5ShouldRun: the frozen grammar is overlooked.
V5AlwaysRuns == Evolvable("v5")

V5ShouldRun == ~kv.saturated /\ Evolvable("v5")

StartV5 ==
  /\ Step("v5")
  /\ Then(IF V5ShouldRun THEN Call("v5", PendingOrNext("v5")) ELSE <<>>)
  /\ UNCHANGED <<up, kv, row, closure, accounted, saved, faults, refused>>

-----------------------------------------------------------------------------
(* The loop of the controller.                                             *)
Idle == up /\ todo = <<>>
Working(e, i) == up /\ todo = << <<"run", e, i>> >>

\* _reconcile_due_forward_shadow_update, when its time has come.  That a row
\* of the next number ends the controller is told by ForwardFeed.
UpdateDue ==
  /\ Idle /\ Completed(<<"q4", 0>>) /\ kv.phase # "INTEGRITY_BLOCKED"
  /\ Of("update", "QUEUED") = {}
  /\ kv.sequence \in Numbers("update")
  /\ row[<<"update", kv.sequence>>] = "absent"
  /\ \/ /\ todo' = QueueIt("update", kv.sequence) \o
                   <<Put("sequence", kv.sequence + 1)>> \o Clear
        /\ NoFault /\ UNCHANGED refused
     \/ /\ todo' = Mismatch.steps
        /\ Fault /\ refused' = refused \cup {"update"}
  /\ UNCHANGED <<up, kv, row, closure, accounted, saved>>

LiftForUpdate ==
  /\ Idle /\ Completed(<<"q4", 0>>) /\ Of("update", "QUEUED") # {}
  /\ kv.phase \in {"ENGINEERING_BLOCKED", "EXPERIMENT_BLOCKED", "SCHEDULER_STALLED"}
  /\ todo' = Clear
  /\ UNCHANGED <<up, kv, row, closure, accounted, saved, faults, refused>>

Ready == Idle /\ ~IsBlocked

Run ==
  /\ Ready
  /\ \E j \in Queued :
       /\ \A k \in Queued : Priority[j[1]] >= Priority[k[1]]
       /\ todo' = << <<"run", j[1], j[2]>> >>
  /\ kv' = [kv EXCEPT !.phase = "RUNNING_EXPERIMENT"]
  /\ UNCHANGED <<up, row, closure, accounted, saved, faults, refused>>

Finish ==
  /\ Step("run")
  /\ \E r \in Results(Arg(1)) : row' = [row EXCEPT ![<<Arg(1), Arg(2)>>] = r]
  /\ todo' = << <<"completed">>, <<"settle">> >>
  /\ UNCHANGED <<up, kv, closure, accounted, saved, faults, refused>>

\* A failure with an attempt left: the row is queued again.  Q4 has one only.
FailOnce ==
  /\ Step("run") /\ Arg(1) # "q4"
  /\ todo' = Writes("RETRY_SCHEDULED", "none")
  /\ UNCHANGED <<up, kv, row, closure, accounted, saved, faults, refused>>

\* A turbo epoch that failed because the code changed is replaced.
FailForGood ==
  /\ Step("run")
  /\ row' = [row EXCEPT ![<<Arg(1), Arg(2)>>] = "FAILED"]
  /\ \/ todo' = CASE Arg(1) = "q4" -> Writes("INTEGRITY_BLOCKED", "Q4_REVIEW")
                  [] Arg(1) = "turbo" -> Writes("EXPERIMENT_BLOCKED", "TURBO_FAILED")
                  [] OTHER -> Writes("EXPERIMENT_BLOCKED", "EXPERIMENT_FAILED")
     \/ /\ Arg(1) = "turbo"
        /\ todo' = Writes("EXPERIMENT_BLOCKED", "TURBO_FAILED") \o
                   Call("turbo", NextNumber("turbo"))
  /\ UNCHANGED <<up, kv, closure, accounted, saved, faults, refused>>

\* An exhausted grammar fails turbo without a retry, and turns to conversion;
\* that it is exhausted is known from last_error, written after the blocker.
Exhaust ==
  /\ Step("run") /\ Arg(1) = "turbo"
  /\ row' = [row EXCEPT ![<<"turbo", Arg(2)>>] = "FAILED"]
  /\ todo' = Writes("EXPERIMENT_BLOCKED", "TURBO_FAILED") \o
             <<Put("blocker", "TURBO_EXHAUSTED")>> \o
             Call("cohort", PendingOrNext("cohort"))
  /\ UNCHANGED <<up, kv, closure, accounted, saved, faults, refused>>

\* With nothing queued the mission waits for the next forward update once
\* its time is set, or stalls.
Rests(p, b) ==
  /\ Ready /\ Queued = {} /\ <<kv.phase, kv.blocker>> # <<p, b>>
  /\ todo' = Writes(p, b)
  /\ UNCHANGED <<up, kv, row, closure, accounted, saved, faults, refused>>
Wait == (\E i \in Numbers("update") : Completed(<<"update", i>>)) /\
        Rests("WAITING_FOR_NEXT_ACTION", "none")
Stall == Rests("SCHEDULER_STALLED", "NO_EXECUTABLE_ACTION")

StopCleanly ==
  /\ up /\ up' = FALSE /\ todo' = <<>>
  /\ \/ Idle /\ kv' = [kv EXCEPT !.phase = "STOPPED_CLEANLY"]
     \/ \* during a run: the experiment is released
        /\ Step("run")
        /\ kv' = [kv EXCEPT !.phase = "STOPPED_CLEANLY", !.blocker = "none"]
  /\ UNCHANGED <<row, closure, accounted, saved, faults, refused>>

\* What the next start finds: a run that was cut off is queued again while
\* it has attempts, and failed otherwise; Q4 has none left.
Crash ==
  /\ up /\ up' = FALSE /\ todo' = <<>> /\ saved' = NoSave
  /\ IF Idle THEN NoFault ELSE Fault
  /\ \/ /\ ~(Step("run") /\ Arg(1) = "q4") /\ UNCHANGED row
     \/ /\ Step("run") /\ row' = [row EXCEPT ![<<Arg(1), Arg(2)>>] = "FAILED"]
  /\ UNCHANGED <<kv, closure, accounted, refused>>

Work ==
  \/ SetKv \/ Enqueue \/ RetireQueued \/ RouteResult \/ RecordAccounted
  \/ ResolveNow \/ ResolveAtStart \/ CohortFollowed \/ RouteCompleted \/ Settle
  \/ Collect \/ Conclude \/ Reevaluate \/ StartV6 \/ StartV5
Loop ==
  \/ UpdateDue \/ LiftForUpdate \/ Run \/ Finish \/ FailOnce \/ FailForGood \/ Exhaust
  \/ Wait \/ Stall
GenerationsNext == Start \/ Work \/ Loop \/ StopCleanly \/ Crash

GenerationsSpec == GenerationsInit /\ [][GenerationsNext]_vars

-----------------------------------------------------------------------------
Completeds(e) == {i \in Numbers(e) : Completed(<<e, i>>)}

\* Types, and what the histories of the engines may hold: candidates are
\* counted as pre-holdout only if their cohort was not specified after Q4.
GenerationsTypeOK ==
  /\ kv.phase \in Blocked \cup {"RECOVERING", "PLANNING_NEXT_ACTION", "RUNNING_EXPERIMENT",
       "RETRY_SCHEDULED", "SCHEDULER_STALLED", "WAITING_FOR_NEXT_ACTION", "STOPPED_CLEANLY"}
  /\ \A j \in Jobs : row[j] \in {"absent", "QUEUED", "FAILED", "BLOCKED"} \cup Results(j[1])
  /\ kv.counted \subseteq Completeds("cohort") \ closure
  /\ kv.evolved \subseteq Completeds("v5")
  /\ \A j \in accounted : Completed(j)
  /\ closure # {} => Completed(<<"q4", 0>>)
  /\ up \/ todo = <<>>
  /\ faults \in 0..MaxFaults

\* An engine has one experiment in line at a time: work that a crash left
\* queued is resumed, not skipped for a new one.
OneInLine == \A e \in ToSet(Engines) : Cardinality(Of(e, "QUEUED")) <= 1

\* Pre-holdout conversion ends at its earliest stop: a cohort specified
\* before Q4 runs only while the last one left evidence debt, one of the last
\* two found a candidate, and fewer than enough were found before Q4.
EarliestStop ==
  \A i \in Numbers("cohort") \ closure :
    Working("cohort", i) =>
      LET done == Completeds("cohort")
          last == Max(done)
      IN  done # {} =>
            /\ InDebt(last)
            /\ Cardinality(done) = 1 \/ ~Zero(last) \/ ~Zero(Max(done \ {last}))
            /\ Cardinality({k \in done \ closure : ~Zero(k)}) < Enough

\* V5 advances neither over a failed or retired epoch of its own nor beside
\* V6, and V6 begins only when nothing of V5 is in line.
SuccessionIsFinal ==
  [][/\ \A i \in Numbers("v5") :
          row[<<"v5", i>>] = "absent" /\ row'[<<"v5", i>>] = "QUEUED" =>
            ~Unresolved("v5") /\ Known("v6") = {}
     /\ Known("v6") = {} /\ Known("v6")' # {} => Of("v5", "QUEUED") = {}]_vars

\* The follow-up of a result is there, unless the frozen sources had changed.
GoesOn(e, i) == i \in Numbers(e) /\ e \notin refused => row[<<e, i>>] # "absent"

\* When the controller looks for work, each result of an engine has the
\* follow-up that its route asks for, however often the routing was cut off,
\* unless the frozen sources of that follow-up had changed.
EngineGoesOn ==
  Idle =>
    /\ \A e \in {"turbo", "v5", "v6"} : \A i \in Completeds(e) : GoesOn(e, i + 1)
    /\ \A i \in Completeds("turbo") :
         row[<<"turbo", i>>] = "candidates" => GoesOn("promotion", i)
    /\ \A i \in Completeds("cohort") :
         InDebt(i) /\ (i \in closure \/ ~kv.finalization) => GoesOn("cohort", i + 1)

-----------------------------------------------------------------------------
(* Why these hold: the parts of two inductive invariants.                  *)

Statuses(e) == {"absent", "QUEUED", "FAILED", "BLOCKED"} \cup Results(e)
KvNames == {"phase", "blocker", "counted", "latest", "finalization", "issued", "committed",
            "sequence", "evolved", "saturated"}

RecordsTyped ==
  /\ row = [j \in Jobs |-> row[j]]
  /\ \A j \in Jobs : row[j] \in Statuses(j[1])
  /\ kv = [f \in KvNames |-> kv[f]] /\ kv.saturated \in BOOLEAN
  /\ accounted \subseteq {j \in Jobs : Completed(j)}
  /\ up \/ todo = <<>>

Callable == {"turbo", "promotion", "cohort", "closure", "prepare", "v5", "v6"}
Asks(s, e) == s[1] \in {"reconcile", "start", "queue"} /\ Name(s[2]) = e
Is(s, name) == s[1] = "set" /\ s[2] = name

IsList(s) == Len(s) \in Nat /\ s = [p \in 1..Len(s) |-> s[p]]

\* What the list of steps may hold where.
StepTyped(s, p) ==
  /\ s[1] = "set" => s[2] \in KvNames
  /\ Is(s, "finalization") => s[3] = TRUE
  /\ s[1] \in {"reconcile", "start"} => s[2] \in Callable
  /\ s[1] = "run" => Len(todo) = 1 /\ <<s[2], s[3]>> \in Queued
  /\ s[1] = "route" => p = 1 /\ s[2] \in Due
  /\ s[1] = "accounted" => s[2] \in Jobs /\ Completed(s[2])
  /\ s[1] = "queue" /\ s[2] = "closure" => p = 1 /\ row[<<"cohort", s[3]>>] = "absent"
  /\ s[1] = "collect" => p = Len(todo)
  /\ s[1] = "v6" => p + 1 = Len(todo) /\ todo[p + 1] = <<"v5">>
TodoTyped == IsList(todo) /\ \A p \in 1..Len(todo) : StepTyped(todo[p], p)

\* No result is forgotten.
DueIsRouted == up /\ Due # {} => \E p \in 1..Len(todo) : todo[p][1] = "completed"

\* Of the numbered engines: the experiments below one that exists, or is
\* asked for, are over; those of V5 with a result.
Numbered == {"turbo", "cohort", "update", "v5", "v6"}
Over(j) == IF j[1] = "v5" THEN Completed(j) ELSE row[j] \notin {"absent", "QUEUED"}
Below(e, i) == \A k \in Numbers(e) : k < i => Over(<<e, k>>)

InOrder ==
  \A e \in Numbered :
    /\ \A i \in Known(e) : Below(e, i)
    /\ \A p \in 1..Len(todo) :
         Asks(todo[p], e) => todo[p][3] \in Nat /\ Below(e, todo[p][3])

\* An update is numbered after those that exist.
Sequenced(v) == v \in Nat /\ \A k \in Numbers("update") : k < v => row[<<"update", k>>] # "absent"
UpdatesFit ==
  /\ Sequenced(kv.sequence)
  /\ \A p \in 1..Len(todo) : Is(todo[p], "sequence") =>
       \/ p = 1 /\ Sequenced(todo[p][3])
       \/ p = 2 /\ \E v \in Numbers("update") :
            todo[2][3] = v + 1 /\ Sequenced(v) /\ todo[1] = <<"queue", "update", v>>

\* A promotion is asked for by the one turbo result that is being routed, and
\* no other epoch runs while a promotion is in line.
PromotionsFit ==
  /\ \A p \in 1..Len(todo) :
       Asks(todo[p], "promotion") => p = 1 /\ <<"turbo", todo[p][3]>> \in Due
  /\ \A i, k \in Numbers("turbo") : {<<"turbo", i>>, <<"turbo", k>>} \subseteq Due => i = k
  /\ \A k \in Of("promotion", "QUEUED") :
       /\ \A i \in Numbers("turbo") : <<"turbo", i>> \in Due => i = k
       /\ \A i \in Of("promotion", "QUEUED") : i = k
       /\ \A p \in 1..Len(todo) : todo[p][1] = "run" => todo[p][2] # "turbo"

\* V6 begins once the grammar of V5 is frozen, and then nothing of V5 is
\* queued, routed or asked for.
V5IsOver ==
  /\ \A i \in Numbers("v5") : <<"v5", i>> \notin Due
  /\ \A p \in 1..Len(todo) : ~Asks(todo[p], "v5")
V6Follows ==
  /\ Known("v6") # {} => kv.saturated = TRUE
  /\ kv.saturated = TRUE => V5IsOver /\ Of("v5", "QUEUED") = {}
  /\ \A p \in 1..Len(todo) :
       /\ Asks(todo[p], "v6") =>
            kv.saturated = TRUE \/ \E q \in 1..p - 1 : Is(todo[q], "saturated")
       /\ Is(todo[p], "saturated") =>
            /\ todo[p][3] = TRUE /\ V5IsOver
            /\ \/ p = 1 /\ Of("v5", "QUEUED") = {}
               \/ p = 2 /\ todo[1] = <<"retire", "v5">>

\* What is done, or to be done within the first n steps, for a result: its
\* follow-up is there or asked for, or the conversion ends instead.
Comes(e, i, n) ==
  \/ GoesOn(e, i)
  \/ \E q \in 1..n : Asks(todo[q], e) /\ todo[q][3] = i
Ends(n) == kv.finalization = TRUE \/ \E q \in 1..n : Is(todo[q], "finalization")
ClosureComes(i, n) ==
  \/ GoesOn("cohort", i)
  \/ \E q \in 1..n : Asks(todo[q], "cohort") /\ todo[q][3] = i
                     /\ todo[q][2] = "closure"
FollowedUp(j, n) ==
  /\ j[1] \in {"turbo", "v5", "v6"} => Comes(j[1], j[2] + 1, n)
  /\ j[1] = "turbo" /\ row[j] = "candidates" => Comes("promotion", j[2], n)
  /\ j[1] = "cohort" /\ InDebt(j[2]) =>
       IF j[2] \in closure THEN ClosureComes(j[2] + 1, n)
       ELSE Comes("cohort", j[2] + 1, n) \/ Ends(n)
FollowUpsCome ==
  /\ \A j \in accounted : FollowedUp(j, 0)
  /\ \A p \in 1..Len(todo) : todo[p][1] = "accounted" =>
       FollowedUp(todo[p][2], p - 1) \/ (p = 2 /\ todo[1] = <<"route", todo[p][2]>>)

GenerationsInv ==
  /\ RecordsTyped /\ TodoTyped /\ DueIsRouted /\ InOrder /\ UpdatesFit
  /\ PromotionsFit /\ V6Follows /\ FollowUpsCome

\* What conversion has found, and what the stop is decided by.
Done == Completeds("cohort")
PreHoldout == Done \ closure
LatestDone == IF Done = {} THEN None ELSE Max(Done)
Settled == kv.counted = PreHoldout /\ kv.latest = LatestDone
Admits == ~StopReason(PreHoldout, LatestDone)

\* The steps that record it, decide by it, and queue a cohort before Q4.
CohortStep(s, p) ==
  /\ Is(s, "counted") => s[3] = PreHoldout
  /\ Is(s, "latest") =>
       /\ s[3] = LatestDone
       /\ kv.counted = PreHoldout \/ \E q \in 1..p - 1 : Is(todo[q], "counted")
  /\ s[1] \in {"reconcile", "start"} /\ s[2] = "cohort" =>
       Settled \/ \E q \in 1..p - 1 : Is(todo[q], "latest")
  /\ s[1] = "queue" /\ s[2] = "cohort" => Admits
  /\ s[1] = "accounted" /\ s[2][1] = "cohort" =>
       \/ Settled \/ \E q \in 1..p - 1 : Is(todo[q], "latest")
       \/ p = 2 /\ todo[1] = <<"route", s[2]>>

\* A cohort that is to be routed is the last, and what was recorded lacks at
\* most this one.
CohortsFit ==
  /\ \A k \in Numbers("cohort") : <<"cohort", k>> \in Due =>
       (\A d \in Done : d <= k) /\ kv.counted \cup ({k} \ closure) = PreHoldout
  /\ (\A k \in Numbers("cohort") : <<"cohort", k>> \notin Due) => Settled
  /\ Of("cohort", "QUEUED") \ closure # {} => Admits
  /\ \A p \in 1..Len(todo) : CohortStep(todo[p], p)
=============================================================================
