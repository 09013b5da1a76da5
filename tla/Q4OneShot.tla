------------------------------ MODULE Q4OneShot ------------------------------
(***************************************************************************)
(* The sealed Q4 holdout: hydra/governance/cohort_authorization.py and     *)
(* q4_one_shot.py issue a capability for one frozen cohort and follow its  *)
(* only use through files written with O_EXCL; validation/                 *)
(* q4_atomic_runner.py makes the attempt; governance/invariants.py audits  *)
(* the files before the controller starts and before it launches.          *)
(*                                                                         *)
(* A write, a rename or an append is a step of its own, and a process may  *)
(* be killed, or meet an exception, between any two.  Cohorts stand for    *)
(* manifests; a token, a hash or a path is the cohort it was made for.     *)
(* The controller's blocked phase is left out: nothing here rests on it.   *)
(***************************************************************************)
EXTENDS Sequences, FiniteSets, Naturals

CONSTANTS
  Cohorts,      \* frozen cohort manifests
  Commits,      \* source commits
  Commit,       \* the commit each manifest is bound to
  Operators,    \* processes started by hand from scripts/
  Child,        \* the controller's worker process
  NoCohort, NoClosure

\* The experiment that prepares a cohort has an id written in the code
\* (controller.py:180) and completes once, so a commit prepares one cohort.
ASSUME Q4Assumption ==
  /\ Child \notin Operators
  /\ NoCohort \notin Cohorts
  /\ Commit \in [Cohorts -> Commits]
  /\ \A m, n \in Cohorts : Commit[m] = Commit[n] => m = n

Runners == Operators \cup {Child}

VARIABLES
  authorization,  \* cohorts whose directory has authorization.json,
  revocation,     \* revocation.json,
  consumption,    \* consumption.json,
  opened,         \* data_opened.json,
  closure,        \* closure.json
  staging,        \* cohorts with a staging directory
  bundles,        \* result bundles and failure receipts in the output directories
  ledger,         \* rows of the data access ledger for the lockbox
  at, cohort,     \* of each runner: its next step, and for which cohort
  up, head,       \* controller process, and the deployed commit
  row,            \* status of each cohort's experiment
  routing,        \* the cohort whose token the controller has yet to queue
  past            \* history: "issued" and "run" by hand, the commits that were
                  \* deployed, "rolled back" once one of them is deployed again

files == <<authorization, revocation, consumption, opened, closure>>
outputs == <<staging, bundles, ledger>>
runners == <<at, cohort>>
controller == <<up, head, row, routing>>
q4vars == <<files, outputs, runners, controller, past>>

Row == [cohort : Cohorts, bundle : {"result", "failure"}]
Closure == [status : {"COMMITTED", "Q4_REVIEW_REQUIRED"}, bundle : {"result", "failure", "none"},
            record : Row \cup {NoCohort}]

Q4Init ==
  /\ authorization = {} /\ revocation = {} /\ consumption = {} /\ opened = {}
  /\ closure = [m \in Cohorts |-> NoClosure]
  /\ staging = {} /\ bundles = {} /\ ledger = <<>>
  /\ at = [r \in Runners |-> "idle"] /\ cohort = [r \in Runners |-> NoCohort]
  /\ up = FALSE /\ head \in Commits
  /\ row = [m \in Cohorts |-> "none"] /\ routing = NoCohort
  /\ past = {}

-----------------------------------------------------------------------------
(* What the checks read.                                                   *)

Closed == {m \in Cohorts : closure[m] # NoClosure}
AccessCount == Len(ledger)

\* MUTANT of Passes: the audit looks at closed transactions alone.
PassesUnclosed ==
  \/ ledger = <<>> /\ Closed = {}
  \/ \E m \in Closed : Closed = {m} /\ AccessCount = 1

\* run_governance_checks with audit_q4_one_shot_state: nothing happened, or
\* one closed transaction that agrees with its bundle and its ledger row.
Passes ==
  \/ ledger = <<>> /\ Closed = {} /\ consumption = {} /\ opened = {}
  \/ \E m \in Closed :
       /\ Closed = {m} /\ AccessCount = 1 /\ ledger[1].cohort = m
       /\ <<m, closure[m].bundle>> \in bundles
       /\ closure[m].record = ledger[1]

\* validate_authorization: of its own directory, but never the revocation.
Usable(m) ==
  m \in authorization /\ m \notin consumption \cup Closed /\ AccessCount = 0

-----------------------------------------------------------------------------
(* Issue, revocation and the controller.                                   *)

\* issue_cohort_authorization, by the controller or by hand.
Issue(m) ==
  /\ AccessCount = 0 /\ m \notin authorization \cup consumption \cup Closed
  /\ authorization' = authorization \cup {m}
  /\ UNCHANGED <<revocation, consumption, opened, closure, outputs, runners, up, head, row>>

IssueByHand(m) ==
  /\ Operators # {} /\ Issue(m)
  /\ past' = past \cup {"issued"}
  /\ UNCHANGED routing

\* The controller routes a prepared cohort of the deployed commit: earlier
\* capabilities are revoked, then its own is issued, then its run is queued.
Revocable == authorization \ (consumption \cup opened \cup Closed \cup revocation)

Revoke(m) ==
  /\ up /\ m \in Revocable /\ AccessCount = 0
  /\ \E n \in Cohorts \ {m} : Commit[n] = head
  /\ revocation' = revocation \cup {m}
  /\ UNCHANGED <<authorization, consumption, opened, closure, outputs, runners, controller, past>>

Route(m) ==
  /\ up /\ Commit[m] = head /\ Revocable = {}
  /\ Issue(m)
  /\ routing' = m /\ UNCHANGED past

\* Only the process that issued the token can queue it; a crash in between
\* leaves a capability that nobody holds.
EnqueueOneShot(m) ==
  /\ up /\ routing = m /\ row[m] = "none"
  /\ row' = [row EXCEPT ![m] = "QUEUED"]
  /\ routing' = NoCohort
  /\ UNCHANGED <<files, outputs, runners, up, head, past>>

\* The guard before the claim and the guard after it.
Claim(m) ==
  /\ up /\ row[m] = "QUEUED" /\ \A n \in Cohorts : row[n] # "RUNNING"
  /\ Passes /\ Usable(m)
  /\ row' = [row EXCEPT ![m] = "RUNNING"]
  /\ UNCHANGED <<files, outputs, runners, up, head, routing, past>>

Finish(m) ==
  /\ up /\ row[m] = "RUNNING" /\ at[Child] = "idle"
  /\ row' = [row EXCEPT ![m] = "ENDED"]
  /\ UNCHANGED <<files, outputs, up, head, routing, past>>

Reject(m) ==
  /\ cohort[Child] = NoCohort /\ ~(Passes /\ Usable(m))
  /\ Finish(m)
  /\ UNCHANGED runners

Launch(m) ==
  /\ up /\ row[m] = "RUNNING" /\ cohort[Child] = NoCohort
  /\ Passes /\ Usable(m)
  /\ at' = [at EXCEPT ![Child] = "ready"] /\ cohort' = [cohort EXCEPT ![Child] = m]
  /\ UNCHANGED <<files, outputs, controller, past>>

\* The worker is gone: its experiment is completed or has failed for good.
Settle(m) ==
  /\ cohort[Child] = m
  /\ Finish(m)
  /\ cohort' = [cohort EXCEPT ![Child] = NoCohort] /\ UNCHANGED at

\* The worker ends with the process; the claim is released by a clean stop.
Down(clean) ==
  /\ up /\ up' = FALSE
  /\ at' = [at EXCEPT ![Child] = "idle"] /\ cohort' = [cohort EXCEPT ![Child] = NoCohort]
  /\ row' = [m \in Cohorts |-> IF clean /\ row[m] = "RUNNING" THEN "QUEUED" ELSE row[m]]
  /\ routing' = NoCohort
  /\ UNCHANGED <<files, outputs, head, past>>

\* Start-up asserts governance, then recovers: the one attempt is spent.
StartUp ==
  /\ ~up /\ Passes /\ up' = TRUE
  /\ row' = [m \in Cohorts |-> IF row[m] = "RUNNING" THEN "ENDED" ELSE row[m]]
  /\ UNCHANGED <<files, outputs, runners, head, routing, past>>

Deploy(c) ==
  /\ ~up /\ c # head
  /\ head' = c
  /\ past' = past \cup {head} \cup (IF c \in past THEN {"rolled back"} ELSE {})
  /\ UNCHANGED <<files, outputs, runners, up, row, routing>>

-----------------------------------------------------------------------------
(* run_q4_atomic_one_shot, in the controller's worker or by hand.          *)

Goto(r, here, there) == at[r] = here /\ at' = [at EXCEPT ![r] = there]

RunByHand(r, m) ==
  /\ r \in Operators /\ m \in authorization
  /\ Goto(r, "idle", "ready")
  /\ cohort' = [cohort EXCEPT ![r] = m]
  /\ past' = past \cup {"run"}
  /\ UNCHANGED <<files, outputs, controller>>

\* MUTANT of Begin: the deployed commit is not compared.
BeginAnywhere(r) ==
  /\ Goto(r, "ready", IF Usable(cohort[r]) THEN "consuming" ELSE "idle")
  /\ UNCHANGED <<files, outputs, cohort, controller, past>>

Begin(r) ==
  /\ Goto(r, "ready", IF Usable(cohort[r]) /\ Commit[cohort[r]] = head THEN "consuming" ELSE "idle")
  /\ UNCHANGED <<files, outputs, cohort, controller, past>>

\* MUTANT of Consume: the file is written without O_EXCL.
ConsumeAgain(r) ==
  /\ Goto(r, "consuming", "staging")
  /\ consumption' = consumption \cup {cohort[r]}
  /\ UNCHANGED <<authorization, revocation, opened, closure, outputs, cohort, controller, past>>

\* The file is created by one process; any other one fails before its try.
Consume(r) ==
  /\ Goto(r, "consuming", IF cohort[r] \in consumption THEN "idle" ELSE "staging")
  /\ consumption' = consumption \cup {cohort[r]}
  /\ UNCHANGED <<authorization, revocation, opened, closure, outputs, cohort, controller, past>>

Stage(r) ==
  /\ cohort[r] \notin staging /\ <<cohort[r], "result">> \notin bundles
  /\ Goto(r, "staging", "opening")
  /\ staging' = staging \cup {cohort[r]}
  /\ UNCHANGED <<files, bundles, ledger, cohort, controller, past>>

Open(r) ==
  /\ cohort[r] \notin opened
  /\ Goto(r, "opening", "evaluating")
  /\ opened' = opened \cup {cohort[r]}
  /\ UNCHANGED <<authorization, revocation, consumption, closure, outputs, cohort, controller, past>>

\* MUTANT of Publish: the transaction is committed before it is counted.
PublishUncounted(r) ==
  /\ Goto(r, "evaluating", "committing")
  /\ bundles' = bundles \cup {<<cohort[r], "result">>}
  /\ staging' = staging \ {cohort[r]}
  /\ UNCHANGED <<files, ledger, cohort, controller, past>>

\* The staged result is verified and renamed, whole, into its place.
Publish(r) ==
  /\ Goto(r, "evaluating", "counting")
  /\ bundles' = bundles \cup {<<cohort[r], "result">>}
  /\ staging' = staging \ {cohort[r]}
  /\ UNCHANGED <<files, ledger, cohort, controller, past>>

RowsOf(m) == {i \in DOMAIN ledger : ledger[i].cohort = m}

\* MUTANT of AppendOnce: the row is appended, whatever the ledger holds.
AppendAlways(m, bundle) == ledger' = Append(ledger, [cohort |-> m, bundle |-> bundle])

AppendOnce(m, bundle) ==
  ledger' = IF RowsOf(m) # {} THEN ledger ELSE Append(ledger, [cohort |-> m, bundle |-> bundle])

Count(r) ==
  /\ Goto(r, "counting", "committing")
  /\ AppendOnce(cohort[r], "result")
  /\ UNCHANGED <<files, staging, bundles, cohort, controller, past>>

RecordOf(m) == IF RowsOf(m) = {} THEN NoCohort ELSE ledger[CHOOSE i \in RowsOf(m) : TRUE]

Close(r, here, status, bundle) ==
  /\ Goto(r, here, "idle")
  /\ closure[cohort[r]] = NoClosure
  /\ closure' = [closure EXCEPT ![cohort[r]] =
                   [status |-> status, bundle |-> bundle, record |-> RecordOf(cohort[r])]]
  /\ UNCHANGED <<authorization, revocation, consumption, opened, outputs, cohort, controller, past>>

CommitResult(r) == Close(r, "committing", "COMMITTED", "result")

\* MUTANT of Except: a failure is closed as if the data had not been opened.
ExceptUncounted(r) ==
  /\ \E here \in {"staging", "opening", "evaluating", "counting", "committing"} :
       Goto(r, here, "reviewing")
  /\ staging' = staging \ {cohort[r]}
  /\ UNCHANGED <<files, bundles, ledger, cohort, controller, past>>

\* An exception: what was staged is quarantined, and the transaction goes
\* to review, with a receipt and a ledger row if the data was opened.
Except(r) ==
  /\ \E here \in {"staging", "opening", "evaluating", "counting", "committing"} :
       Goto(r, here, IF here \in {"staging", "opening"} THEN "reviewing" ELSE "receipting")
  /\ staging' = staging \ {cohort[r]}
  /\ UNCHANGED <<files, bundles, ledger, cohort, controller, past>>

Receipt(r) ==
  /\ Goto(r, "receipting", "recounting")
  /\ bundles' = bundles \cup {<<cohort[r], "failure">>}
  /\ UNCHANGED <<files, staging, ledger, cohort, controller, past>>

Recount(r) ==
  /\ Goto(r, "recounting", "reviewing")
  /\ AppendOnce(cohort[r], "failure")
  /\ UNCHANGED <<files, staging, bundles, cohort, controller, past>>

Review(r) ==
  Close(r, "reviewing", "Q4_REVIEW_REQUIRED",
        IF <<cohort[r], "failure">> \in bundles THEN "failure" ELSE "none")

\* The process is killed, or fails in its exception handler.
Abort(r) ==
  /\ at[r] # "idle" /\ at' = [at EXCEPT ![r] = "idle"]
  /\ UNCHANGED <<files, outputs, cohort, controller, past>>

Attempt(r) ==
  \/ Begin(r) \/ Consume(r) \/ Stage(r) \/ Open(r) \/ Publish(r) \/ Count(r) \/ CommitResult(r)
  \/ Except(r) \/ Receipt(r) \/ Recount(r) \/ Review(r) \/ Abort(r)

Mission ==
  \/ \E m \in Cohorts :
       \/ Revoke(m) \/ Route(m) \/ EnqueueOneShot(m) \/ Claim(m) \/ Reject(m) \/ Launch(m)
       \/ Settle(m)
  \/ \E clean \in BOOLEAN : Down(clean)
  \/ StartUp
  \/ \E c \in Commits : Deploy(c)

ByHand == \E m \in Cohorts : IssueByHand(m) \/ \E r \in Operators : RunByHand(r, m)

Q4Next == Mission \/ ByHand \/ \E r \in Runners : Attempt(r)

Q4Spec == Q4Init /\ [][Q4Next]_q4vars

-----------------------------------------------------------------------------
(* Properties.                                                             *)

\* Types.
Q4TypeOK ==
  /\ authorization \subseteq Cohorts /\ revocation \subseteq authorization
  /\ consumption \subseteq authorization /\ opened \subseteq consumption
  /\ closure \in [Cohorts -> Closure \cup {NoClosure}]
  /\ staging \subseteq Cohorts /\ bundles \subseteq Cohorts \X {"result", "failure"}
  /\ ledger \in Seq(Row)
  /\ at \in [Runners -> {"idle", "ready", "consuming", "staging", "opening", "evaluating", "counting",
                          "committing", "receipting", "recounting", "reviewing"}]
  /\ cohort \in [Runners -> Cohorts \cup {NoCohort}]
  /\ row \in [Cohorts -> {"none", "QUEUED", "RUNNING", "ENDED"}]
  /\ head \in Commits /\ past \subseteq Commits \cup {"issued", "run", "rolled back"}

ByController == {"issued", "run"} \cap past = {}

\* The holdout is opened for one cohort in its lifetime, whatever crashes,
\* stops, deployments, rollbacks and exceptions come between the steps, as
\* long as the controller alone issues and runs the capabilities.
MissionOpensOnce == ByController => \A m, n \in opened : m = n

\* A capability has one user: never are two processes between the
\* consumption of the same one and its closure.
Attempting(r) == at[r] \notin {"idle", "ready", "consuming"}

SingleUse ==
  \A r, s \in Runners : Attempting(r) /\ Attempting(s) /\ cohort[r] = cohort[s] => r = s

\* An access is counted once and only once: no transaction has two rows, and
\* one that opened the data does not close without its row.
CountedOnce ==
  \A m \in Cohorts :
    /\ Cardinality(RowsOf(m)) <= 1
    /\ m \in opened /\ closure[m] # NoClosure => RowsOf(m) # {}

\* A committed transaction is whole: its result is in place and the ledger
\* and the closure name that result.
CommittedIsWhole ==
  \A m \in Cohorts : closure[m] # NoClosure /\ closure[m].status = "COMMITTED" =>
    /\ m \in opened /\ <<m, "result">> \in bundles
    /\ closure[m].bundle = "result" /\ closure[m].record = [cohort |-> m, bundle |-> "result"]

\* A transaction of the controller that opened the data and was closed, by
\* its commit or by an exception at any step, leaves a state that governance
\* accepts.
ClosedIsReviewable ==
  ByController => \A m \in opened : closure[m] # NoClosure => Passes

\* A capability that was revoked opens nothing, though its experiment is
\* still queued and the validation does not read the revocation: the mission
\* runs it never again, unless the code is rolled back to its commit.
RevokedStaysSealed ==
  ByController /\ "rolled back" \notin past => revocation \cap opened = {}

\* The strengthening under which the properties above are inductive.  Of one
\* runner: what is written when it stands before its next step.
Progress(r) ==
  /\ at[r] # "idle" => cohort[r] \in Cohorts
  /\ at[r] = "consuming" => cohort[r] \in authorization
  /\ Attempting(r) => cohort[r] \in consumption /\ closure[cohort[r]] = NoClosure
  /\ at[r] \in {"staging", "opening"} => cohort[r] \notin opened
  /\ at[r] \in {"staging", "opening", "evaluating", "counting"} => RowsOf(cohort[r]) = {}
  /\ at[r] \in {"evaluating", "counting", "committing", "receipting", "recounting"} =>
       cohort[r] \in opened
  /\ at[r] \in {"counting", "committing"} => <<cohort[r], "result">> \in bundles
  /\ at[r] = "committing" => \E i \in RowsOf(cohort[r]) : ledger[i].bundle = "result"
  /\ at[r] \in {"recounting", "reviewing"} /\ cohort[r] \in opened =>
       <<cohort[r], "failure">> \in bundles
  /\ at[r] = "reviewing" /\ cohort[r] \in opened => RowsOf(cohort[r]) # {}

\* Of the ledger: one row for a transaction, and only for a consumed one.
RowsAreSingle ==
  /\ \A i, j \in DOMAIN ledger : ledger[i].cohort = ledger[j].cohort => i = j
  /\ \A i \in DOMAIN ledger : ledger[i].cohort \in consumption

\* Of a closed transaction: it was consumed, and if it opened the data, its
\* closure names a ledger row and a bundle that are there.
ClosuresAreBacked ==
  \A m \in Closed :
    /\ m \in consumption
    /\ m \in opened => /\ \E i \in RowsOf(m) : ledger[i] = closure[m].record
                      /\ <<m, closure[m].bundle>> \in bundles

\* Of the controller: its worker runs while it is up and on the deployed
\* commit; if nobody works by hand, all that was ever consumed is the cohort
\* of its worker, and a revoked cohort belongs to a commit gone by.
ChildIsUp ==
  /\ at[Child] # "idle" => up
  /\ at[Child] \notin {"idle", "ready"} => Commit[cohort[Child]] = head

Alone ==
  /\ \A r \in Operators : at[r] = "idle"
  /\ \A m, n \in consumption : m = n
  /\ at[Child] # "idle" => consumption \subseteq {cohort[Child]}
  /\ \A m \in authorization : Commit[m] \in past \cup {head}
  /\ "rolled back" \notin past => \A m \in revocation : Commit[m] # head /\ m \notin opened

Q4Inv ==
  /\ Q4TypeOK /\ SingleUse /\ CommittedIsWhole
  /\ \A r \in Runners : Progress(r)
  /\ RowsAreSingle /\ ClosuresAreBacked /\ ChildIsUp
  /\ ByController => Alone
=============================================================================
