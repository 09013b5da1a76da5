--------------------------- MODULE ExperimentQueue ---------------------------
(***************************************************************************)
(* The durable experiment queue of the mission: the table `experiments` of *)
(* hydra/mission/experiment_queue.py, the parallel claim of                *)
(* hydra/pipelines/resource_scheduler.py, and the process-wide mission     *)
(* lock of hydra/mission/mission_state.py under which they are used.       *)
(*                                                                         *)
(* Every action below is one SQLite transaction (or, for recovery, the     *)
(* read and the write that the code issues separately), so a crash falls   *)
(* between any two of them.  The claims a controller has been handed live  *)
(* in its memory and die with it; the rows do not.                         *)
(*                                                                         *)
(* Abstracted: payloads, results and time stamps.  `updated_at` orders     *)
(* rows of equal priority with a resolution of one second; here any of     *)
(* them may be taken.  Leases never guard a transition, so they are not    *)
(* kept.                                                                   *)
(***************************************************************************)
EXTENDS Naturals, FiniteSets

CONSTANTS
  Experiments,     \* experiment ids that may ever be enqueued
  Controllers,     \* controller processes that may be started
  NoController,    \* value of the lock when nobody holds it
  MaxAttempts,     \* [Experiments -> Nat]: max_attempts of each specification
  Priority,        \* [Experiments -> Nat]
  ParallelSafe,    \* experiments whose specification says parallel_safe
  Pipeline,        \* [Experiments -> pipeline names]
  LedgerWriters,   \* experiments with writes_data_access_ledger
  Kind,            \* [Experiments -> experiment types]
  WorkerLimit,     \* workers of the controller configuration
  MaxRefunds       \* BOUND: attempts given back over a whole behaviour

ASSUME QueueAssumption ==
  /\ IsFiniteSet(Experiments)
  /\ MaxAttempts \in [Experiments -> Nat \ {0}]
  /\ Priority \in [Experiments -> Nat]
  /\ ParallelSafe \subseteq Experiments
  /\ LedgerWriters \subseteq Experiments
  /\ DOMAIN Pipeline = Experiments
  /\ DOMAIN Kind = Experiments
  /\ WorkerLimit \in Nat \ {0}
  /\ MaxRefunds \in Nat
  /\ NoController \notin Controllers

VARIABLES
  status,    \* the status column; "ABSENT" before the row is inserted
  attempt,   \* attempt_count
  token,     \* claim_token; 0 is NULL
  error,     \* the class of last_error the code ever tests or reports
  owner,     \* holder of the mission lock
  stage,     \* where each controller process is
  scan,      \* the rows recovery has read and how it will settle them
  claims,    \* the claims each controller holds in memory
  minted,    \* claim tokens handed out so far (uuid4: never reused)
  refunds    \* attempts given back so far

rows == <<status, attempt, token, error>>
procs == <<owner, stage, scan, claims>>
vars == <<rows, procs, minted, refunds>>

Terminal == {"COMPLETED", "FAILED", "BLOCKED"}
Statuses == {"ABSENT", "QUEUED", "RUNNING"} \cup Terminal
Stages == {"down", "starting", "scanned", "serving"}
Errors == {"none", "worker", "guard", "missing_handler", "retired",
           "shutdown", "restart", "resolved"}

Claim == [id : Experiments, token : Nat \ {0}]
Verdict == [requeue : SUBSET Experiments, fail : SUBSET Experiments]
NothingRead == [requeue |-> {}, fail |-> {}]

InStatus(s) == {e \in Experiments : status[e] = s}
Queued == InStatus("QUEUED")
Running == InStatus("RUNNING")

Init ==
  /\ status = [e \in Experiments |-> "ABSENT"]
  /\ attempt = [e \in Experiments |-> 0]
  /\ token = [e \in Experiments |-> 0]
  /\ error = [e \in Experiments |-> "none"]
  /\ owner = NoController
  /\ stage = [c \in Controllers |-> "down"]
  /\ scan = [c \in Controllers |-> NothingRead]
  /\ claims = [c \in Controllers |-> {}]
  /\ minted = 0
  /\ refunds = 0

-----------------------------------------------------------------------------
(* Controller processes and the mission lock.                              *)

\* MUTANT of Start: the mission lock is not taken exclusively.
StartUnlocked(c) ==
  /\ stage[c] = "down"
  /\ owner' = c
  /\ stage' = [stage EXCEPT ![c] = "starting"]
  /\ UNCHANGED <<rows, scan, claims, minted, refunds>>

\* flock(LOCK_EX | LOCK_NB): a second controller is refused, not queued.
Start(c) ==
  /\ stage[c] = "down"
  /\ owner = NoController
  /\ owner' = c
  /\ stage' = [stage EXCEPT ![c] = "starting"]
  /\ UNCHANGED <<rows, scan, claims, minted, refunds>>

\* The process dies; the kernel drops its lock and its memory is gone.
Die(c) ==
  /\ owner' = NoController
  /\ stage' = [stage EXCEPT ![c] = "down"]
  /\ scan' = [scan EXCEPT ![c] = NothingRead]
  /\ claims' = [claims EXCEPT ![c] = {}]
  /\ UNCHANGED <<rows, minted, refunds>>

Crash(c) == stage[c] # "down" /\ Die(c)

StopCleanly(c) == stage[c] = "serving" /\ claims[c] = {} /\ Die(c)

-----------------------------------------------------------------------------
(* Start-up recovery.                                                      *)

\* recover_resolved_missing_handler_experiments: only rows blocked because
\* their handler was absent come back, and the lost attempt is given back.
ReopenResolved(c, kind) ==
  LET back == {e \in Experiments : /\ status[e] = "BLOCKED"
                                   /\ error[e] = "missing_handler"
                                   /\ Kind[e] = kind}
  IN  /\ stage[c] = "starting"
      /\ back # {}
      /\ refunds + Cardinality(back) <= MaxRefunds
      /\ status' = [e \in Experiments |-> IF e \in back THEN "QUEUED" ELSE status[e]]
      /\ attempt' = [e \in Experiments |-> IF e \in back /\ attempt[e] > 0
                                           THEN attempt[e] - 1 ELSE attempt[e]]
      /\ error' = [e \in Experiments |-> IF e \in back THEN "resolved" ELSE error[e]]
      /\ refunds' = refunds + Cardinality(back)
      /\ UNCHANGED <<token, procs, minted>>

\* MUTANT of RecoverScan: recovery forgets the rows without attempts left.
RecoverScanRetryableOnly(c) ==
  /\ stage[c] = "starting"
  /\ scan' = [scan EXCEPT ![c] =
       [requeue |-> {e \in Running : attempt[e] < MaxAttempts[e]}, fail |-> {}]]
  /\ stage' = [stage EXCEPT ![c] = "scanned"]
  /\ UNCHANGED <<rows, owner, claims, minted, refunds>>

\* recover_running_experiments, first half: SELECT the RUNNING rows and
\* decide each one from the attempts it has left.
RecoverScan(c) ==
  /\ stage[c] = "starting"
  /\ scan' = [scan EXCEPT ![c] =
       [requeue |-> {e \in Running : attempt[e] < MaxAttempts[e]},
        fail    |-> {e \in Running : attempt[e] >= MaxAttempts[e]}]]
  /\ stage' = [stage EXCEPT ![c] = "scanned"]
  /\ UNCHANGED <<rows, owner, claims, minted, refunds>>

\* Second half: one transaction of UPDATEs keyed by experiment_id alone; no
\* status and no token is compared.
RecoverCommit(c) ==
  LET hit == scan[c].requeue \cup scan[c].fail
  IN  /\ stage[c] = "scanned"
      /\ status' = [e \in Experiments |->
                      IF e \in scan[c].requeue THEN "QUEUED"
                      ELSE IF e \in scan[c].fail THEN "FAILED" ELSE status[e]]
      /\ error' = [e \in Experiments |-> IF e \in hit THEN "restart" ELSE error[e]]
      /\ token' = [e \in Experiments |-> IF e \in hit THEN 0 ELSE token[e]]
      /\ stage' = [stage EXCEPT ![c] = "serving"]
      /\ scan' = [scan EXCEPT ![c] = NothingRead]
      /\ UNCHANGED <<attempt, owner, claims, minted, refunds>>

-----------------------------------------------------------------------------
(* Enqueueing and claiming.  A controller dispatches only when it holds no *)
(* claim: one experiment, or one parallel batch, is settled before the     *)
(* next is claimed.                                                        *)

Idle(c) == stage[c] = "serving" /\ claims[c] = {}

\* enqueue_experiment: idempotent by id; an existing row is never touched.
Enqueue(c, e) ==
  /\ Idle(c)
  /\ status[e] = "ABSENT"
  /\ status' = [status EXCEPT ![e] = "QUEUED"]
  /\ UNCHANGED <<attempt, token, error, procs, minted, refunds>>

\* The rows ORDER BY priority DESC may put first.
Heads == {e \in Queued : \A f \in Queued : Priority[f] <= Priority[e]}

\* A set of rows becomes RUNNING under fresh tokens, in one transaction.
Claimed(c, batch) ==
  \E fresh \in [batch -> minted + 1 .. minted + Cardinality(batch)] :
    /\ \A e, f \in batch : fresh[e] = fresh[f] => e = f
    /\ status' = [e \in Experiments |-> IF e \in batch THEN "RUNNING" ELSE status[e]]
    /\ attempt' = [e \in Experiments |-> IF e \in batch THEN attempt[e] + 1 ELSE attempt[e]]
    /\ error' = [e \in Experiments |-> IF e \in batch THEN "none" ELSE error[e]]
    /\ token' = [e \in Experiments |-> IF e \in batch THEN fresh[e] ELSE token[e]]
    /\ claims' = [claims EXCEPT ![c] = {[id |-> e, token |-> fresh[e]] : e \in batch}]
    /\ minted' = minted + Cardinality(batch)
    /\ UNCHANGED <<owner, stage, scan, refunds>>

\* claim_next_experiment, reached by the sequential path of the scheduler.
ClaimNext(c) ==
  /\ Idle(c)
  /\ \E e \in Heads : ~(e \in ParallelSafe /\ WorkerLimit > 1) /\ Claimed(c, {e})

\* MUTANT of Clash: the batch does not count ledger writers.
ClashByPipeline(e, f) == Pipeline[e] = Pipeline[f]

\* Two rows the batch scan never selects together.
Clash(e, f) ==
  \/ Pipeline[e] = Pipeline[f]
  \/ e \in LedgerWriters /\ f \in LedgerWriters

\* What the scan of claim_parallel_batch may return: it walks the queue in
\* order, skips rows that clash with one already selected, and stops when
\* worker_limit rows are selected.
IsBatch(batch) ==
  /\ batch # {}
  /\ batch \subseteq Queued \cap ParallelSafe
  /\ Cardinality(batch) <= WorkerLimit
  /\ \A e, f \in batch : e # f => ~Clash(e, f)
  /\ \A e \in (Queued \cap ParallelSafe) \ batch :
       \/ \E f \in batch : Clash(e, f) /\ Priority[f] >= Priority[e]
       \/ /\ Cardinality(batch) = WorkerLimit
          /\ \A f \in batch : Priority[f] >= Priority[e]

\* claim_parallel_batch, reached when the head of the queue is parallel
\* safe and the controller has more than one worker.
ClaimBatch(c) ==
  /\ Idle(c)
  /\ WorkerLimit > 1
  /\ Heads \cap ParallelSafe # {}
  /\ \E batch \in SUBSET (Queued \cap ParallelSafe) : IsBatch(batch) /\ Claimed(c, batch)

-----------------------------------------------------------------------------
(* Settling a claim: every UPDATE compares the status and the token.       *)

Holds(k) == status[k.id] = "RUNNING" /\ token[k.id] = k.token

Settle(c, k, s, why) ==
  /\ k \in claims[c]
  /\ Holds(k)
  /\ status' = [status EXCEPT ![k.id] = s]
  /\ error' = [error EXCEPT ![k.id] = why]
  /\ token' = [token EXCEPT ![k.id] = 0]
  /\ claims' = [claims EXCEPT ![c] = @ \ {k}]
  /\ UNCHANGED <<owner, stage, scan, minted>>

Complete(c, k) == Settle(c, k, "COMPLETED", "none") /\ UNCHANGED <<attempt, refunds>>

\* MUTANT of Fail: the retry test is off by one.
FailOneTooMany(c, k, retryable) ==
  /\ Settle(c, k, IF retryable /\ attempt[k.id] <= MaxAttempts[k.id]
                  THEN "QUEUED" ELSE "FAILED", "worker")
  /\ UNCHANGED <<attempt, refunds>>

Fail(c, k, retryable) ==
  /\ Settle(c, k, IF retryable /\ attempt[k.id] < MaxAttempts[k.id]
                  THEN "QUEUED" ELSE "FAILED", "worker")
  /\ UNCHANGED <<attempt, refunds>>

Block(c, k, why) == Settle(c, k, "BLOCKED", why) /\ UNCHANGED <<attempt, refunds>>

\* MUTANT of Release: the interrupted attempt is not given back.
ReleaseCharged(c, k) ==
  /\ refunds < MaxRefunds
  /\ Settle(c, k, "QUEUED", "shutdown")
  /\ refunds' = refunds + 1
  /\ UNCHANGED attempt

\* release_experiment_claim_for_shutdown: the interrupted attempt is given
\* back.
Release(c, k) ==
  /\ refunds < MaxRefunds
  /\ Settle(c, k, "QUEUED", "shutdown")
  /\ attempt' = [attempt EXCEPT ![k.id] = IF @ > 0 THEN @ - 1 ELSE 0]
  /\ refunds' = refunds + 1

\* block_queued_experiments_by_type: unclaimed rows of one type.
Retire(c, kind) ==
  LET old == {e \in Queued : Kind[e] = kind}
  IN  /\ Idle(c)
      /\ old # {}
      /\ status' = [e \in Experiments |-> IF e \in old THEN "BLOCKED" ELSE status[e]]
      /\ error' = [e \in Experiments |-> IF e \in old THEN "retired" ELSE error[e]]
      /\ UNCHANGED <<attempt, token, procs, minted, refunds>>

-----------------------------------------------------------------------------
Kinds == {Kind[e] : e \in Experiments}

Resolve(c) == \E k \in claims[c] : Complete(c, k) \/ Fail(c, k, TRUE)

Next ==
  \E c \in Controllers :
    \/ Start(c) \/ Crash(c) \/ StopCleanly(c)
    \/ RecoverScan(c) \/ RecoverCommit(c)
    \/ \E kind \in Kinds : ReopenResolved(c, kind) \/ Retire(c, kind)
    \/ \E e \in Experiments : Enqueue(c, e)
    \/ ClaimNext(c) \/ ClaimBatch(c)
    \/ Resolve(c)
    \/ \E k \in claims[c] :
         \/ Fail(c, k, FALSE) \/ Release(c, k)
         \/ \E why \in {"guard", "missing_handler"} : Block(c, k, why)

Spec == Init /\ [][Next]_vars

\* The service manager restarts a controller that is down, and crashes do
\* not for ever strike before the same step.
Fairness ==
  /\ WF_vars(\E c \in Controllers : Start(c))
  /\ SF_vars(\E c \in Controllers : RecoverScan(c))
  /\ SF_vars(\E c \in Controllers : RecoverCommit(c))
  /\ SF_vars(\E c \in Controllers : ClaimNext(c) \/ ClaimBatch(c))
  /\ SF_vars(\E c \in Controllers : Resolve(c))

FairSpec == Spec /\ Fairness

-----------------------------------------------------------------------------
(* Properties.                                                             *)

TypeOK ==
  /\ status \in [Experiments -> Statuses]
  /\ attempt \in [Experiments -> Nat]
  /\ token \in [Experiments -> Nat]
  /\ error \in [Experiments -> Errors]
  /\ owner \in Controllers \cup {NoController}
  /\ stage \in [Controllers -> Stages]
  /\ scan \in [Controllers -> Verdict]
  /\ claims \in [Controllers -> SUBSET Claim]
  /\ minted \in Nat
  /\ refunds \in Nat

\* A row that runs is in somebody's hands: once a controller serves, the
\* claims in its memory are exactly the RUNNING rows with their tokens, so
\* no crash, stop or partial settlement ever leaves a RUNNING row that
\* nobody will settle.
Custody ==
  \A c \in Controllers :
    stage[c] = "serving" => claims[c] = {[id |-> e, token |-> token[e]] : e \in Running}

\* The rows RUNNING at one moment could all have come from one batch: no
\* two share a pipeline or write the data-access ledger, whatever restarts
\* lie between the moments they were claimed.
BatchIsolation ==
  /\ Cardinality(Running) <= WorkerLimit
  /\ \A e, f \in Running : e # f =>
       Pipeline[e] # Pipeline[f] /\ ~({e, f} \subseteq LedgerWriters)

\* The retry budget: a claimable row has an attempt left, no row is ever
\* run more often than its specification allows, and FAILED after a restart
\* is reached only with the budget spent.
AttemptBudget ==
  \A e \in Experiments :
    /\ status[e] = "QUEUED" => attempt[e] < MaxAttempts[e]
    /\ attempt[e] <= MaxAttempts[e]
    /\ status[e] = "RUNNING" => attempt[e] > 0
    /\ status[e] = "FAILED" /\ error[e] = "restart" => attempt[e] = MaxAttempts[e]

\* A scientific outcome is final: no recovery, retry or late settlement
\* reopens a COMPLETED or FAILED row, and a BLOCKED row comes back only if
\* it was blocked for a missing handler.
OutcomeIsFinal ==
  [][\A e \in Experiments :
       /\ status[e] \in {"COMPLETED", "FAILED"} => status'[e] = status[e]
       /\ status[e] = "BLOCKED" /\ status'[e] # "BLOCKED" =>
            error[e] = "missing_handler" /\ status'[e] = "QUEUED"]_vars

\* The queue implements JobLedger: its attempt counter, minus the run in
\* progress or brought to an end otherwise than by failure, is the number of
\* wasted runs, so that a crash charges the interrupted run, a clean
\* shutdown and a reopened row do not, and no settled job is run again.
JobPhase ==
  [ABSENT |-> "none", QUEUED |-> "waiting", RUNNING |-> "active",
   COMPLETED |-> "done", FAILED |-> "dead", BLOCKED |-> "shelved"]

Unwasted(e) ==
  \/ status[e] \in {"RUNNING", "COMPLETED"}
  \/ status[e] = "BLOCKED" /\ error[e] # "retired"

JobOf == [e \in Experiments |-> JobPhase[status[e]]]
SpentOf == [e \in Experiments |-> IF Unwasted(e) THEN attempt[e] - 1 ELSE attempt[e]]

Ledger == INSTANCE JobLedger WITH
  Jobs <- Experiments, Budget <- MaxAttempts, job <- JobOf, spent <- SpentOf

ImplementsLedger == Ledger!Spec

\* The strengthening under which the safety properties above are inductive:
\* only the holder of the lock is up, only a serving controller has claims,
\* while it waits to be applied the verdict of recovery still describes the
\* RUNNING rows, and a run that was not wasted has been counted.
LockHeld == \A c \in Controllers : stage[c] # "down" => owner = c

ClaimsAreServed == \A c \in Controllers : stage[c] # "serving" => claims[c] = {}

ScanIsCurrent ==
  \A c \in Controllers : stage[c] = "scanned" =>
    /\ scan[c].requeue = {e \in Running : attempt[e] < MaxAttempts[e]}
    /\ scan[c].fail = {e \in Running : attempt[e] >= MaxAttempts[e]}

RunsAreCounted ==
  \A e \in Experiments :
    /\ Unwasted(e) => attempt[e] > 0
    /\ status[e] = "ABSENT" => attempt[e] = 0

IInv ==
  /\ TypeOK /\ LockHeld /\ ClaimsAreServed /\ ScanIsCurrent /\ RunsAreCounted
  /\ Custody /\ AttemptBudget

\* Again and again everything that was queued is settled, across crashes,
\* clean stops and retries: no row stays queued or running for ever.
EventuallySettled ==
  []<>(\A e \in Experiments : status[e] \notin {"QUEUED", "RUNNING"})
=============================================================================
