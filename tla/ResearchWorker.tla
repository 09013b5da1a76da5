---------------------------- MODULE ResearchWorker ----------------------------
(***************************************************************************)
(* A research job in its worker process.  A worker may be killed between   *)
(* any two steps, with the controller or by it, and a job that failed may  *)
(* be retried: the next attempt runs the whole program again over the      *)
(* files its predecessor left.  Meanwhile the inputs may change: other     *)
(* jobs write to the same registry, a person deploys another commit or     *)
(* repairs a contract map.                                                 *)
(*                                                                         *)
(* A computation is abstracted to what it rests on: its basis, the inputs  *)
(* that had changed when they were read.  Two attempts with one basis      *)
(* compute the same; with different bases they are taken to differ.        *)
(***************************************************************************)
EXTENDS JobPrograms, Naturals, FiniteSets, CampaignRoutes

CONSTANTS
  Jobs,         \* the jobs of the instance, names of run_experiment
  MaxAttempts,  \* BOUND: attempts of a job, refunded ones included
  MaxDrifts     \* BOUND: inputs that change

(***************************************************************************)
(* What the programs have in common, whatever else they do: TLC evaluates  *)
(* it for every job of an instance, and the proofs rest on nothing else    *)
(* that is said of a program.                                              *)
(***************************************************************************)
StepsOf(p, op) == {i \in 1 .. Len(p) : p[i].op = op}
Writers(p) ==
  {i \in 1 .. Len(p) :
     p[i].op \in {"keep", "stamp", "put", "configure", "overwrite"}}

\* Step f freezes what step s, the last that selects, has chosen: nothing is
\* read in between, the file is never overwritten, and every look comes later.
Freezes(p, s, f) ==
  /\ s < f /\ \A i \in StepsOf(p, "select") : i <= s
  /\ \A i \in StepsOf(p, "confirm") : f < i
  /\ \A i \in s + 1 .. f - 1 : p[i].op \notin {"use", "recall"}
  /\ \A i \in StepsOf(p, "overwrite") : p[i].on \cap p[f].on = {}
  /\ p[f].on # {} /\ \A a, b \in p[f].on : a = b
SelectionIsFrozen(p) ==
  \/ StepsOf(p, "select") = {} \/ StepsOf(p, "confirm") = {}
  \/ \E s \in StepsOf(p, "select"),
        f \in StepsOf(p, "keep") \cup StepsOf(p, "put") : Freezes(p, s, f)

\* An artifact is written once, and compared before it is written.
WrittenOnce(p) ==
  \A i \in Writers(p), k \in Writers(p) \cup StepsOf(p, "match") :
    i < k /\ p[k].op # "overwrite" => p[i].on \cap p[k].on = {}

ReadsOf(p) == {i \in StepsOf(p, "use") : "bars" \in p[i].on}
ReadsAreRecorded(p) == \A i \in ReadsOf(p) : \E r \in StepsOf(p, "record") : r < i
RecordsOnce(p) == \A r \in StepsOf(p, "record") : "once" \in p[r].on

\* Every input that is read, the code included, is compared at some step.
Guarded(p, unguarded) ==
  \A x \in Inputs \ unguarded :
    x = "code" \/ (\E i \in StepsOf(p, "use") \cup StepsOf(p, "recall") : x \in p[i].on) =>
      \E c \in StepsOf(p, "check") : x \in p[c].on

DecidesWithin(p, F) ==
  StepsOf(p, "decide") # {} /\ \A d \in StepsOf(p, "decide") : p[d].on \subseteq F

\* These append a row to the ledger at each attempt, and look at the
\* confirmation data before anything is on disk.
Unfrozen == {"preclose", "mini_micro"}
\* Jobs that do not look at the commit, and those that read features from a
\* cache instead of the bars.
AtAnyCommit ==
  {"design", "post_design", "pilot", "foundry", "mutation", "role_research",
   "feed_audit", "halving", "admission", "role_epoch", "preclose",
   "mini_micro"}
FromCache == {"turbo", "v5", "v6"}
\* The inputs that nothing compares with the specification of a job.
Unguarded(j) ==
  {"bank"} \cup (IF j \in AtAnyCommit THEN {"code"} ELSE {})
    \cup (IF j \in FromCache THEN {"bars"} ELSE {})

ASSUME WorkerAssumption ==
  Jobs \subseteq DOMAIN run_experiment /\ MaxAttempts \in Nat \ {0}
    /\ MaxDrifts \in Nat

ASSUME ProgramAssumption ==
  \A j \in Jobs :
    LET p == run_experiment[j]
    IN  /\ p \in Seq([op : STRING, on : SUBSET STRING])
        /\ WrittenOnce(p) /\ Guarded(p, Unguarded(j))
        /\ \A r, q \in StepsOf(p, "record") : r = q
        /\ j \notin Unfrozen => SelectionIsFrozen(p) /\ RecordsOnce(p)
        /\ j # "contract_map" => ReadsAreRecorded(p)
        /\ j \in DOMAIN Route => DecidesWithin(p, DOMAIN Route[j])

VARIABLES
  job, at, attempt,   \* the job, its next step, its attempts so far
  outcome,            \* "queued", "running", "published" or "refused"
  cause,              \* why it was refused
  drifted,            \* the inputs that differ from the specification
  stale,              \* those that did when the attempt began
  basis,              \* what the computation rests on so far
  disk,               \* the artifacts of the job, with their content
  meant,              \* what this attempt wrote, or found written
  rows,               \* the rows of the job in the ledger of data accesses
  chosen,             \* the basis of the selection
  looked,             \* the selections whose confirmation data were read
  fate,               \* the answers that each computation gives
  finding             \* the conclusion
vars == <<job, at, attempt, outcome, cause, drifted, stale, basis, disk, meant,
          rows, chosen, looked, fate, finding>>
files == <<disk, meant>>
access == <<rows, chosen, looked>>
answers == <<fate, finding>>
run == <<job, attempt, drifted, stale>>

Content(S, n) == [of |-> S, attempt |-> n]
\* A file whose writer was killed between its creation and its last byte.
Torn == Content({"torn"}, 0)
Nothing == [a \in {} |-> Torn]
\* The files f with a written.
With(f, a, c) == [b \in DOMAIN f \cup {a} |-> IF b = a THEN c ELSE f[b]]

WorkerInit ==
  /\ job \in Jobs /\ at = 0 /\ attempt = 1 /\ outcome = "queued"
  /\ cause = "none" /\ drifted = {} /\ stale = {} /\ basis = {}
  /\ disk = Nothing /\ meant = Nothing /\ rows = 0 /\ chosen = {}
  /\ looked = {} /\ fate = <<>> /\ finding = "none"

-----------------------------------------------------------------------------
Program == run_experiment[job]
Doing(op) ==
  outcome = "running" /\ at <= Len(Program) /\ Program[at].op = op
On == Program[at].on
Advance == at' = at + 1 /\ UNCHANGED <<outcome, cause>>
Refuse(c) == outcome' = "refused" /\ cause' = c /\ UNCHANGED at
Require(holds, c) == IF holds THEN Advance ELSE Refuse(c)

\* The worker is spawned, so it imports the code as it is by now.
Begin ==
  /\ outcome = "queued"
  /\ outcome' = "running" /\ at' = 1
  /\ stale' = drifted /\ basis' = drifted \cap {"code"}
  /\ meant' = Nothing /\ chosen' = {}
  /\ UNCHANGED <<job, attempt, cause, drifted, disk, rows, looked, answers>>

CheckFiles ==
  /\ Doing("check") /\ Require(On \cap drifted = {}, "changed")
  /\ UNCHANGED <<run, basis, files, access, answers>>

UseFiles ==
  /\ Doing("use") /\ Advance
  /\ basis' = basis \cup (On \cap drifted)
  /\ UNCHANGED <<run, files, access, answers>>

\* Own artifacts among what is recalled are results of an earlier attempt.
RecallFiles ==
  /\ Doing("recall") /\ Advance
  /\ basis' = basis \cup (On \cap DOMAIN disk)
  /\ UNCHANGED <<run, files, access, answers>>

\* _write_immutable: leave an equal file alone, refuse a different one.
Immutable(a, c) ==
  /\ Require(a \in DOMAIN disk => disk[a] = c, "divergent")
  /\ disk' = IF a \in DOMAIN disk THEN disk ELSE With(disk, a, c)
  /\ meant' = With(meant, a, c)

\* MUTANT of KeepArtifact: a file that differs is left as it is.
KeepIfDifferent ==
  /\ Doing("keep") /\ Advance
  /\ \E a \in On :
       /\ disk' = disk @@ (a :> Content(basis, 0))
       /\ meant' = With(meant, a, disk'[a])
  /\ UNCHANGED <<run, basis, access, answers>>

\* MUTANT of KeepArtifact: the artifact tells when it was written.
KeepDated ==
  /\ Doing("keep")
  /\ \E a \in On : Immutable(a, Content(basis, attempt))
  /\ UNCHANGED <<run, basis, access, answers>>

KeepArtifact ==
  /\ Doing("keep")
  /\ \E a \in On : Immutable(a, Content(basis, 0))
  /\ UNCHANGED <<run, basis, access, answers>>

StampArtifact ==
  /\ Doing("stamp")
  /\ \E a \in On : Immutable(a, Content(basis, attempt))
  /\ UNCHANGED <<run, basis, access, answers>>

\* MUTANT of PutArtifact: a file that exists is taken to be complete.
PutUnlessThere ==
  /\ Doing("put") /\ Advance
  /\ \E a \in On :
       /\ disk' = disk @@ (a :> Content(basis, 0))
       /\ meant' = With(meant, a, Content(basis, 0))
  /\ UNCHANGED <<run, basis, access, answers>>

PutArtifact ==
  /\ Doing("put")
  /\ \E a \in On : Immutable(a, Content(basis, 0))
  /\ UNCHANGED <<run, basis, access, answers>>

MatchArtifacts ==
  /\ Doing("match")
  /\ Require(\A a \in On \cap DOMAIN disk : disk[a] = Content(basis, 0),
             "divergent")
  /\ UNCHANGED <<run, basis, files, access, answers>>

OverwriteArtifact ==
  /\ Doing("overwrite") /\ Advance
  /\ \E a \in On :
       /\ disk' = With(disk, a, Content(basis, 0))
       /\ meant' = With(meant, a, Content(basis, 0))
  /\ UNCHANGED <<run, basis, access, answers>>

RecordAccess ==
  /\ Doing("record") /\ Advance
  /\ rows' = IF "once" \in On /\ rows > 0 THEN rows ELSE rows + 1
  /\ UNCHANGED <<run, basis, files, chosen, looked, answers>>

SelectCandidates ==
  /\ Doing("select") /\ Advance /\ chosen' = basis
  /\ UNCHANGED <<run, basis, files, rows, looked, answers>>

ConfirmCandidates ==
  /\ Doing("confirm") /\ Advance /\ looked' = looked \cup {chosen}
  /\ UNCHANGED <<run, basis, files, rows, chosen, answers>>

\* What the computation says at this step: the same whenever it is repeated.
Answer(A, a) ==
  /\ a \in A
  /\ IF <<at, basis>> \in DOMAIN fate
       THEN fate[<<at, basis>>] = a /\ UNCHANGED fate
       ELSE fate' = fate @@ (<<at, basis>> :> a)

ProveData ==
  /\ Doing("prove")
  /\ \E sound \in BOOLEAN :
       Answer(BOOLEAN, sound) /\ Require(sound, "flawed")
  /\ UNCHANGED <<run, basis, files, access, finding>>

ConfigureShadow ==
  /\ Doing("configure")
  /\ \E admitted \in BOOLEAN :
       /\ Answer(BOOLEAN, admitted)
       /\ IF admitted THEN \E a \in On : Immutable(a, Content(basis, 0))
          ELSE Advance /\ UNCHANGED files
  /\ UNCHANGED <<run, basis, access, finding>>

Conclude ==
  /\ Doing("decide") /\ Advance
  /\ finding' \in On /\ Answer(On, finding')
  /\ UNCHANGED <<run, basis, files, access>>

\* The envelope goes through a temporary file and os.replace.
Publish ==
  /\ outcome = "running" /\ at > Len(Program)
  /\ outcome' = "published"
  /\ UNCHANGED <<run, at, cause, basis, files, access, answers>>

-----------------------------------------------------------------------------
\* The row goes back to the queue: the worker was killed, or the failure is
\* worth another attempt.
Again ==
  /\ attempt < MaxAttempts
  /\ attempt' = attempt + 1 /\ outcome' = "queued" /\ cause' = "none"
  /\ UNCHANGED <<job, at, drifted, stale, basis, meant, access, answers>>
Retry == outcome \in {"running", "refused"} /\ Again /\ UNCHANGED disk
\* Killed while a file is written in place.
Tear ==
  /\ Doing("put") \/ Doing("configure") \/ Doing("overwrite")
  /\ Again
  /\ \E a \in On :
       /\ Doing("overwrite") \/ a \notin DOMAIN disk
       /\ disk' = With(disk, a, Torn)

Drift ==
  /\ outcome \in {"queued", "running"} /\ Cardinality(drifted) < MaxDrifts
  /\ \E i \in Inputs \ drifted : drifted' = drifted \cup {i}
  /\ UNCHANGED <<job, at, attempt, outcome, cause, stale, basis, files, access,
                 answers>>

WorkerNext ==
  \/ Begin \/ CheckFiles \/ UseFiles \/ RecallFiles
  \/ KeepArtifact \/ StampArtifact \/ PutArtifact \/ MatchArtifacts
  \/ OverwriteArtifact \/ RecordAccess
  \/ SelectCandidates \/ ConfirmCandidates
  \/ ProveData \/ ConfigureShadow \/ Conclude
  \/ Publish \/ Retry \/ Tear \/ Drift

WorkerSpec == WorkerInit /\ [][WorkerNext]_vars

-----------------------------------------------------------------------------
Steps(op) == StepsOf(Program, op)
Reads == ReadsOf(Program)

\* Types.
WorkerTypeOK ==
  /\ job \in Jobs /\ at \in 0 .. Len(Program) + 1
  /\ attempt \in 1 .. MaxAttempts
  /\ outcome \in {"queued", "running", "published", "refused"}
  /\ cause \in {"none", "changed", "divergent", "flawed"}
  /\ drifted \subseteq Inputs /\ stale \subseteq drifted
  /\ rows \in 0 .. MaxAttempts

(***************************************************************************)
(* However often a tournament is interrupted, and whatever changes in the  *)
(* meantime, the confirmation data of 2024 are only ever looked at for one *)
(* selection: the selection is frozen in a file before the first look, and *)
(* an attempt that chooses otherwise is refused by that file.              *)
(***************************************************************************)
OneSelection == job \notin Unfrozen => Cardinality(looked) <= 1

(***************************************************************************)
(* An interruption costs nothing but time: while the inputs are those of   *)
(* the specification, only the data can make a job fail.  The exceptions   *)
(* are what the retry finds of its predecessor: a file cut off in the      *)
(* middle, a result that contains the time it took, and a population that  *)
(* is mistaken for that of another epoch.                                  *)
(***************************************************************************)
RetryIsFree ==
  outcome = "refused" /\ drifted = {} =>
    \/ cause = "flawed"
    \/ \E a \in DOMAIN disk : disk[a] = Torn
    \/ attempt > 1 /\ Steps("stamp") \cup Steps("recall") # {}

\* No data are read before the access is on the ledger, in one row.  The
\* repair of the contract map only inspects them.
Recorded ==
  /\ job # "contract_map" => \A i \in Reads : at > i => rows > 0
  /\ job \notin Unfrozen => rows <= 1
\* Every artifact is what the run that is published computed.
Whole == \A a \in DOMAIN meant : disk[a] = meant[a]
\* It rests on no input that had changed before it began.
Fresh == basis \cap stale \subseteq Unguarded(job)
\* The controller knows what to do with the conclusion; those of the engines
\* are routed in Generations.
Routable == job \in DOMAIN Route => finding \in DOMAIN Route[job]

(***************************************************************************)
(* What is published is evidence: its data accesses are on the ledger, its *)
(* artifacts are complete and of the run that concluded, it rests on the   *)
(* inputs that were preregistered, and the controller has a route for it.  *)
(***************************************************************************)
EvidenceHolds ==
  Recorded /\ (outcome = "published" => Whole /\ Fresh /\ Routable)
-----------------------------------------------------------------------------
(* Why these hold: the parts of an inductive invariant.                     *)

Alive == outcome \in {"running", "published"}

\* Between the choice and its file the computation rests on what it chose by;
\* after the file it is what was chosen, as was everything looked at before.
HeldBy(s, f) ==
  /\ outcome = "running" /\ s < at /\ at <= f => basis = chosen
  /\ \A a \in Program[f].on :
       /\ outcome = "running" /\ f < at =>
            a \in DOMAIN disk /\ disk[a] = Content(chosen, 0)
       /\ \A S \in looked : a \in DOMAIN disk /\ disk[a] = Content(S, 0)
SelectionHeld ==
  job \notin Unfrozen =>
    \/ Steps("confirm") = {} /\ looked = {}
    \/ Steps("select") = {} /\ chosen = {} /\ looked \subseteq {{}}
    \/ \E s \in Steps("select"), f \in Steps("keep") \cup Steps("put") :
         Freezes(Program, s, f) /\ HeldBy(s, f)

\* Without drift a job that neither stamps nor recalls computes one thing.
OneResult ==
  drifted = {} /\ Steps("stamp") \cup Steps("recall") = {} =>
    basis = {} /\ \A a \in DOMAIN disk : disk[a] \in {Content({}, 0), Torn}
\* The first attempt finds nothing but what it has written itself.
OwnFiles ==
  attempt = 1 =>
    \A a \in DOMAIN disk :
      /\ outcome # "queued"
      /\ \E i \in Writers(Program) : i < at /\ a \in Program[i].on

RowsCounted ==
  /\ \A r \in Steps("record") : r < at => rows > 0
  /\ job \notin Unfrozen => rows <= 1
  /\ rows <= attempt
  /\ outcome = "queued" \/ (\A r \in Steps("record") : at <= r) => rows < attempt

WholeSoFar ==
  Alive => \A a \in DOMAIN meant : a \in DOMAIN disk /\ disk[a] = meant[a]
Compared ==
  Alive =>
    /\ \A c \in Steps("check") : c < at => Program[c].on \cap stale = {}
    /\ \A x \in basis :
         x = "code" \/ \E i \in Steps("use") \cup Steps("recall") : x \in Program[i].on
Concluded ==
  Alive /\ (\E d \in Steps("decide") : d < at) =>
    \E d \in Steps("decide") : finding \in Program[d].on

WorkerInv ==
  /\ WorkerTypeOK /\ SelectionHeld /\ OneResult /\ OwnFiles /\ RetryIsFree
  /\ RowsCounted /\ WholeSoFar /\ Compared /\ Concluded
  /\ outcome = "queued" \/ at > 0
  /\ outcome = "published" => at > Len(Program)
=============================================================================
