------------------------------ MODULE JobSteps ------------------------------
(***************************************************************************)
(* What a research job does, step by step, as far as its files tell: the   *)
(* numbers in between are left out.  A job is a sequence of steps; a step  *)
(* names an operation and what it is done to.  What each does is said in   *)
(* ResearchWorker.                                                         *)
(*                                                                         *)
(* The inputs of a job:                                                    *)
(*   code      the checkout, with the historical report that it contains   *)
(*   task      the engineering task that preregisters the job              *)
(*   map       the contract map                                            *)
(*   manifest  the frozen preregistration that lists the market data       *)
(*   bars      the market data                                             *)
(*   parent    results and ledgers of earlier jobs the specification names *)
(*   bank      whatever earlier jobs are found on disk, and the registry   *)
(* Files written in a row count as one artifact.                           *)
(***************************************************************************)
EXTENDS Sequences

Inputs == {"code", "task", "map", "manifest", "bars", "parent", "bank"}

Step(op, S) == <<[op |-> op, on |-> S]>>

\* Compare the files with the hashes of the specification, or raise.
Check(S) == Step("check", S)
\* Read the files, whatever they contain by now.
Use(S) == Step("use", S)
\* git rev-parse HEAD against the commit of the specification.
AtCommit == Check({"code"})

\* Write an artifact unless it is there, raise if what is there differs:
\* through a temporary file and os.replace, or straight into the file.
Keep(a) == Step("keep", {a})
Put(a) == Step("put", {a})
\* Keep an artifact that contains the time the job has taken so far.
Stamp(a) == Step("stamp", {a})
\* Compare the artifacts that are there with what is to be written, raise if
\* one differs, and only then write.
Match(S) == Step("match", S)
\* Write an artifact, whatever is there.
Overwrite(a) == Step("overwrite", {a})
\* Read what earlier jobs of this kind left on disk: an own earlier artifacts
\* S are among it.
Recall(S) == Step("recall", S)

\* Append a row to the shared ledger of data accesses: once, or each time.
Record == Step("record", {"once"})
RecordAgain == Step("record", {"again"})

\* Choose among candidates by selection data; look at the confirmation data
\* of what was chosen.
Select == Step("select", {})
Confirm == Step("confirm", {})

\* Raise if the data are not what they must be.
Prove == Step("prove", {})
\* Write a shadow configuration, in place, for what was admitted.
Configure == Step("configure", {"config"})
\* Reach one of the conclusions F.
Decide(F) == Step("decide", F)

\* The file checks nearly all jobs begin with, the map's meaning included.
Frozen == Check({"task", "map"}) \o Use({"map"}) \o AtCommit
\* The data files against the manifest, the manifest against its hash.
Governed == Check({"manifest"}) \o Use({"manifest"}) \o Check({"bars", "map"})
\* The bars are annotated with the contract map while they are read.
ReadBars == Use({"bars", "map"})
\* How nearly all jobs end.
Results == Keep("result") \o Keep("report")
\* The result of these contains the time the job took.
TimedResults == Stamp("result") \o Keep("report")
=============================================================================
