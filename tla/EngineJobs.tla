------------------------------ MODULE EngineJobs ------------------------------
(***************************************************************************)
(* The jobs around the tournaments that work on ledgers of earlier jobs,   *)
(* the two last tournaments, and the epochs of the discovery engines.      *)
(***************************************************************************)
EXTENDS JobSteps

baskets_replay ==
  Check({"task"}) \o AtCommit \o Check({"parent"}) \o Use({"parent"}) \o Prove
    \o Keep("configurations") \o Decide({"three", "fewer"})
baskets_conclude == Keep("summary") \o TimedResults
meta ==
  Check({"task", "parent"}) \o AtCommit \o Use({"parent"}) \o Prove
    \o Decide({"done"}) \o TimedResults

\* Reports that are written anew by each run, at whatever commit.
mutation ==
  Check({"parent"}) \o Use({"parent"}) \o Prove \o Overwrite("ledger")
    \o Decide({"done"}) \o Overwrite("result")
role_research ==
  Check({"parent"}) \o Use({"parent"}) \o Prove \o Decide({"done"})
    \o Overwrite("result")
feed_audit ==
  Check({"parent"}) \o Use({"parent"}) \o Decide({"done"})
    \o Overwrite("result")
halving ==
  Check({"task", "parent"}) \o Use({"parent"}) \o Prove
    \o Decide({"selected", "none"}) \o Overwrite("evidence")
    \o Overwrite("result")

\* The configuration of the parent is compared again at the end.
admission_replay ==
  Check({"task", "parent"}) \o Use({"parent"}) \o Prove \o Configure
admission_decide ==
  Prove \o Check({"parent"}) \o Keep("decision") \o Decide({"one", "none"})
    \o Results

role_epoch_prepare ==
  Check({"parent", "task"}) \o Use({"parent"}) \o Prove
role_epoch_conclude ==
  Keep("evidence") \o Decide({"promising", "insufficient"}) \o Results

\* These two append a row at each attempt, and write nothing before the
\* confirmation data are read.
preclose_prepare ==
  Check({"task", "bars", "map"}) \o Use({"map"}) \o RecordAgain \o ReadBars
preclose_confirm == Select \o Confirm
preclose_conclude ==
  Keep("evidence") \o Decide({"promising", "insufficient"}) \o Keep("report")
    \o Keep("result")
mini_micro_prepare ==
  Check({"task", "bars", "map"}) \o Use({"map"}) \o RecordAgain \o ReadBars
    \o Prove
mini_micro_select == Select
mini_micro_confirm == Confirm
mini_micro_conclude ==
  Keep("evidence") \o Decide({"promising", "insufficient"}) \o Keep("report")
    \o Keep("result")

\* The epochs look for their predecessors in all directories, their own
\* included; the market data come from a cache of features.
turbo_prepare ==
  Check({"task", "map"}) \o AtCommit \o Keep("prereg") \o Record \o ReadBars
turbo_generate ==
  Recall({"population"}) \o Prove \o Keep("population") \o Keep("stage1")
    \o Use({"bank"})
turbo_evaluate ==
  Prove \o Keep("exact") \o Prove \o Decide({"done"}) \o Stamp("result")
    \o Stamp("report")

v5_prepare ==
  Check({"task", "map"}) \o AtCommit \o Keep("prereg") \o Record \o ReadBars
v5_generate ==
  Recall({"population", "mutations"}) \o Prove \o Keep("population")
    \o Keep("screen") \o Use({"bank"})
v5_evaluate == Keep("rolling") \o Keep("children") \o Keep("mutations")
v5_conclude == Decide({"done"}) \o Stamp("result") \o Stamp("report")

v6_prepare ==
  Check({"task", "map"}) \o AtCommit \o Keep("prereg") \o Record \o ReadBars
    \o Use({"bank"}) \o Prove \o Recall({"screen", "baskets", "targets"})
v6_generate ==
  Keep("screen") \o Keep("exact") \o Keep("targets") \o Keep("admissions")
    \o Overwrite("bank_manifest")
v6_evaluate == Prove \o Keep("baskets")
v6_ledgers == Keep("ledger")
v6_conclude == Decide({"done"}) \o Stamp("result") \o Stamp("report")

promotion_replay ==
  Check({"parent", "task"}) \o AtCommit \o Use({"parent"}) \o Prove
promotion_freeze == Decide({"done"}) \o Put("result") \o Put("report")

conversion_prepare ==
  Prove \o Check({"task", "parent", "map"}) \o AtCommit \o Use({"parent"})
    \o Prove
conversion_validate == Prove
conversion_freeze ==
  Keep("cohort") \o Decide({"done"}) \o Stamp("result") \o Keep("report")

bridge ==
  Check({"parent"}) \o Prove \o AtCommit \o Use({"parent"}) \o Prove
    \o Keep("packages") \o Decide({"done"}) \o Results
=============================================================================
