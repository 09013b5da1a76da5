---------------------------- MODULE TournamentJobs ----------------------------
(***************************************************************************)
(* The tournaments: candidates are chosen by the data of 2023 and frozen   *)
(* in a file before the same run looks at 2024.  Then the single-candidate *)
(* tests that follow up a tournament, which choose nothing.                *)
(*                                                                         *)
(* An artifact that is written only when there is something to write, such *)
(* as the child of a repair, is taken to be written.                       *)
(***************************************************************************)
EXTENDS JobSteps

\* The later ones are given their data files, each with its hash.
Pinned == Check({"task", "bars", "map"}) \o AtCommit \o Use({"map"})

qd_prepare ==
  Frozen \o Governed \o Prove \o Keep("prereg") \o Record \o ReadBars

qd_select == Select \o Put("elites")

qd_confirm == Confirm \o Prove
qd_conclude ==
  Configure \o Decide({"shadow", "promising", "none"}) \o Keep("dispositions")
    \o Keep("ledger") \o Prove
qd_report == TimedResults

\* From here to the barrier the access is recorded before the data files are
\* compared with their manifest.
accelerated_prepare ==
  Frozen \o Prove \o Keep("prereg") \o Record \o Governed \o ReadBars
accelerated_select == Select \o Put("elites")
accelerated_confirm == Confirm \o Prove
accelerated_conclude ==
  Configure \o Keep("ledger") \o Prove \o Decide({"done"}) \o TimedResults

primary_context_prepare ==
  Check({"task", "map", "parent"}) \o Use({"parent"}) \o Prove
    \o Use({"map"}) \o AtCommit \o Prove \o Keep("prereg") \o Record
    \o Governed \o ReadBars \o Prove
primary_context_select == Select \o Put("archive") \o Keep("primary")
primary_context_confirm == Confirm \o Prove
primary_context_conclude ==
  Configure \o Keep("ledger") \o Prove
    \o Decide({"shadow", "promising", "no_primary", "falsified"})
    \o TimedResults

counterfactual_prepare ==
  Frozen \o Prove \o Keep("prereg") \o Record \o Governed \o ReadBars \o Prove
counterfactual_select == Select \o Keep("archive") \o Keep("primary")
counterfactual_confirm == Confirm \o Prove
counterfactual_conclude ==
  Configure \o Keep("ledger") \o Prove
    \o Decide({"shadow", "promising", "no_primary", "falsified"})
    \o TimedResults

barrier_prepare ==
  Frozen \o Prove \o Keep("prereg") \o Record \o Governed \o ReadBars \o Prove
barrier_select == Select \o Keep("archive") \o Keep("primary")
barrier_confirm == Confirm \o Prove
barrier_conclude ==
  Configure \o Keep("ledger") \o Prove
    \o Decide({"shadow", "promising", "none"}) \o TimedResults

\* These read the data of 2023 alone first, and all of them for the winner.
energy_metals_prepare ==
  Pinned \o Prove \o Keep("prereg") \o Record \o ReadBars \o Prove
energy_metals_select == Select \o Keep("primary")
energy_metals_confirm == ReadBars \o Confirm \o Prove
energy_metals_conclude ==
  Configure \o Decide({"shadow", "promising", "none"}) \o Keep("ledger")
    \o Prove \o TimedResults

session_geometry_prepare ==
  Check({"task", "bars", "map"}) \o Use({"map"}) \o AtCommit \o Prove
    \o Keep("prereg") \o Record \o ReadBars
session_geometry_select == Select \o Keep("primary")
session_geometry_confirm == ReadBars \o Confirm \o Prove
session_geometry_conclude ==
  Configure \o Decide({"shadow", "promising", "none"}) \o Keep("ledger")
    \o Prove \o TimedResults

cross_asset_prepare == Pinned \o Prove \o Keep("prereg") \o Record \o ReadBars
cross_asset_select == Select \o Keep("elites")
cross_asset_confirm == ReadBars \o Confirm \o Prove
cross_asset_conclude ==
  Configure \o Decide({"shadow", "several", "none"}) \o Keep("ledger")
    \o Prove \o TimedResults

causal_prepare ==
  Pinned \o Prove \o Keep("prereg") \o Record \o Prove \o ReadBars
causal_select == Select \o Keep("elites")
causal_confirm == ReadBars \o Confirm \o Prove
causal_conclude ==
  Configure \o Decide({"shadow", "one", "several", "none"}) \o Keep("ledger")
    \o Prove \o TimedResults

\* One candidate, fixed by the preregistration.
micro_repair_prepare ==
  Check({"task", "bars", "map", "parent"}) \o Use({"parent"}) \o Prove
    \o AtCommit \o Use({"map"}) \o Prove \o Keep("prereg") \o Record
    \o ReadBars \o Use({"parent"}) \o Prove
micro_repair_confirm ==
  Confirm \o Prove \o Configure
micro_repair_conclude ==
  Decide({"shadow", "falsified"}) \o Keep("ledger") \o Prove \o TimedResults

gc_fresh_prepare ==
  Check({"task", "bars", "map", "parent"}) \o AtCommit \o Use({"parent"})
    \o Prove \o Use({"map"}) \o Prove \o Keep("prereg") \o Record \o ReadBars
gc_fresh_confirm == Prove \o Confirm \o Prove \o Configure
gc_fresh_conclude ==
  Decide({"shadow", "falsified"}) \o Keep("ledger") \o Prove \o TimedResults

survival_prepare == Pinned \o Keep("prereg") \o Record \o ReadBars
survival_models == Keep("models")
survival_conclude ==
  Decide({"robust", "insufficient", "uncontrolled"}) \o Prove \o TimedResults

rty_null_prepare ==
  Check({"task", "bars", "map", "parent"}) \o AtCommit \o Use({"parent"})
    \o Prove \o Use({"map"}) \o Keep("prereg") \o Record \o ReadBars
rty_null_match == Keep("child") \o Keep("ledger")
rty_null_conclude == Decide({"supported", "none"}) \o TimedResults
=============================================================================
