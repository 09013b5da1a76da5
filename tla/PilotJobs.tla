----------------------------- MODULE PilotJobs -----------------------------
(***************************************************************************)
(* The economic pilots: each tests candidates that are fixed before any    *)
(* data are read, and admits some of them to the shadow.                   *)
(***************************************************************************)
EXTENDS JobSteps

equity_open_gap_prepare == Frozen \o Governed \o Keep("prereg") \o Record
equity_open_gap_candidates == ReadBars \o Prove \o Configure \o Keep("ledger")
equity_open_gap_conclude ==
  Prove \o Decide({"shadow", "promising", "falsified"}) \o Results

continuation_prepare ==
  Check({"task", "map", "parent"}) \o Use({"parent"}) \o Prove
    \o Use({"map"}) \o AtCommit \o Governed \o Keep("prereg") \o Record
continuation_candidates == ReadBars \o Prove \o Configure \o Keep("ledger")
continuation_conclude ==
  Prove \o Decide({"q4", "shadow", "none"}) \o Results

q4_freeze_authorize ==
  Check({"parent"}) \o AtCommit \o Use({"parent"}) \o Prove
q4_freeze_freeze == Keep("manifest") \o Decide({"ready"}) \o Results

opening_hazard_prepare == Frozen \o Governed \o Keep("prereg") \o Record
opening_hazard_candidates ==
  ReadBars \o Keep("model") \o Prove \o Configure \o Keep("ledger")
opening_hazard_conclude == Prove \o Decide({"eligible", "none"}) \o Results

cross_ecology_prepare == Frozen \o Governed \o Keep("prereg") \o Record
cross_ecology_candidates == ReadBars \o Prove \o Configure \o Keep("ledger")
cross_ecology_conclude ==
  Prove \o Decide({"shadow", "promising", "none"}) \o Results

mtf_prepare == Frozen \o Governed \o Keep("prereg") \o Record
mtf_candidates == ReadBars \o Prove \o Configure \o Keep("ledger")
mtf_conclude == Prove \o Decide({"shadow", "promising", "none"}) \o Results

rty_ym_prepare == Frozen \o Governed \o Keep("prereg") \o Record
rty_ym_candidates == ReadBars \o Prove \o Configure \o Keep("ledger")
rty_ym_conclude == Prove \o Decide({"shadow", "promising", "none"}) \o Results

\* The overlay also needs the parent's result and its ledger to agree.
ym_risk_off_prepare ==
  Check({"task", "map", "parent"}) \o Use({"parent"}) \o Prove
    \o Use({"map"}) \o AtCommit \o Governed \o Keep("prereg") \o Record
ym_risk_off_evaluate == ReadBars \o Use({"parent"}) \o Prove
ym_risk_off_conclude ==
  Configure \o Keep("ledger") \o Decide({"shadow", "promising", "none"})
    \o Results

\* A replay of the parent's ledger; the ledger of the candidate comes last.
ym_strict_prepare ==
  Check({"parent", "task", "map"}) \o AtCommit \o Use({"map", "parent"})
    \o Prove \o Keep("prereg")
ym_strict_replay ==
  Use({"parent"}) \o Prove \o Decide({"invalid", "eligible"}) \o Results
    \o Keep("ledger")

\* Activations freeze a manifest of what is already configured.
ym_shadow ==
  Check({"task", "parent"}) \o AtCommit \o Use({"parent"}) \o Prove
    \o Keep("manifest") \o Decide({"activated"}) \o Results
activation_authorize ==
  Check({"task", "parent"}) \o AtCommit \o Use({"parent"}) \o Prove
activation_freeze == Keep("manifest") \o Decide({"activated"}) \o Results
=============================================================================
