--------------------------- MODULE CalibrationJobs ---------------------------
(***************************************************************************)
(* The jobs before the economic pilots: the retests of calibration-        *)
(* affected atoms with their repairs, the first audits and the foundry,    *)
(* and the calibrations of the selection policy.                           *)
(***************************************************************************)
EXTENDS JobSteps

\* Designs: no market data, and no look at the checkout.
design_select == Prove
design_preregister == Decide({"done"}) \o Match({"result"}) \o Put("result")
post_design ==
  Check({"parent"}) \o Prove \o Decide({"pilot", "unsupported"})
    \o Match({"result"}) \o Keep("result")
v3_design_base == Check({"parent", "map", "task"}) \o Prove \o AtCommit
v3_design_preregister ==
  Decide({"preregistered"}) \o Match({"result"}) \o Put("result")

\* Both executions of a retest; the repaired map comes with the second.
execution_prepare ==
  Check({"parent"}) \o AtCommit \o Check({"bars", "map"}) \o Record \o ReadBars
    \o Prove
execution_conclude(F) == Decide(F) \o Results

pilot ==
  Check({"parent", "task", "map"}) \o Use({"map", "bank"})
    \o Decide({"rebuild", "inconclusive"}) \o Results
\* The sources are compared again before the result is written.
contract_map ==
  Check({"parent", "map", "bars", "task"}) \o Prove \o AtCommit
    \o Use({"map", "bars"}) \o Prove \o Check({"map", "bars"})
    \o Decide({"repaired"}) \o Results

\* The first audits write straight into their files.
path_geometry ==
  Frozen \o Governed \o Put("prereg") \o Record \o ReadBars \o Prove
    \o Decide({"survivor", "none"}) \o Put("result") \o Put("report")
metal_energy ==
  Frozen \o Governed \o Put("prereg") \o Record \o ReadBars
    \o Decide({"survivor", "none"}) \o Put("result") \o Put("report")
cross_market ==
  Frozen \o Governed \o Put("prereg") \o Record \o ReadBars
    \o Decide({"done"}) \o Put("result") \o Put("report")
volatility ==
  Frozen \o Governed \o Put("prereg") \o Record \o ReadBars
    \o Decide({"done"}) \o Put("result") \o Put("report")
foundry ==
  Check({"parent"}) \o Use({"parent"}) \o Prove \o Decide({"valid"})
    \o Keep("population") \o Results

\* Calibrations run on simulated data.
null_power ==
  Check({"task"}) \o AtCommit \o Keep("prereg")
    \o Decide({"calibrated", "fpr_failed", "underpowered"}) \o Results
policy_repair_prepare ==
  Check({"task", "parent"}) \o Use({"parent"}) \o Prove \o AtCommit
    \o Keep("prereg")
policy_repair_conclude == Decide({"passed", "failed"}) \o Results
alpha_prepare ==
  Check({"task", "parent"}) \o Use({"parent"}) \o Prove \o AtCommit
    \o Keep("prereg")
alpha_conclude == Decide({"calibrated", "failed"}) \o Results
=============================================================================
