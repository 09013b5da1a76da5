-------------------------- MODULE MCExperimentQueue --------------------------
(***************************************************************************)
(* A small instance of ExperimentQueue: two parallel-safe experiments that *)
(* both write the data-access ledger, in different pipelines, a third      *)
(* parallel-safe one that shares a pipeline with the first, and a          *)
(* sequential experiment of the highest priority.                          *)
(***************************************************************************)
EXTENDS ExperimentQueue

CONSTANTS e1, e2, e3, e4

MCExperiments == {e1, e2, e3, e4}
MCMaxAttempts == [e \in Experiments |-> IF e = e1 THEN 2 ELSE 1]
MCPriority == [e \in Experiments |-> IF e = e4 THEN 2 ELSE 1]
MCParallelSafe == Experiments \ {e4}
MCPipeline == [e \in Experiments |-> IF e = e2 THEN "promotion" ELSE "discovery"]
MCLedgerWriters == Experiments \cap {e1, e2}
MCKind == [e \in Experiments |-> IF e \in {e1, e2} THEN "cohort" ELSE "epoch"]
=============================================================================
