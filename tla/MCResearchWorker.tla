-------------------------- MODULE MCResearchWorker --------------------------
(***************************************************************************)
(* Every job of the repository.                                            *)
(***************************************************************************)
EXTENDS ResearchWorker

MCJobs == DOMAIN run_experiment
=============================================================================
