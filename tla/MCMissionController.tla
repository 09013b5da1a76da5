------------------------ MODULE MCMissionController ------------------------
(***************************************************************************)
(* Two small missions: two parallel-safe experiments of two pipelines, one *)
(* of which may be retried; and a forward update with three attempts, which *)
(* is sequential.                                                          *)
(***************************************************************************)
EXTENDS MissionController

CONSTANTS e1, e2, e3

MCPair == {e1, e2}
MCLone == {e3}
MCMaxAttempts == [e \in Experiments |-> IF e = e1 THEN 2 ELSE 1]
MCThrice == [e \in Experiments |-> 3]
MCPriority == [e \in Experiments |-> 1]
MCParallelSafe == Experiments \cap {e1, e2}
MCPipeline == [e \in Experiments |-> IF e = e1 THEN "discovery" ELSE "promotion"]
MCKind == [e \in Experiments |-> "cohort"]
=============================================================================
