--------------------------- MODULE MCGenerations ---------------------------
(* Two experiments per engine and three cohorts, so that the conversion    *)
(* can end at each of its stops; a crash or a changed file at any point.   *)
EXTENDS Generations

MCMaxNumber == [e \in ToSet(Engines) \ Single |-> IF e = "cohort" THEN 2 ELSE 1]
=============================================================================
