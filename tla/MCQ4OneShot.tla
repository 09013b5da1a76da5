----------------------------- MODULE MCQ4OneShot -----------------------------
(***************************************************************************)
(* Two frozen cohorts, each bound to a commit of its own, as when the      *)
(* cohort is frozen again after a correction.                              *)
(***************************************************************************)
EXTENDS Q4OneShot

CONSTANTS m1, m2, k1, k2

MCCommit == [m \in Cohorts |-> IF m = m1 THEN k1 ELSE k2]
=============================================================================
