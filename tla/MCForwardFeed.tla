---------------------------- MODULE MCForwardFeed ----------------------------
(***************************************************************************)
(* Two roots and two candidates, one of one root and one of both that was  *)
(* frozen later; the session closes for a minute, after which another      *)
(* trading day begins and the second root has rolled.                      *)
(***************************************************************************)
EXTENDS ForwardFeed

MCRequired == [c \in Candidates |-> IF c = 1 THEN {1} ELSE {1, 2}]
MCFreeze == [c \in Candidates |-> 2 * c - 3]
MCStale == [c \in Candidates |-> c]
MCOpenAt == Minutes \ {3}
Regular == Roots \X (0..4 \ {3})
MCMarkets == {Regular \ {<<1, 1>>}, Regular \ {<<1, 2>>}, Regular \cup {<<2, 3>>}}
MCDay == [m \in Minutes |-> IF m < 3 THEN 1 ELSE 2]
MCContract == [r \in Roots |-> [m \in Minutes |-> IF r = 2 /\ m > 3 THEN "new" ELSE "old"]]
=============================================================================
