--------------------------- MODULE MCShadowRunner ---------------------------
(* Two signals at the start, one later and one at the end, so that the last *)
(* may be decided on three completed trades, one more than the window.      *)
EXTENDS ShadowRunner

CONSTANTS s1, s2, s3, s4

MCDecisionAt == [s \in Signals |-> IF s = s4 THEN 3 ELSE IF s = s3 THEN 1 ELSE 0]
MCPnl == {-1, 1}
=============================================================================
