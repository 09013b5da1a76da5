--------------------------- MODULE MCPropAccount ---------------------------
(* The rules of the 150K account, with two winning days to a payout.  The  *)
(* trades: small and large wins, a loss, a win that nearly failed, and one *)
(* that is too large for the first steps of the scaling plan.              *)
EXTENDS PropAccount

T(pnl, worst, size) == [pnl |-> pnl, worst |-> worst, size |-> size, compliant |-> TRUE]
MCTrades == {T(1600, 0, 3), T(4800, -400, 3), T(-2400, -2400, 3), T(800, -4000, 4),
             [T(0, 0, 3) EXCEPT !.compliant = FALSE]}
MCDays == {T(2400, -100, 3), T(1600, 0, 3), T(-800, -1600, 3)}
=============================================================================
