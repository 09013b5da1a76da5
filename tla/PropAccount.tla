---------------------------- MODULE PropAccount ----------------------------
(***************************************************************************)
(* The account rules of the prop firm (hydra/propfirm), which the code     *)
(* simulates more than once: run_combine_episode and run_xfa_episode       *)
(* replay single trades, simulate_combine and simulate_xfa_* replay daily  *)
(* rows, and conservative_intraday_mll_audit replays the trades again with *)
(* a floor of its own.  Here all of them replay the same trades side by    *)
(* side: Trade is one event, EndSession the end of a trading day.  Where   *)
(* evaluate_topstep_150k replays daily rows, an overlay of internal daily  *)
(* stops has left trades out of them, though not out of its audit.         *)
(*                                                                         *)
(* Amounts are whole dollars above the starting balance.  A trade is its   *)
(* profit, the worst unrealized profit on its way, its size and whether it *)
(* complied with the session.  Left out: scores, counts that are only      *)
(* reported, and regimes.                                                  *)
(***************************************************************************)
EXTENDS Integers, FiniteSets

CONSTANTS
  Trades,           \* records [pnl, worst, size, compliant]
  Target, MaxLoss,  \* combine_profit_target, combine_max_loss_limit
  MaxSize,          \* maximum_mini_equivalent of the combine
  MinPassDays,      \* minimum_pass_days
  WinningDay,       \* payout_winning_day_min_profit
  WinningDays,      \* payout_eligibility_winning_days
  StandardCap, ConsistencyCap, MinPayout,
  Slippage,         \* forced liquidation slippage of the audit
  DailyStop, ProfitLock,  \* daily_stop and daily_profit_lock of the overlay
  Duration,         \* maximum_duration_days of the episodes
  MaxTrades         \* BOUND: trades in a session

\* A winning day has a profit (150 in topstep_150k.py:29) and a payout asks
\* for some (5, at :28): with a zero, days without trades would count.
ASSUME AccountAssumption ==
  /\ Trades \subseteq [pnl : Int, worst : Int, size : Nat, compliant : BOOLEAN]
  /\ {Target, MaxLoss, MinPayout, WinningDay, WinningDays} \subseteq Nat \ {0}
  /\ {DailyStop, ProfitLock} \subseteq Nat \ {0}
  /\ {MaxSize, MinPassDays, Slippage, Duration, MaxTrades} \subseteq Nat
  /\ {StandardCap, ConsistencyCap} \subseteq Nat

VARIABLES
  session, row,            \* sessions that ended; the daily row of the open one
  combine, dailyCombine,   \* run_combine_episode, simulate_combine
  audit,                   \* conservative_intraday_mll_audit
  kept, overlaid,          \* daily row and simulate_combine under the overlay
  skipped,                 \* history: it left a trade out of an open account
  xfa, dailyXfa            \* run_xfa_episode, simulate_xfa_*: one per path

accounts == <<combine, dailyCombine, audit, overlaid, xfa, dailyXfa>>
accountvars == <<session, row, kept, skipped, accounts>>

Paths == {"STANDARD", "CONSISTENCY"}
Larger(a, b) == IF a > b THEN a ELSE b
Smaller(a, b) == IF a < b THEN a ELSE b

-----------------------------------------------------------------------------
(* One trade in an account that is open: a rule that is broken ends it.    *)

End(a, why) == [a EXCEPT !.end = why]
Open(a) == a.end = "OPEN"

\* The floor is checked against the worst unrealized loss, then against the
\* realized balance; touching it is a breach.
Book(a, t) ==
  IF a.balance + Smaller(t.worst, 0) <= a.floor THEN End(a, "MLL_BREACH")
  ELSE LET booked == [a EXCEPT !.balance = @ + t.pnl]
       IN  IF booked.balance <= a.floor THEN End(booked, "MLL_BREACH") ELSE booked

Traded(a, t, allowed) ==
  IF ~Open(a) THEN a
  ELSE IF t.size > allowed \/ ~t.compliant THEN End(a, "COMPLIANCE_FAILURE")
  ELSE Book(a, t)

\* _xfa_max_mini_equivalent: the scaling plan of a funded account.
ScalingPlan(balance) ==
  IF balance < 1500 THEN 3
  ELSE IF balance < 2000 THEN 4
  ELSE IF balance < 3000 THEN 5
  ELSE IF balance < 4500 THEN 10 ELSE 15

\* MUTANT of Audited: the worst unrealized loss is not looked at.
AuditedAtClose(a, t) ==
  LET balance == a.balance + t.pnl
  IN  [a EXCEPT !.balance = balance, !.floor = Smaller(0, Larger(@, balance - MaxLoss)),
                !.end = IF balance <= a.floor THEN "MLL_BREACH" ELSE "OPEN"]

\* The audit's floor follows each trade.
Audited(a, t) ==
  IF a.balance + t.worst - Slippage <= a.floor THEN End(a, "MLL_BREACH")
  ELSE LET balance == a.balance + t.pnl
           moved == Smaller(0, Larger(a.floor, balance - MaxLoss))
       IN  IF balance <= a.floor THEN [a EXCEPT !.balance = balance, !.end = "MLL_BREACH"]
           ELSE [a EXCEPT !.balance = balance, !.floor = moved]

\* MUTANT of WithTrade: the loss is taken from the start of the day.
WithTradeAlone(r, t) ==
  [pnl |-> r.pnl + t.pnl, worst |-> Smaller(r.worst, Smaller(t.worst, 0)),
   trades |-> r.trades + 1]

\* events_to_daily_rows: what a daily row keeps of the trades of a day.
WithTrade(r, t) ==
  LET running == r.pnl + t.pnl
  IN  [pnl |-> running, trades |-> r.trades + 1,
       worst |-> Smaller(Smaller(r.worst, r.pnl + Smaller(t.worst, 0)), running)]

\* trades_to_topstep_daily: a day that has lost or made enough is over.
Taken(r) == r.pnl > -DailyStop /\ r.pnl < ProfitLock

-----------------------------------------------------------------------------
(* The end of a day in an account that is open.                            *)

Trail(floor, balance) == Smaller(0, Larger(floor, balance - MaxLoss))

\* A day may be worth half of the target; a better one raises the target.
Judged(a, r, days) ==
  LET best == Larger(a.best, r.pnl)
      required == IF 2 * best > Target THEN Larger(a.required, 2 * best) ELSE a.required
      consistent == a.balance <= 0 \/ 2 * best <= a.balance
      passed == a.balance >= required /\ consistent /\ days >= MinPassDays
  IN  [a EXCEPT !.floor = Trail(a.floor, a.balance), !.best = best, !.required = required,
                !.days = days, !.end = IF passed THEN "PASSED" ELSE "OPEN"]

\* The day's end in run_combine_episode: traded days are counted.
CombineDay(a, r) ==
  IF Open(a) THEN Judged(a, r, IF r.trades > 0 THEN a.days + 1 ELSE a.days) ELSE a

\* A row applied to an account that knows it only by the day's sums.
Replayed(a, r) ==
  LET after == [a EXCEPT !.balance = @ + r.pnl]
  IN  IF a.balance + r.worst <= a.floor \/ after.balance <= a.floor
      THEN End(after, "MLL_BREACH") ELSE after

\* simulate_combine: a row for each day that was traded.
SimulateCombine(a, r) ==
  LET after == Replayed(a, r)
  IN  IF r.trades = 0 \/ ~Open(a) THEN a
      ELSE IF Open(after) THEN Judged(after, r, a.days + 1) ELSE after

-----------------------------------------------------------------------------
(* The funded account, and its payouts.                                    *)

Counted(path, a, r) ==
  [a EXCEPT !.floor = Trail(a.floor, a.balance), !.best = Larger(@, r.pnl), !.total = @ + r.pnl,
            !.days = CASE path = "STANDARD" -> IF r.pnl >= WinningDay THEN @ + 1 ELSE @
                       [] OTHER -> IF r.trades > 0 THEN @ + 1 ELSE @]

\* On one path winning days are asked for, on the other traded days and
\* that the best of them was at most two fifths of the cycle's profit.
Eligible(path, a) ==
  /\ a.balance > 0
  /\ CASE path = "STANDARD" -> a.days >= WinningDays
       [] OTHER -> a.days >= 3 /\ a.total > 0 /\ 5 * a.best <= 2 * a.total

\* MUTANT of PayoutRequest: the whole balance.
PayoutRequestAll(balance, cap) == Smaller(balance, cap)

PayoutRequest(balance, cap) == Smaller(balance \div 2, cap)

\* A payout lifts the floor to zero and begins a cycle, in which the profit
\* of the cycle starts from what is given.
PaidOut(path, a, carried) ==
  LET gross == PayoutRequest(a.balance, IF path = "STANDARD" THEN StandardCap ELSE ConsistencyCap)
  IN  IF ~Eligible(path, a) \/ gross < MinPayout THEN a
      ELSE [a EXCEPT !.balance = @ - gross, !.floor = 0, !.days = 0, !.best = 0,
                     !.total = IF carried THEN a.balance - gross ELSE 0,
                     !.paid = @ + gross, !.cycles = @ + 1]

\* The day's end in run_xfa_episode.
XfaDay(path, a, r) == IF Open(a) THEN PaidOut(path, Counted(path, a, r), FALSE) ELSE a

\* simulate_xfa_standard and simulate_xfa_consistency; the second carries
\* the residual balance into the profit of the next cycle.
SimulateXfa(path, a, r) ==
  LET after == Replayed(a, r)
  IN  IF r.trades = 0 \/ ~Open(a) THEN a
      ELSE IF Open(after) THEN PaidOut(path, Counted(path, after, r), path = "CONSISTENCY")
      ELSE after

-----------------------------------------------------------------------------
NoTrades == [pnl |-> 0, worst |-> 0, trades |-> 0]
NewAudit == [balance |-> 0, floor |-> -MaxLoss, end |-> "OPEN"]
NewCombine == [balance |-> 0, floor |-> -MaxLoss, best |-> 0, required |-> Target, days |-> 0,
               end |-> "OPEN"]
NewXfa == [balance |-> 0, floor |-> -MaxLoss, best |-> 0, total |-> 0, days |-> 0, paid |-> 0,
           cycles |-> 0, end |-> "OPEN"]

AccountInit ==
  /\ session = 0 /\ row = NoTrades
  /\ combine = NewCombine /\ dailyCombine = NewCombine /\ audit = NewAudit
  /\ kept = NoTrades /\ overlaid = NewCombine /\ skipped = FALSE
  /\ xfa = [p \in Paths |-> NewXfa] /\ dailyXfa = [p \in Paths |-> NewXfa]

Trade(t) ==
  /\ session < Duration /\ row.trades < MaxTrades
  /\ row' = WithTrade(row, t)
  /\ combine' = Traded(combine, t, MaxSize)
  /\ audit' = IF Open(audit) THEN Audited(audit, t) ELSE audit
  /\ xfa' = [p \in Paths |-> Traded(xfa[p], t, ScalingPlan(xfa[p].balance))]
  /\ kept' = IF Taken(kept) THEN WithTrade(kept, t) ELSE kept
  /\ skipped' = (skipped \/ (Open(overlaid) /\ ~Taken(kept)))
  /\ UNCHANGED <<session, dailyCombine, overlaid, dailyXfa>>

EndSession ==
  /\ session < Duration /\ session' = session + 1
  /\ combine' = CombineDay(combine, row)
  /\ dailyCombine' = SimulateCombine(dailyCombine, row)
  /\ xfa' = [p \in Paths |-> XfaDay(p, xfa[p], row)]
  /\ dailyXfa' = [p \in Paths |-> SimulateXfa(p, dailyXfa[p], row)]
  /\ overlaid' = SimulateCombine(overlaid, kept)
  /\ row' = NoTrades /\ kept' = NoTrades
  /\ UNCHANGED <<audit, skipped>>

AccountNext == EndSession \/ \E t \in Trades : Trade(t)
AccountSpec == AccountInit /\ [][AccountNext]_accountvars

-----------------------------------------------------------------------------
(* Properties.                                                             *)

Overnight == row.trades = 0
Complied(a) == a.end # "COMPLIANCE_FAILURE"

\* The replay of trades and the replay of daily rows come to the same
\* verdict on the same day, with the same balance and floor while an account
\* is open and the same payouts: run_combine_episode (combine_episode.py)
\* against simulate_combine (topstep_150k.py), and on the standard path
\* run_xfa_episode (xfa_episode.py) against simulate_xfa_standard.
ReplaysAgree ==
  Overnight =>
    /\ Complied(combine) =>
         /\ combine.end = dailyCombine.end
         /\ Open(combine) => combine = dailyCombine
    /\ LET a == xfa["STANDARD"] b == dailyXfa["STANDARD"]
       IN  Complied(a) => /\ a.end = b.end /\ a.paid = b.paid
                          /\ Open(a) => a.balance = b.balance /\ a.floor = b.floor

\* The audit misses no breach of an account that takes the trades it is
\* given: what an episode, or the replay of all daily rows beside the audit
\* (evidence_conversion.py), calls a breach of the maximum loss limit, the
\* audit called one by then, although it charges slippage and moves its
\* floor otherwise.  In evaluate_topstep_150k it does so as long as the
\* overlay has left no trade out: with winners left out, the replay may
\* breach where the audit, which gets them all, does not.
AuditIsConservative ==
  \A a \in {combine, dailyCombine} \cup (IF skipped THEN {} ELSE {overlaid}) :
    a.end = "MLL_BREACH" => audit.end = "MLL_BREACH"

\* On the other path the payouts agree too, as the rule snapshot says that
\* consistency resets after a payout (config/prop_firms/topstep_150k_2026-
\* 07-10.yaml) and xfa_episode.py that no balance must be carried over.
ConsistenciesAgree ==
  LET a == xfa["CONSISTENCY"] b == dailyXfa["CONSISTENCY"]
  IN  Overnight /\ Complied(a) => a.paid = b.paid

\* Whatever was traded and paid out, an open account is above its floor,
\* which is at most zero and, once something was paid, is zero: no payout
\* leaves an account that the next tick ends.
OpenIsSolvent ==
  /\ \A a \in {combine, dailyCombine, overlaid, audit} \cup {xfa[p] : p \in Paths}
              \cup {dailyXfa[p] : p \in Paths} :
       Open(a) => a.balance > a.floor /\ a.floor <= 0
  /\ \A p \in Paths : xfa[p].cycles > 0 => xfa[p].floor = 0

\* The strengthening under which the properties above are inductive.  Types.
Ends == {"OPEN", "PASSED", "MLL_BREACH", "COMPLIANCE_FAILURE"}
CombineAccount == [balance : Int, floor : Int, best : Int, required : Int, days : Int, end : Ends]
XfaAccount == [balance : Int, floor : Int, best : Int, total : Int, days : Int, paid : Int,
               cycles : Nat, end : Ends]

AccountTypeOK ==
  /\ session \in Nat /\ {row, kept} \subseteq [pnl : Int, worst : Int, trades : Nat]
  /\ {combine, dailyCombine, overlaid} \subseteq CombineAccount /\ skipped \in BOOLEAN
  /\ audit \in [balance : Int, floor : Int, end : {"OPEN", "MLL_BREACH"}]
  /\ {xfa, dailyXfa} \subseteq [Paths -> XfaAccount]

\* Of a day: its lowest point is no higher than its start and its close.
Low(r) ==
  /\ r.worst <= 0 /\ r.worst <= r.pnl
  /\ r.trades = 0 => r = NoTrades

\* Of an account replayed by trades and by rows, during a day: the lowest
\* point so far tells whether the day's row will end the second.
InStep(a, b, r) ==
  Complied(a) =>
    \/ ~Open(b) /\ a.end = b.end
    \/ /\ Open(b) /\ b.balance + r.worst > b.floor
       /\ Open(a) /\ a.balance = b.balance + r.pnl /\ a.floor = b.floor
    \/ Open(b) /\ b.balance + r.worst <= b.floor /\ a.end = "MLL_BREACH"

ReplaysInStep ==
  /\ InStep(combine, dailyCombine, row)
  /\ Open(combine) => /\ combine.best = dailyCombine.best
                      /\ combine.required = dailyCombine.required
                      /\ combine.days = dailyCombine.days
  /\ InStep(xfa["STANDARD"], dailyXfa["STANDARD"], row)
  /\ Complied(xfa["STANDARD"]) => xfa["STANDARD"].paid = dailyXfa["STANDARD"].paid
  /\ Open(xfa["STANDARD"]) => xfa["STANDARD"].days = dailyXfa["STANDARD"].days

\* A day without trades changes nothing in an account that is replayed by
\* rows: what the last row led to is already settled.
Settled ==
  /\ Open(dailyCombine) => Judged(dailyCombine, NoTrades, dailyCombine.days) = dailyCombine
  /\ LET b == dailyXfa["STANDARD"]
     IN  Open(b) => PaidOut("STANDARD", Counted("STANDARD", b, NoTrades), FALSE) = b

\* An overlay that has left nothing out has changed nothing.
OverlayInStep ==
  ~skipped => overlaid = dailyCombine /\ (Open(overlaid) => kept = row)

\* An audit that is open knows the balance, and its floor is no lower.
AuditIsAhead ==
  Open(audit) =>
    /\ audit.floor >= Smaller(0, audit.balance - MaxLoss)
    /\ Open(combine) => audit.balance = combine.balance /\ audit.floor >= combine.floor
    /\ Open(dailyCombine) =>
         /\ audit.balance = dailyCombine.balance + row.pnl
         /\ audit.floor >= dailyCombine.floor
         /\ dailyCombine.balance + row.worst > dailyCombine.floor

AccountInv ==
  /\ AccountTypeOK /\ Low(row) /\ Low(kept) /\ OpenIsSolvent
  /\ AuditIsAhead /\ AuditIsConservative /\ ReplaysInStep /\ OverlayInStep /\ Settled
=============================================================================
