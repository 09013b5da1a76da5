-------------------------- MODULE PropAccountProofs --------------------------
(***************************************************************************)
(* Safety of PropAccount for every set of trades and every value of the    *)
(* rules: what a trade and a day do to one account first, then the replays *)
(* and the audit side by side.                                             *)
(***************************************************************************)
EXTENDS PropAccount, TLAPS

-----------------------------------------------------------------------------
(* One account.                                                            *)

Solvent(a) == Open(a) => a.balance > a.floor /\ a.floor <= 0

\* A combine account or a funded one, and one that differs from it in its
\* balance, its floor and its end alone.
Accounts == CombineAccount \cup XfaAccount

SameRest(a, b) ==
  /\ b.best = a.best /\ b.days = a.days
  /\ a \in CombineAccount => b \in CombineAccount /\ b.required = a.required
  /\ a \in XfaAccount =>
       b \in XfaAccount /\ b.total = a.total /\ b.paid = a.paid /\ b.cycles = a.cycles

\* The account with another balance.
Rebalanced(a, v) == [a EXCEPT !.balance = v]

\* An account that is ended keeps the rest, and so does one whose balance
\* moves.
LEMMA FieldsKept ==
  ASSUME NEW a \in Accounts, NEW e \in Ends, NEW v \in Int
  PROVE  /\ SameRest(a, End(a, e)) /\ End(a, e).end = e
         /\ End(a, e).balance = a.balance /\ End(a, e).floor = a.floor
         /\ SameRest(a, Rebalanced(a, v)) /\ Rebalanced(a, v).balance = v
         /\ Rebalanced(a, v).end = a.end /\ Rebalanced(a, v).floor = a.floor
<1>1. CASE a \in CombineAccount
  <2>1. a \notin XfaAccount
    BY <1>1 DEF CombineAccount, XfaAccount
  <2> QED BY <1>1, <2>1 DEF SameRest, End, Rebalanced, CombineAccount
<1>2. CASE a \in XfaAccount
  <2>1. a \notin CombineAccount
    BY <1>2 DEF CombineAccount, XfaAccount
  <2> QED BY <1>2, <2>1 DEF SameRest, End, Rebalanced, XfaAccount
<1> QED BY <1>1, <1>2 DEF Accounts

\* What a trade may do to an account that is open, by the fields it knows.
TradeDone(a, b, t) ==
  /\ b.floor = a.floor
  /\ ~Open(a) => b = a
  /\ Open(a) => b.end \in {"OPEN", "MLL_BREACH", "COMPLIANCE_FAILURE"}
  /\ Open(b) => /\ Open(a) /\ b.balance = a.balance + t.pnl /\ b.balance > a.floor
               /\ a.balance + Smaller(t.worst, 0) > a.floor
  /\ Open(a) /\ b.end = "MLL_BREACH" =>
       a.balance + Smaller(t.worst, 0) <= a.floor \/ a.balance + t.pnl <= a.floor

\* A trade, in either.
LEMMA TradeKeeps ==
  ASSUME NEW a \in Accounts, NEW t \in Trades, NEW allowed
  PROVE  SameRest(a, Traded(a, t, allowed)) /\ TradeDone(a, Traded(a, t, allowed), t)
<1> DEFINE low == a.balance + Smaller(t.worst, 0)
           sum == a.balance + t.pnl
<1>1. /\ low \in Int /\ sum \in Int /\ a.floor \in Int
      /\ {"MLL_BREACH", "COMPLIANCE_FAILURE"} \subseteq Ends
  BY AccountAssumption DEF Accounts, CombineAccount, XfaAccount, Smaller, Ends
<1>2. CASE ~Open(a)
  BY <1>2 DEF Traded, TradeDone, SameRest
<1>3. CASE Open(a) /\ (t.size > allowed \/ ~t.compliant)
  <2>1. Traded(a, t, allowed) = End(a, "COMPLIANCE_FAILURE")
    BY <1>3 DEF Traded
  <2> QED BY <1>1, <1>3, <2>1, FieldsKept DEF TradeDone, Open
<1>4. CASE Open(a) /\ ~(t.size > allowed \/ ~t.compliant) /\ low <= a.floor
  <2>1. Traded(a, t, allowed) = End(a, "MLL_BREACH")
    BY <1>4 DEF Traded, Book
  <2> QED BY <1>1, <1>4, <2>1, FieldsKept DEF TradeDone, Open
<1>5. CASE Open(a) /\ ~(t.size > allowed \/ ~t.compliant) /\ ~(low <= a.floor)
  <2> DEFINE booked == Rebalanced(a, sum)
  <2>1. /\ SameRest(a, booked) /\ booked.balance = sum /\ booked.floor = a.floor
        /\ booked.end = a.end /\ booked \in Accounts
    BY SMTT(30), <1>1, FieldsKept DEF Accounts, SameRest
  <2>2. Traded(a, t, allowed) = IF booked.balance <= booked.floor
                                THEN End(booked, "MLL_BREACH") ELSE booked
    BY <1>5, <2>1 DEF Traded, Book, Rebalanced
  <2> HIDE DEF booked
  <2>3. CASE sum <= a.floor
    <3>1. /\ SameRest(booked, Traded(a, t, allowed)) /\ Traded(a, t, allowed).end = "MLL_BREACH"
          /\ Traded(a, t, allowed).floor = a.floor
      BY <1>1, <2>1, <2>2, <2>3, FieldsKept
    <3> QED BY <1>5, <2>1, <2>3, <3>1 DEF TradeDone, SameRest, Open
  <2>4. CASE ~(sum <= a.floor)
    BY <1>1, <1>5, <2>1, <2>2, <2>4 DEF TradeDone, Open
  <2> QED BY <2>3, <2>4
<1> QED BY <1>2, <1>3, <1>4, <1>5

\* What the row of a day may do to an account that is open.
RowDone(a, b, r) ==
  /\ b.floor = a.floor /\ b.balance = a.balance + r.pnl
  /\ b.end = IF a.balance + r.worst <= a.floor \/ a.balance + r.pnl <= a.floor
             THEN "MLL_BREACH" ELSE "OPEN"

Rows == [pnl : Int, worst : Int, trades : Nat]

\* A row, in either.
LEMMA RowKeeps ==
  ASSUME NEW a \in Accounts, NEW r \in Rows, Open(a)
  PROVE  SameRest(a, Replayed(a, r)) /\ RowDone(a, Replayed(a, r), r)
<1> DEFINE sum == a.balance + r.pnl
           after == Rebalanced(a, sum)
<1>1. sum \in Int /\ "MLL_BREACH" \in Ends
  BY DEF Accounts, CombineAccount, XfaAccount, Rows, Ends
<1>2. /\ SameRest(a, after) /\ after.balance = sum /\ after.floor = a.floor
      /\ after.end = "OPEN" /\ after \in Accounts
  BY <1>1, FieldsKept DEF Accounts, SameRest, Open
<1>3. Replayed(a, r) = IF a.balance + r.worst <= a.floor \/ after.balance <= a.floor
                       THEN End(after, "MLL_BREACH") ELSE after
  BY <1>2 DEF Replayed, Rebalanced
<1> HIDE DEF after
<1>4. CASE a.balance + r.worst <= a.floor \/ after.balance <= a.floor
  <2>1. /\ SameRest(after, Replayed(a, r)) /\ Replayed(a, r).end = "MLL_BREACH"
        /\ Replayed(a, r).floor = a.floor /\ Replayed(a, r).balance = sum
    BY <1>1, <1>2, <1>3, <1>4, FieldsKept
  <2> QED BY <1>2, <1>4, <2>1 DEF RowDone, SameRest
<1>5. CASE ~(a.balance + r.worst <= a.floor \/ after.balance <= a.floor)
  BY <1>2, <1>3, <1>5 DEF RowDone, SameRest
<1> QED BY <1>4, <1>5

\* The trailing floor is at most zero, below a balance that was above the old
\* floor, and trails once: the same balance moves it no further.
LEMMA TrailBounds ==
  ASSUME NEW floor \in Int, NEW balance \in Int
  PROVE  /\ Trail(floor, balance) \in Int /\ Trail(floor, balance) <= 0
         /\ balance > floor => balance > Trail(floor, balance)
         /\ Trail(Trail(floor, balance), balance) = Trail(floor, balance)
         /\ Trail(0, balance) = 0
BY AccountAssumption DEF Trail, Smaller, Larger

\* What the judgement of a day does to an account that is open.
JudgedTo(a, b, r, days) ==
  /\ b.balance = a.balance /\ b.floor = Trail(a.floor, a.balance) /\ b.days = days
  /\ b.best = Larger(a.best, r.pnl)
  /\ b.required = IF 2 * b.best > Target THEN Larger(a.required, 2 * b.best) ELSE a.required
  /\ b.end = IF /\ a.balance >= b.required /\ (a.balance <= 0 \/ 2 * b.best <= a.balance)
                /\ days >= MinPassDays
             THEN "PASSED" ELSE "OPEN"

\* Judged does just that.
LEMMA JudgedFields ==
  ASSUME NEW a \in CombineAccount, NEW r \in Rows, NEW days \in Int
  PROVE  Judged(a, r, days) \in CombineAccount /\ JudgedTo(a, Judged(a, r, days), r, days)
<1> DEFINE best == Larger(a.best, r.pnl)
           required == IF 2 * best > Target THEN Larger(a.required, 2 * best) ELSE a.required
           passed == /\ a.balance >= required /\ (a.balance <= 0 \/ 2 * best <= a.balance)
                     /\ days >= MinPassDays
           end == IF passed THEN "PASSED" ELSE "OPEN"
           floor == Trail(a.floor, a.balance)
           judged == [a EXCEPT !.floor = floor, !.best = best, !.required = required,
                               !.days = days, !.end = end]
<1>1. /\ a.balance \in Int /\ a.floor \in Int /\ a.best \in Int /\ a.required \in Int
      /\ r.pnl \in Int /\ Target \in Int
  BY AccountAssumption DEF CombineAccount, Rows
<1>2. floor \in Int
  BY <1>1, TrailBounds
<1>3. best \in Int /\ required \in Int /\ end \in {"OPEN", "PASSED"}
  BY <1>1 DEF Larger
<1>4. Judged(a, r, days) = judged
  BY DEF Judged
<1> HIDE DEF best, required, end, floor
<1>5. /\ judged \in CombineAccount /\ judged.balance = a.balance /\ judged.floor = floor
      /\ judged.days = days /\ judged.best = best /\ judged.required = required
      /\ judged.end = end
  BY <1>2, <1>3 DEF CombineAccount, Ends
<1> HIDE DEF judged
<1> QED BY <1>4, <1>5 DEF JudgedTo, best, required, end, floor

\* Accounts are equal when their fields are.
LEMMA CombineEqual ==
  ASSUME NEW a \in CombineAccount, NEW b \in CombineAccount,
         a.balance = b.balance, a.floor = b.floor, a.best = b.best, a.required = b.required,
         a.days = b.days, a.end = b.end
  PROVE  a = b
BY DEF CombineAccount

\* The same of two funded accounts.
LEMMA XfaEqual ==
  ASSUME NEW a \in XfaAccount, NEW b \in XfaAccount,
         a.balance = b.balance, a.floor = b.floor, a.best = b.best, a.total = b.total,
         a.days = b.days, a.paid = b.paid, a.cycles = b.cycles, a.end = b.end
  PROVE  a = b
BY DEF XfaAccount

\* The row of a day without trades.
LEMMA NoTradesRow ==
  NoTrades \in Rows /\ NoTrades.pnl = 0 /\ NoTrades.worst = 0 /\ NoTrades.trades = 0
BY DEF NoTrades, Rows

\* A day judged keeps a solvent account solvent.
LEMMA JudgedSolvent ==
  ASSUME NEW a \in CombineAccount, Open(a), Solvent(a), NEW r \in Rows, NEW days \in Int
  PROVE  Solvent(Judged(a, r, days)) /\ Judged(a, r, days).end \in {"OPEN", "PASSED"}
<1>1. a.balance \in Int /\ a.floor \in Int /\ a.balance > a.floor
  BY DEF CombineAccount, Solvent
<1>2. a.balance > Trail(a.floor, a.balance) /\ Trail(a.floor, a.balance) <= 0
  BY <1>1, TrailBounds
<1> QED BY <1>2, JudgedFields DEF JudgedTo, Solvent, Open

\* Judged again after a day without trades, the account is what it was.
LEMMA JudgedOnce ==
  ASSUME NEW a \in CombineAccount, a.best >= 0, NEW r \in Rows, NEW days \in Int,
         NEW b \in CombineAccount, JudgedTo(a, b, r, days), Open(b)
  PROVE  Judged(b, NoTrades, b.days) = b
<1> DEFINE c == Judged(b, NoTrades, b.days)
<1>1. /\ a.balance \in Int /\ a.floor \in Int /\ a.best \in Int /\ a.required \in Int
      /\ b.days \in Int /\ b.best \in Int /\ b.required \in Int
      /\ r.pnl \in Int /\ Target \in Int
  BY AccountAssumption DEF CombineAccount, Rows
<1>2. c \in CombineAccount /\ JudgedTo(b, c, NoTrades, b.days)
  BY <1>1, JudgedFields, NoTradesRow
<1> HIDE DEF c
<1>3. c.balance = b.balance /\ c.floor = b.floor /\ c.days = b.days
  <2>1. Trail(Trail(a.floor, a.balance), a.balance) = Trail(a.floor, a.balance)
    BY <1>1, TrailBounds
  <2>2. b.balance = a.balance /\ b.floor = Trail(a.floor, a.balance)
    BY DEF JudgedTo
  <2> QED BY <1>2, <2>1, <2>2 DEF JudgedTo
<1>4. c.best = b.best
  BY <1>1, <1>2, NoTradesRow DEF JudgedTo, Larger
<1>5. c.required = b.required
  BY <1>1, <1>2, <1>4 DEF JudgedTo, Larger
<1>6. c.end = b.end
  BY <1>2, <1>3, <1>4, <1>5 DEF JudgedTo, Open
<1>7. c = b
  BY <1>2, <1>3, <1>4, <1>5, <1>6, CombineEqual
<1> QED BY <1>7 DEF c

\* What a day counts in a funded account.
CountedTo(path, a, b, r) ==
  /\ b.balance = a.balance /\ b.floor = Trail(a.floor, a.balance)
  /\ b.best = Larger(a.best, r.pnl) /\ b.total = a.total + r.pnl
  /\ path = "STANDARD" => b.days = IF r.pnl >= WinningDay THEN a.days + 1 ELSE a.days
  /\ b.paid = a.paid /\ b.cycles = a.cycles /\ b.end = a.end

\* Counted does just that.
LEMMA CountedFields ==
  ASSUME NEW path \in Paths, NEW a \in XfaAccount, NEW r \in Rows
  PROVE  Counted(path, a, r) \in XfaAccount /\ CountedTo(path, a, Counted(path, a, r), r)
<1> DEFINE floor == Trail(a.floor, a.balance)
           best == Larger(a.best, r.pnl)
           total == a.total + r.pnl
           days == CASE path = "STANDARD" -> IF r.pnl >= WinningDay THEN a.days + 1 ELSE a.days
                     [] OTHER -> IF r.trades > 0 THEN a.days + 1 ELSE a.days
           counted == [a EXCEPT !.floor = floor, !.best = best, !.total = total, !.days = days]
<1>1. /\ a.balance \in Int /\ a.floor \in Int /\ a.best \in Int /\ a.total \in Int
      /\ a.days \in Int
      /\ r.pnl \in Int
  BY DEF XfaAccount, Rows
<1>2. floor \in Int /\ best \in Int /\ total \in Int
  <2>1. floor \in Int
    BY <1>1, TrailBounds
  <2>2. best \in Int /\ total \in Int
    BY <1>1 DEF Larger
  <2> QED BY <2>1, <2>2
<1>3. days \in Int
  <2>1. CASE path = "STANDARD"
    BY <1>1, <2>1
  <2>2. CASE path # "STANDARD"
    BY <1>1, <2>2
  <2> QED BY <2>1, <2>2
<1>4. Counted(path, a, r) = counted
  BY DEF Counted
<1>5. path = "STANDARD" => days = IF r.pnl >= WinningDay THEN a.days + 1 ELSE a.days
  OBVIOUS
<1> HIDE DEF floor, best, total, days
<1>6. /\ counted \in XfaAccount /\ counted.balance = a.balance /\ counted.floor = floor
      /\ counted.best = best /\ counted.total = total /\ counted.days = days
      /\ counted.paid = a.paid /\ counted.cycles = a.cycles /\ counted.end = a.end
  BY <1>2, <1>3 DEF XfaAccount
<1> HIDE DEF counted
<1> QED BY <1>4, <1>5, <1>6 DEF CountedTo, floor, best, total

\* What a payout does, if there is one.
PaidTo(path, a, b) ==
  LET gross == PayoutRequest(a.balance, IF path = "STANDARD" THEN StandardCap ELSE ConsistencyCap)
  IN  IF ~Eligible(path, a) \/ gross < MinPayout THEN b = a
      ELSE /\ gross \in Nat \ {0} /\ b.balance = a.balance - gross /\ b.balance > 0
           /\ b.floor = 0 /\ b.days = 0 /\ b.best = 0 /\ b.paid = a.paid + gross
           /\ b.cycles = a.cycles + 1 /\ b.end = a.end

\* PaidOut does just that.
LEMMA PaidFields ==
  ASSUME NEW path \in Paths, NEW a \in XfaAccount, NEW carried \in BOOLEAN
  PROVE  /\ PaidOut(path, a, carried) \in XfaAccount /\ PaidTo(path, a, PaidOut(path, a, carried))
         /\ PaidOut(path, a, carried) # a /\ ~carried => PaidOut(path, a, carried).total = 0
<1> DEFINE cap == IF path = "STANDARD" THEN StandardCap ELSE ConsistencyCap
           gross == PayoutRequest(a.balance, cap)
           left == a.balance - gross
           total == IF carried THEN a.balance - gross ELSE 0
           sum == a.paid + gross
           cycles == a.cycles + 1
           paid == [a EXCEPT !.balance = left, !.floor = 0, !.days = 0, !.best = 0,
                             !.total = total, !.paid = sum, !.cycles = cycles]
<1>1. a.balance \in Int /\ a.paid \in Int /\ a.cycles \in Nat /\ cap \in Nat
  BY AccountAssumption DEF XfaAccount
<1>2. CASE ~Eligible(path, a) \/ gross < MinPayout
  BY <1>2 DEF PaidOut, PaidTo
<1>3. CASE ~(~Eligible(path, a) \/ gross < MinPayout)
  <2>1. PaidOut(path, a, carried) = paid
    BY <1>3 DEF PaidOut
  <2>2. a.balance > 0
    BY <1>3 DEF Eligible
  <2>3. a.balance \div 2 \in Int /\ 2 * (a.balance \div 2) <= a.balance
    BY <1>1
  <2>4. gross \in Int /\ gross <= a.balance \div 2
    BY <1>1, <2>3 DEF PayoutRequest, Smaller
  <2>5. gross \in Nat \ {0}
    BY <1>3, <2>4, AccountAssumption
  <2> HIDE DEF gross
  <2>6. left \in Int /\ left > 0 /\ total \in Int /\ sum \in Int /\ cycles \in Nat
    BY <1>1, <2>2, <2>3, <2>4, <2>5
  <2>7. ~carried => total = 0
    OBVIOUS
  <2> HIDE DEF left, total, sum, cycles
  <2>8. /\ paid \in XfaAccount /\ paid.balance = left /\ paid.floor = 0 /\ paid.days = 0
        /\ paid.best = 0 /\ paid.total = total /\ paid.paid = sum
        /\ paid.cycles = cycles /\ paid.end = a.end
    <3>1. PICK zero \in Int : zero = 0
      OBVIOUS
    <3>2. [a EXCEPT !.balance = left, !.floor = zero, !.days = zero, !.best = zero,
                    !.total = total, !.paid = sum, !.cycles = cycles] \in XfaAccount
      BY <2>6 DEF XfaAccount
    <3>3. paid \in XfaAccount
      BY <3>1, <3>2
    <3>4. paid.balance = left /\ paid.floor = 0 /\ paid.days = 0 /\ paid.best = 0
      BY DEF XfaAccount
    <3>5. /\ paid.total = total /\ paid.paid = sum /\ paid.cycles = cycles
          /\ paid.end = a.end
      BY DEF XfaAccount
    <3> QED BY <3>3, <3>4, <3>5
  <2> HIDE DEF paid
  <2> QED BY <1>3, <2>1, <2>5, <2>6, <2>7, <2>8 DEF PaidTo, gross, left, sum, cycles
<1> QED BY <1>2, <1>3

\* The end of a day in a funded account that is open: it stays open and
\* solvent, and a floor lifted by a payout stays at zero.
DayOf(path, a, r, carried) == PaidOut(path, Counted(path, a, r), carried)

\* It leaves an open account open and solvent.
LEMMA DaySolvent ==
  ASSUME NEW path \in Paths, NEW a \in XfaAccount, Open(a), Solvent(a), NEW r \in Rows,
         NEW carried \in BOOLEAN
  PROVE  LET b == DayOf(path, a, r, carried)
         IN  /\ b \in XfaAccount /\ Open(b) /\ Solvent(b)
             /\ (a.cycles > 0 => a.floor = 0) => (b.cycles > 0 => b.floor = 0)
<1> DEFINE c == Counted(path, a, r)
           b == DayOf(path, a, r, carried)
<1>1. a.balance \in Int /\ a.floor \in Int /\ a.balance > a.floor
  BY DEF XfaAccount, Solvent
<1>2. /\ a.balance > Trail(a.floor, a.balance) /\ Trail(a.floor, a.balance) <= 0
      /\ a.floor = 0 => Trail(a.floor, a.balance) = 0
  BY <1>1, TrailBounds
<1>3. c \in XfaAccount /\ CountedTo(path, a, c, r)
  BY CountedFields
<1> HIDE DEF c
<1>4. /\ Open(c) /\ Solvent(c) /\ c.cycles = a.cycles /\ (a.floor = 0 => c.floor = 0)
  BY <1>2, <1>3 DEF CountedTo, Solvent, Open
<1>5. b \in XfaAccount /\ PaidTo(path, c, b)
  BY <1>3, PaidFields DEF c, DayOf
<1> HIDE DEF b
<1>6. Open(b) /\ Solvent(b) /\ ((a.cycles > 0 => a.floor = 0) => (b.cycles > 0 => b.floor = 0))
  <2>1. CASE b = c
    BY <1>4, <2>1
  <2>2. CASE b # c
    <3>1. b.floor = 0 /\ b.balance > 0 /\ b.end = c.end
      BY <1>5, <2>2 DEF PaidTo
    <3> QED BY <1>4, <3>1 DEF Solvent, Open
  <2> QED BY <2>1, <2>2
<1> QED BY <1>5, <1>6 DEF b

\* On the standard path a day's end depends on the balance, the floor, the
\* days and the day's profit alone, and does alike to what was paid.
Alike(a, b) == a.balance = b.balance /\ a.floor = b.floor /\ a.days = b.days /\ a.paid = b.paid

\* Accounts that are alike in these stay alike.
LEMMA DayAlike ==
  ASSUME NEW a \in XfaAccount, NEW b \in XfaAccount, Alike(a, b), NEW r \in Rows
  PROVE  Alike(DayOf("STANDARD", a, r, FALSE), DayOf("STANDARD", b, r, FALSE))
<1> DEFINE ca == Counted("STANDARD", a, r)
           cb == Counted("STANDARD", b, r)
           da == PaidOut("STANDARD", ca, FALSE)
           db == PaidOut("STANDARD", cb, FALSE)
<1>1. /\ ca \in XfaAccount /\ CountedTo("STANDARD", a, ca, r)
      /\ cb \in XfaAccount /\ CountedTo("STANDARD", b, cb, r)
  BY CountedFields DEF Paths
<1> HIDE DEF ca, cb
<1>2. Alike(ca, cb)
  BY <1>1 DEF Alike, CountedTo
<1>3. PaidTo("STANDARD", ca, da) /\ PaidTo("STANDARD", cb, db)
  BY <1>1, PaidFields DEF Paths
<1> HIDE DEF da, db
<1>4. Eligible("STANDARD", ca) <=> Eligible("STANDARD", cb)
  BY <1>2 DEF Eligible, Alike
<1>5. Alike(da, db)
  BY <1>2, <1>3, <1>4 DEF PaidTo, Alike
<1> QED BY <1>5 DEF DayOf, ca, cb, da, db

\* After a day's end, a day without trades changes nothing: it is no winning
\* day, and what could be paid was.
LEMMA DayOnce ==
  ASSUME NEW a \in XfaAccount, a.best >= 0, NEW r \in Rows
  PROVE  LET b == DayOf("STANDARD", a, r, FALSE)
         IN  DayOf("STANDARD", b, NoTrades, FALSE) = b
<1> DEFINE c == Counted("STANDARD", a, r)
           b == PaidOut("STANDARD", c, FALSE)
           d == Counted("STANDARD", b, NoTrades)
<1>1. c \in XfaAccount /\ CountedTo("STANDARD", a, c, r)
  BY CountedFields DEF Paths
<1>2. b = DayOf("STANDARD", a, r, FALSE)
  BY DEF DayOf
<1> HIDE DEF c
<1>3. b \in XfaAccount /\ PaidTo("STANDARD", c, b) /\ (b # c => b.total = 0)
  BY <1>1, PaidFields DEF Paths
<1> HIDE DEF b
<1>4. d \in XfaAccount /\ CountedTo("STANDARD", b, d, NoTrades)
  BY <1>3, CountedFields, NoTradesRow DEF Paths
<1> HIDE DEF d
<1>5. /\ a.balance \in Int /\ a.floor \in Int /\ a.best \in Int /\ r.pnl \in Int
      /\ b.balance \in Int /\ b.floor \in Int /\ b.best \in Int /\ b.total \in Int
      /\ b.days \in Int
  BY <1>3 DEF XfaAccount, Rows
<1>6. b.best >= 0 /\ Trail(b.floor, b.balance) = b.floor
  <2>1. CASE b = c
    <3>1. Trail(Trail(a.floor, a.balance), a.balance) = Trail(a.floor, a.balance)
      BY <1>5, TrailBounds
    <3> QED BY <1>1, <1>5, <2>1, <3>1 DEF CountedTo, Larger
  <2>2. CASE b # c
    <3>1. b.best = 0 /\ b.floor = 0
      BY <1>3, <2>2 DEF PaidTo
    <3>2. Trail(0, b.balance) = 0
      BY <1>5, TrailBounds
    <3> QED BY <3>1, <3>2
  <2> QED BY <2>1, <2>2
<1>7. ~(0 >= WinningDay) /\ ~(0 >= WinningDays)
  BY AccountAssumption
<1>8. d = b
  <2>1. d.best = b.best
    BY <1>4, <1>5, <1>6, NoTradesRow DEF CountedTo, Larger
  <2>2. d.total = b.total
    BY <1>4, <1>5, NoTradesRow DEF CountedTo
  <2>3. /\ d.balance = b.balance /\ d.floor = b.floor /\ d.days = b.days
        /\ d.paid = b.paid /\ d.cycles = b.cycles /\ d.end = b.end
    BY <1>4, <1>6, <1>7, NoTradesRow DEF CountedTo
  <2> QED BY <1>3, <1>4, <2>1, <2>2, <2>3, XfaEqual
<1>9. PaidOut("STANDARD", b, FALSE) = b
  <2>1. CASE b = c
    <3>1. CASE ~Eligible("STANDARD", b) \/ PayoutRequest(b.balance, StandardCap) < MinPayout
      BY <3>1 DEF PaidOut
    <3>2. CASE ~(~Eligible("STANDARD", b) \/ PayoutRequest(b.balance, StandardCap) < MinPayout)
      <4>1. c.cycles + 1 = c.cycles /\ c.cycles \in Nat
        BY <1>1, <1>3, <2>1, <3>2 DEF PaidTo, XfaAccount
      <4> QED BY <4>1
    <3> QED BY <3>1, <3>2
  <2>2. CASE b # c
    <3>1. b.days = 0
      BY <1>3, <2>2 DEF PaidTo
    <3>2. ~Eligible("STANDARD", b)
      BY <1>7, <3>1 DEF Eligible
    <3> QED BY <3>2 DEF PaidOut
  <2> QED BY <2>1, <2>2
<1>10. PaidOut("STANDARD", d, FALSE) = b
  BY <1>8, <1>9
<1> QED BY <1>2, <1>10 DEF DayOf, d

-----------------------------------------------------------------------------
(* Two replays of the same account.                                        *)

\* A trade lowers the row to what a replay by trades sees on the way.
LEMMA RowOfTrade ==
  ASSUME NEW r \in Rows, Low(r), NEW t \in Trades
  PROVE  LET s == WithTrade(r, t)
         IN  /\ s \in Rows /\ Low(s) /\ s.pnl = r.pnl + t.pnl
             /\ s.worst = Smaller(Smaller(r.worst, r.pnl + Smaller(t.worst, 0)), r.pnl + t.pnl)
<1> DEFINE pnl == r.pnl + t.pnl
           worst == Smaller(Smaller(r.worst, r.pnl + Smaller(t.worst, 0)), pnl)
           trades == r.trades + 1
           s == [pnl |-> pnl, trades |-> trades, worst |-> worst]
<1>1. /\ r.pnl \in Int /\ r.worst \in Int /\ r.trades \in Nat /\ t.pnl \in Int /\ t.worst \in Int
      /\ r.worst <= 0
  BY AccountAssumption DEF Rows, Low
<1>2. /\ pnl \in Int /\ worst \in Int /\ trades \in Nat /\ trades # 0
      /\ worst <= 0 /\ worst <= pnl
  BY <1>1 DEF Smaller
<1>3. WithTrade(r, t) = s
  BY DEF WithTrade
<1> HIDE DEF pnl, worst, trades
<1>4. s \in Rows /\ s.pnl = pnl /\ s.worst = worst /\ s.trades = trades
  BY <1>2 DEF Rows
<1> HIDE DEF s
<1>5. Low(s)
  BY <1>2, <1>4 DEF Low
<1> QED BY <1>3, <1>4, <1>5 DEF pnl, worst

\* So two replays stay in step through a trade that one of them sees.
LEMMA InStepTrade ==
  ASSUME NEW a \in Accounts, NEW b \in Accounts, NEW r \in Rows, Low(r), NEW t \in Trades,
         InStep(a, b, r), NEW c \in Accounts, TradeDone(a, c, t)
  PROVE  InStep(c, b, WithTrade(r, t))
<1> DEFINE s == WithTrade(r, t)
           lowest == Smaller(Smaller(r.worst, r.pnl + Smaller(t.worst, 0)), r.pnl + t.pnl)
<1>1. /\ a.balance \in Int /\ a.floor \in Int /\ b.balance \in Int /\ b.floor \in Int
      /\ r.pnl \in Int /\ r.worst \in Int /\ t.pnl \in Int /\ t.worst \in Int
      /\ Smaller(t.worst, 0) \in Int
  BY AccountAssumption DEF Accounts, CombineAccount, XfaAccount, Rows, Smaller
<1>2. s.pnl = r.pnl + t.pnl /\ s.worst = lowest
  BY RowOfTrade
<1>3. /\ lowest \in Int /\ lowest <= r.worst /\ lowest <= r.pnl + Smaller(t.worst, 0)
      /\ lowest <= r.pnl + t.pnl
      /\ lowest \in {r.worst, r.pnl + Smaller(t.worst, 0), r.pnl + t.pnl}
  BY <1>1 DEF Smaller
<1> HIDE DEF s, lowest
<1>4. ASSUME Complied(c) PROVE Complied(a)
  BY <1>4 DEF TradeDone, Complied, Open
<1>5. CASE ~Open(b) /\ a.end = b.end
  BY <1>5 DEF InStep, TradeDone, Open, s
<1>6. CASE /\ Open(b) /\ b.balance + r.worst > b.floor
           /\ Open(a) /\ a.balance = b.balance + r.pnl /\ a.floor = b.floor
  <2>1. CASE Open(c)
    <3>1. c.balance = b.balance + s.pnl /\ b.balance + s.worst > b.floor
      BY <1>1, <1>2, <1>3, <1>6, <2>1 DEF TradeDone
    <3> QED BY <1>6, <2>1, <3>1 DEF InStep, TradeDone, s
  <2>2. CASE ~Open(c) /\ Complied(c)
    <3>1. c.end = "MLL_BREACH"
      BY <1>6, <2>2 DEF TradeDone, Open, Complied
    <3>2. b.balance + s.worst <= b.floor
      BY <1>1, <1>2, <1>3, <1>6, <3>1 DEF TradeDone
    <3> QED BY <1>6, <3>1, <3>2 DEF InStep, s
  <2>3. CASE ~Complied(c)
    BY <2>3 DEF InStep
  <2> QED BY <2>1, <2>2, <2>3
<1>7. CASE Open(b) /\ b.balance + r.worst <= b.floor /\ a.end = "MLL_BREACH"
  <2>1. c = a
    BY <1>7 DEF TradeDone, Open
  <2>2. b.balance + s.worst <= b.floor
    BY <1>1, <1>2, <1>3, <1>7
  <2> QED BY <1>7, <2>1, <2>2 DEF InStep, s
<1> QED BY <1>4, <1>5, <1>6, <1>7 DEF InStep

\* And the end of a day brings the replays of a combine back together.
SameCombine(a, b) == a.best = b.best /\ a.required = b.required /\ a.days = b.days

\* They are in step and settled when the next day begins.
LEMMA CombineDays ==
  ASSUME NEW a \in CombineAccount, NEW b \in CombineAccount, NEW r \in Rows, Low(r),
         InStep(a, b, r), Open(a) => SameCombine(a, b), Solvent(a), Solvent(b),
         Open(b) => Judged(b, NoTrades, b.days) = b
  PROVE  LET c == CombineDay(a, r)
             d == SimulateCombine(b, r)
         IN  /\ c \in CombineAccount /\ d \in CombineAccount /\ Solvent(c) /\ Solvent(d)
             /\ InStep(c, d, NoTrades)
             /\ Open(c) => SameCombine(c, d)
             /\ Open(d) => Judged(d, NoTrades, d.days) = d
<1> DEFINE c == CombineDay(a, r)
           d == SimulateCombine(b, r)
           after == Replayed(b, r)
<1>1. /\ a.balance \in Int /\ a.floor \in Int /\ b.balance \in Int /\ b.floor \in Int
      /\ r.pnl \in Int /\ r.worst \in Int /\ r.trades \in Nat /\ a.days \in Int /\ b.days \in Int
      /\ b.best \in Int
  BY DEF CombineAccount, Rows
<1>2. /\ Open(a) => /\ c = Judged(a, r, IF r.trades > 0 THEN a.days + 1 ELSE a.days)
                   /\ c \in CombineAccount /\ Solvent(c)
      /\ ~Open(a) => c = a
  BY <1>1, JudgedFields, JudgedSolvent DEF CombineDay
<1>3. Open(b) => /\ after \in CombineAccount /\ RowDone(b, after, r) /\ SameCombine(after, b)
  BY RowKeeps DEF Accounts, SameRest, SameCombine
<1>4. ASSUME Open(b), r.trades # 0, Open(after)
      PROVE  /\ d = Judged(after, r, b.days + 1) /\ d \in CombineAccount /\ Solvent(d)
             /\ Open(d) => Judged(d, NoTrades, d.days) = d
  <2>1. d = Judged(after, r, b.days + 1)
    BY <1>3, <1>4 DEF SimulateCombine, SameCombine
  <2>2. after.balance > after.floor /\ after.floor <= 0
    BY <1>1, <1>3, <1>4 DEF RowDone, Solvent, Open
  <2>3. d \in CombineAccount /\ JudgedTo(after, d, r, b.days + 1) /\ Solvent(d)
    BY SMTT(30), <1>1, <1>3, <1>4, <2>1, <2>2, JudgedFields, JudgedSolvent DEF Solvent
  <2>4. after.best >= 0
    <3>1. JudgedTo(b, b, NoTrades, b.days)
      BY <1>1, <1>4, JudgedFields, NoTradesRow
    <3> QED BY <1>1, <1>3, <1>4, <3>1, NoTradesRow DEF JudgedTo, Larger, SameCombine
  <2>5. Open(d) => Judged(d, NoTrades, d.days) = d
    BY <1>1, <1>3, <1>4, <2>3, <2>4, JudgedOnce
  <2> QED BY <2>1, <2>3, <2>5
<1>5. ASSUME Open(b), r.trades # 0, ~Open(after)
      PROVE  d = after
  BY <1>5 DEF SimulateCombine
<1>6. ASSUME ~Open(b) \/ r.trades = 0
      PROVE  d = b
  BY <1>6 DEF SimulateCombine
<1>7. /\ c \in CombineAccount /\ Solvent(c) /\ d \in CombineAccount /\ Solvent(d)
      /\ Open(d) => Judged(d, NoTrades, d.days) = d
  BY <1>2, <1>3, <1>4, <1>5, <1>6 DEF Solvent
<1>8. InStep(c, d, NoTrades) /\ (Open(c) => SameCombine(c, d))
  <2>1. CASE ~Complied(a)
    BY <1>2, <2>1 DEF InStep, Complied, Open
  <2>2. CASE ~Open(b) /\ a.end = b.end
    BY <1>2, <1>6, <2>2 DEF InStep, Open
  <2>3. CASE Open(b) /\ b.balance + r.worst <= b.floor /\ a.end = "MLL_BREACH"
    <3>1. r.trades # 0
      BY <1>1, <2>3, NoTradesRow DEF Low, Solvent
    <3>2. ~Open(after) /\ after.end = "MLL_BREACH"
      BY <1>1, <1>3, <2>3 DEF RowDone, Open
    <3> QED BY <1>2, <1>5, <2>3, <3>1, <3>2 DEF InStep, Open
  <2>4. CASE /\ Open(b) /\ b.balance + r.worst > b.floor
             /\ Open(a) /\ a.balance = b.balance + r.pnl /\ a.floor = b.floor
    <3>1. c = d
      <4>1. CASE r.trades = 0
        <5>1. a = b
          BY <1>1, <2>4, <4>1, NoTradesRow, CombineEqual DEF Low, SameCombine, Open
        <5>2. c = Judged(a, NoTrades, a.days)
          BY <1>2, <2>4, <4>1 DEF Low
        <5> QED BY <1>6, <2>4, <4>1, <5>1, <5>2
      <4>2. CASE r.trades # 0
        <5>1. /\ after.balance = a.balance /\ after.floor = a.floor /\ after.end = "OPEN"
          BY <1>1, <1>3, <2>4 DEF RowDone, Low
        <5>2. after = a
          BY <1>3, <2>4, <5>1, CombineEqual DEF SameCombine, Open
        <5>3. a.days = b.days /\ r.trades > 0
          BY <1>1, <2>4, <4>2 DEF SameCombine
        <5> QED BY <1>2, <1>4, <2>4, <4>2, <5>2, <5>3
      <4> QED BY <4>1, <4>2
    <3>2. c.end = "OPEN" => c.balance + 0 > c.floor
      BY <1>7 DEF Solvent, Open, CombineAccount
    <3>3. c.balance = c.balance + 0
      BY <1>7 DEF CombineAccount
    <3> QED BY <3>1, <3>2, <3>3, NoTradesRow DEF InStep, Open, SameCombine
  <2> QED BY <2>1, <2>2, <2>3, <2>4 DEF InStep
<1> QED BY <1>7, <1>8

\* The end of a day in a funded account keeps it solvent, on either path and
\* by either replay.
LEMMA XfaDaySolvent ==
  ASSUME NEW path \in Paths, NEW a \in XfaAccount, Solvent(a), NEW r \in Rows
  PROVE  LET c == XfaDay(path, a, r)
         IN  /\ c \in XfaAccount /\ Solvent(c)
             /\ (a.cycles > 0 => a.floor = 0) => (c.cycles > 0 => c.floor = 0)
<1>1. CASE Open(a)
  BY <1>1, DaySolvent DEF XfaDay, DayOf
<1>2. CASE ~Open(a)
  BY <1>2 DEF XfaDay
<1> QED BY <1>1, <1>2

\* The same of the replay by rows.
LEMMA SimulateXfaSolvent ==
  ASSUME NEW path \in Paths, NEW b \in XfaAccount, Solvent(b), NEW r \in Rows, Low(r)
  PROVE  SimulateXfa(path, b, r) \in XfaAccount /\ Solvent(SimulateXfa(path, b, r))
<1> DEFINE after == Replayed(b, r)
<1>1. CASE r.trades = 0 \/ ~Open(b)
  BY <1>1 DEF SimulateXfa
<1>2. CASE r.trades # 0 /\ Open(b)
  <2>1. after \in XfaAccount /\ RowDone(b, after, r)
    BY <1>2, RowKeeps DEF Accounts, SameRest
  <2>2. CASE Open(after)
    <3>1. Solvent(after)
      BY <1>2, <2>1, <2>2 DEF RowDone, Solvent, Open, XfaAccount, Rows
    <3>2. SimulateXfa(path, b, r) = DayOf(path, after, r, path = "CONSISTENCY")
      BY <1>2, <2>2 DEF SimulateXfa, DayOf
    <3> QED BY <2>1, <2>2, <3>1, <3>2, DaySolvent
  <2>3. CASE ~Open(after)
    BY <1>2, <2>1, <2>3 DEF SimulateXfa, Solvent
  <2> QED BY <2>2, <2>3
<1> QED BY <1>1, <1>2

\* The standard replays of a funded account come together at a day's end.
SameXfa(a, b) == (Complied(a) => a.paid = b.paid) /\ (Open(a) => a.days = b.days)

\* They are in step and settled when the next day begins.
LEMMA XfaDays ==
  ASSUME NEW a \in XfaAccount, NEW b \in XfaAccount, NEW r \in Rows, Low(r),
         InStep(a, b, r), SameXfa(a, b), Solvent(a), Solvent(b),
         Open(b) => DayOf("STANDARD", b, NoTrades, FALSE) = b
  PROVE  LET c == XfaDay("STANDARD", a, r)
             d == SimulateXfa("STANDARD", b, r)
         IN  /\ InStep(c, d, NoTrades) /\ SameXfa(c, d)
             /\ Open(d) => DayOf("STANDARD", d, NoTrades, FALSE) = d
<1> DEFINE c == XfaDay("STANDARD", a, r)
           d == SimulateXfa("STANDARD", b, r)
           after == Replayed(b, r)
<1>1. /\ a.balance \in Int /\ a.floor \in Int /\ b.balance \in Int /\ b.floor \in Int
      /\ r.pnl \in Int /\ r.worst \in Int /\ r.trades \in Nat /\ b.best \in Int
  BY DEF XfaAccount, Rows
<1>2. /\ Open(a) => c = DayOf("STANDARD", a, r, FALSE) /\ Open(c)
      /\ ~Open(a) => c = a
      /\ c \in XfaAccount /\ Solvent(c)
  BY DaySolvent, XfaDaySolvent DEF XfaDay, DayOf, Paths
<1>3. Open(b) => /\ after \in XfaAccount /\ RowDone(b, after, r)
                /\ after.paid = b.paid /\ after.days = b.days /\ after.best = b.best
  BY RowKeeps DEF Accounts, SameRest
<1>4. ASSUME Open(b), r.trades # 0, Open(after)
      PROVE  /\ d = DayOf("STANDARD", after, r, FALSE) /\ Open(d)
             /\ DayOf("STANDARD", d, NoTrades, FALSE) = d
  <2>1. d = DayOf("STANDARD", after, r, FALSE)
    BY <1>4 DEF SimulateXfa, DayOf
  <2>2. Solvent(after)
    BY <1>1, <1>3, <1>4 DEF RowDone, Solvent, Open
  <2>3. Open(d)
    BY <1>3, <1>4, <2>1, <2>2, DaySolvent DEF Paths
  <2>4. after.best >= 0
    <3>1. b.best = Larger(b.best, 0) \/ b.best = 0
      <4> DEFINE e == Counted("STANDARD", b, NoTrades)
      <4>1. e \in XfaAccount /\ CountedTo("STANDARD", b, e, NoTrades)
        BY CountedFields, NoTradesRow DEF Paths
      <4>2. PaidTo("STANDARD", e, b)
        BY <1>4, <4>1, PaidFields DEF DayOf, Paths
      <4> HIDE DEF e
      <4> QED BY <4>1, <4>2, NoTradesRow DEF CountedTo, PaidTo
    <3> QED BY <1>1, <1>3, <1>4, <3>1 DEF Larger
  <2>5. DayOf("STANDARD", d, NoTrades, FALSE) = d
    BY <1>3, <1>4, <2>1, <2>4, DayOnce
  <2> QED BY <2>1, <2>3, <2>5
<1>5. ASSUME Open(b), r.trades # 0, ~Open(after)
      PROVE  d = after
  BY <1>5 DEF SimulateXfa
<1>6. ASSUME ~Open(b) \/ r.trades = 0
      PROVE  d = b
  BY <1>6 DEF SimulateXfa
<1>7. Open(d) => DayOf("STANDARD", d, NoTrades, FALSE) = d
  BY <1>4, <1>5, <1>6
<1>8. InStep(c, d, NoTrades) /\ SameXfa(c, d)
  <2>1. CASE ~Complied(a)
    BY <1>2, <2>1 DEF InStep, Complied, Open, SameXfa
  <2>2. CASE Complied(a) /\ ~Open(b) /\ a.end = b.end
    BY <1>2, <1>6, <2>2 DEF InStep, Open, SameXfa
  <2>3. CASE Open(b) /\ b.balance + r.worst <= b.floor /\ a.end = "MLL_BREACH"
    <3>1. r.trades # 0
      BY <1>1, <2>3, NoTradesRow DEF Low, Solvent
    <3>2. ~Open(after) /\ after.end = "MLL_BREACH"
      BY <1>1, <1>3, <2>3 DEF RowDone, Open
    <3>3. c = a /\ d = after /\ a.paid = after.paid
      BY <1>2, <1>3, <1>5, <2>3, <3>1, <3>2 DEF Open, SameXfa, Complied
    <3> QED BY <2>3, <3>2, <3>3 DEF InStep, Open, SameXfa
  <2>4. CASE /\ Open(b) /\ b.balance + r.worst > b.floor
             /\ Open(a) /\ a.balance = b.balance + r.pnl /\ a.floor = b.floor
    <3>0. Complied(a)
      BY <2>4 DEF Open, Complied
    <3>1. Alike(c, d) /\ Open(d)
      <4>1. CASE r.trades = 0
        <5>1. Alike(a, b) /\ r = NoTrades
          BY <1>1, <2>4, <3>0, <4>1, NoTradesRow DEF Low, SameXfa, Alike
        <5>2. c = DayOf("STANDARD", a, NoTrades, FALSE)
          BY <1>2, <2>4, <5>1
        <5>3. Alike(c, DayOf("STANDARD", b, NoTrades, FALSE))
          BY <5>1, <5>2, DayAlike, NoTradesRow
        <5> QED BY <1>6, <2>4, <4>1, <5>3
      <4>2. CASE r.trades # 0
        <5>1. Alike(a, after) /\ Open(after)
          BY <1>1, <1>3, <2>4, <3>0 DEF RowDone, Low, SameXfa, Alike, Open
        <5>2. Alike(DayOf("STANDARD", a, r, FALSE), DayOf("STANDARD", after, r, FALSE))
          BY <1>3, <2>4, <5>1, DayAlike
        <5> QED BY <1>2, <1>4, <2>4, <4>2, <5>1, <5>2
      <4> QED BY <4>1, <4>2
    <3>2. Open(c) /\ c.balance > c.floor /\ c.balance \in Int
      BY <1>2, <2>4 DEF Solvent, XfaAccount
    <3>3. d.balance + 0 > d.floor /\ c.balance = d.balance + 0 /\ c.floor = d.floor
      BY <3>1, <3>2 DEF Alike
    <3> QED BY <3>1, <3>2, <3>3, NoTradesRow DEF InStep, SameXfa, Alike
  <2> QED BY <2>1, <2>2, <2>3, <2>4 DEF InStep
<1> QED BY <1>7, <1>8

-----------------------------------------------------------------------------
(* The audit.                                                              *)

Audits == [balance : Int, floor : Int, end : {"OPEN", "MLL_BREACH"}]

\* An audit that stays open looked below the trade's worst point, and moved
\* its floor as a day's end would.
LEMMA AuditedFields ==
  ASSUME NEW a \in Audits, Open(a), Solvent(a), NEW t \in Trades
  PROVE  LET b == Audited(a, t)
         IN  /\ b \in Audits /\ Solvent(b)
             /\ Open(b) => /\ a.balance + t.worst > a.floor /\ b.balance = a.balance + t.pnl
                          /\ b.balance > a.floor /\ b.floor = Trail(a.floor, b.balance)
<1> DEFINE balance == a.balance + t.pnl
           moved == Trail(a.floor, balance)
           ended == [a EXCEPT !.balance = balance, !.end = "MLL_BREACH"]
           open == [a EXCEPT !.balance = balance, !.floor = moved]
<1>1. /\ a.balance \in Int /\ a.floor \in Int /\ t.pnl \in Int /\ t.worst \in Int
      /\ balance \in Int /\ Slippage \in Nat
  BY AccountAssumption DEF Audits
<1>2. /\ moved \in Int /\ moved <= 0 /\ (balance > a.floor => balance > moved)
  BY <1>1, TrailBounds
<1>3. Audited(a, t) = IF a.balance + t.worst - Slippage <= a.floor THEN End(a, "MLL_BREACH")
                      ELSE IF balance <= a.floor THEN ended ELSE open
  BY DEF Audited, Trail
<1> HIDE DEF balance, moved
<1>4. End(a, "MLL_BREACH") \in Audits /\ End(a, "MLL_BREACH").end = "MLL_BREACH"
  BY DEF Audits, End
<1>5. ended \in Audits /\ ended.end = "MLL_BREACH"
  BY <1>1 DEF Audits
<1>6. /\ open \in Audits /\ open.end = a.end /\ open.balance = balance /\ open.floor = moved
  BY <1>1, <1>2 DEF Audits
<1> HIDE DEF ended, open
<1>7. CASE a.balance + t.worst - Slippage <= a.floor \/ balance <= a.floor
  BY <1>3, <1>4, <1>5, <1>7 DEF Solvent, Open
<1>8. CASE ~(a.balance + t.worst - Slippage <= a.floor \/ balance <= a.floor)
  <2>1. a.balance + t.worst > a.floor /\ balance > a.floor
    BY <1>1, <1>8
  <2>2. Audited(a, t) = open
    BY <1>3, <1>8
  <2> QED BY <1>2, <1>6, <2>1, <2>2 DEF Solvent, Open, balance, moved
<1> QED BY <1>7, <1>8

-----------------------------------------------------------------------------
(* The invariant.                                                          *)

\* The parts that each account rests on.
LEMMA Unfolded ==
  ASSUME AccountInv
  PROVE  /\ combine \in CombineAccount /\ dailyCombine \in CombineAccount /\ audit \in Audits
         /\ \A p \in Paths : xfa[p] \in XfaAccount /\ dailyXfa[p] \in XfaAccount
         /\ row \in Rows /\ Low(row) /\ session \in Nat
         /\ kept \in Rows /\ Low(kept) /\ overlaid \in CombineAccount /\ Solvent(overlaid)
         /\ skipped \in BOOLEAN
         /\ Solvent(combine) /\ Solvent(dailyCombine) /\ Solvent(audit)
         /\ \A p \in Paths : /\ Solvent(xfa[p]) /\ Solvent(dailyXfa[p])
                             /\ xfa[p].cycles > 0 => xfa[p].floor = 0
         /\ InStep(combine, dailyCombine, row)
         /\ (Open(combine) => SameCombine(combine, dailyCombine))
         /\ InStep(xfa["STANDARD"], dailyXfa["STANDARD"], row)
         /\ SameXfa(xfa["STANDARD"], dailyXfa["STANDARD"])
<1>1. /\ combine \in CombineAccount /\ dailyCombine \in CombineAccount /\ audit \in Audits
      /\ \A p \in Paths : xfa[p] \in XfaAccount /\ dailyXfa[p] \in XfaAccount
      /\ row \in Rows /\ Low(row) /\ session \in Nat
      /\ kept \in Rows /\ Low(kept) /\ overlaid \in CombineAccount /\ skipped \in BOOLEAN
  BY DEF AccountInv, AccountTypeOK, Audits, Rows
<1>2. /\ Solvent(combine) /\ Solvent(dailyCombine) /\ Solvent(overlaid) /\ Solvent(audit)
      /\ \A p \in Paths : /\ Solvent(xfa[p]) /\ Solvent(dailyXfa[p])
                          /\ xfa[p].cycles > 0 => xfa[p].floor = 0
  BY DEF AccountInv, OpenIsSolvent, Solvent
<1>3. /\ InStep(combine, dailyCombine, row)
      /\ (Open(combine) => SameCombine(combine, dailyCombine))
      /\ InStep(xfa["STANDARD"], dailyXfa["STANDARD"], row)
      /\ SameXfa(xfa["STANDARD"], dailyXfa["STANDARD"])
  BY DEF AccountInv, ReplaysInStep, SameCombine, SameXfa
<1> QED BY <1>1, <1>2, <1>3

\* And the other way round: what they show after a step.
LEMMA Folded ==
  ASSUME combine' \in CombineAccount, dailyCombine' \in CombineAccount, audit' \in Audits,
         xfa' \in [Paths -> XfaAccount], dailyXfa' \in [Paths -> XfaAccount],
         row' \in Rows, Low(row'), session' \in Nat,
         kept' \in Rows, Low(kept'), overlaid' \in CombineAccount, Solvent(overlaid'),
         skipped' \in BOOLEAN, OverlayInStep',
         Solvent(combine'), Solvent(dailyCombine'), Solvent(audit'),
         \A p \in Paths : /\ Solvent(xfa'[p]) /\ Solvent(dailyXfa'[p])
                          /\ xfa'[p].cycles > 0 => xfa'[p].floor = 0,
         InStep(combine', dailyCombine', row'),
         Open(combine') => SameCombine(combine', dailyCombine'),
         InStep(xfa'["STANDARD"], dailyXfa'["STANDARD"], row'),
         SameXfa(xfa'["STANDARD"], dailyXfa'["STANDARD"]),
         AuditIsAhead', AuditIsConservative', Settled'
  PROVE  AccountInv'
<1>1. AccountTypeOK' /\ Low(row)' /\ Low(kept)'
  BY DEF AccountTypeOK, Audits, Rows, Low, NoTrades
<1>2. OpenIsSolvent'
  BY DEF OpenIsSolvent, Solvent, Open
<1>3. ReplaysInStep'
  BY DEF ReplaysInStep, SameCombine, SameXfa, InStep, Open, Complied
<1> QED BY <1>1, <1>2, <1>3 DEF AccountInv

\* The end of a day keeps an account replayed by rows solvent.
LEMMA SimulateCombineSolvent ==
  ASSUME NEW a \in CombineAccount, Solvent(a), NEW r \in Rows
  PROVE  SimulateCombine(a, r) \in CombineAccount /\ Solvent(SimulateCombine(a, r))
<1> DEFINE after == Replayed(a, r)
<1>1. CASE r.trades = 0 \/ ~Open(a)
  BY <1>1 DEF SimulateCombine
<1>2. CASE r.trades # 0 /\ Open(a)
  <2>1. after \in CombineAccount /\ RowDone(a, after, r)
    BY <1>2, RowKeeps DEF Accounts, SameRest
  <2>2. a.days + 1 \in Int /\ a.balance \in Int /\ a.floor \in Int /\ r.pnl \in Int
    BY DEF CombineAccount, Rows
  <2>3. CASE Open(after)
    <3>1. Solvent(after)
      BY <1>2, <2>1, <2>2, <2>3 DEF RowDone, Solvent, Open
    <3>2. SimulateCombine(a, r) = Judged(after, r, a.days + 1)
      BY <1>2, <2>3 DEF SimulateCombine
    <3> HIDE DEF after
    <3> QED BY <2>1, <2>2, <2>3, <3>1, <3>2, JudgedFields, JudgedSolvent
  <2>4. CASE ~Open(after)
    <3>1. SimulateCombine(a, r) = after
      BY <1>2, <2>4 DEF SimulateCombine
    <3> QED BY <2>1, <2>4, <3>1 DEF Solvent
  <2> QED BY <2>3, <2>4
<1> QED BY <1>1, <1>2

\* A trade, under the overlay: it keeps in step until it leaves one out.
LEMMA OverlayTrade ==
  ASSUME AccountInv, NEW t \in Trades, Trade(t)
  PROVE  /\ kept' \in Rows /\ Low(kept') /\ overlaid' = overlaid /\ skipped' \in BOOLEAN
         /\ OverlayInStep'
<1>1. /\ kept' = IF Taken(kept) THEN WithTrade(kept, t) ELSE kept
      /\ skipped' = (skipped \/ (Open(overlaid) /\ ~Taken(kept)))
      /\ row' = WithTrade(row, t) /\ overlaid' = overlaid /\ dailyCombine' = dailyCombine
  BY DEF Trade
<1>2. kept' \in Rows /\ Low(kept')
  BY <1>1, Unfolded, RowOfTrade
<1>3. skipped' \in BOOLEAN /\ (~skipped' => ~skipped /\ (Open(overlaid) => Taken(kept)))
  BY <1>1, Unfolded
<1>4. ~skipped => overlaid = dailyCombine /\ (Open(overlaid) => kept = row)
  BY DEF AccountInv, OverlayInStep
<1>5. ~skipped' => overlaid' = dailyCombine' /\ (Open(overlaid') => kept' = row')
  BY <1>1, <1>3, <1>4
<1> QED BY <1>1, <1>2, <1>3, <1>5 DEF OverlayInStep

\* The end of a day, under the overlay.
LEMMA OverlayDay ==
  ASSUME AccountInv, EndSession
  PROVE  /\ kept' \in Rows /\ Low(kept') /\ overlaid' \in CombineAccount /\ Solvent(overlaid')
         /\ skipped' \in BOOLEAN /\ OverlayInStep'
<1>1. /\ overlaid' = SimulateCombine(overlaid, kept) /\ skipped' = skipped
      /\ dailyCombine' = SimulateCombine(dailyCombine, row)
      /\ kept' = NoTrades /\ row' = NoTrades
  BY DEF EndSession
<1>2. overlaid' \in CombineAccount /\ Solvent(overlaid') /\ skipped' \in BOOLEAN
  BY <1>1, Unfolded, SimulateCombineSolvent
<1>3. kept' \in Rows /\ Low(kept')
  BY <1>1, NoTradesRow DEF Low
<1>4. ~skipped => overlaid = dailyCombine /\ (Open(overlaid) => kept = row)
  BY DEF AccountInv, OverlayInStep
<1>5. ~skipped => overlaid' = dailyCombine'
  BY <1>1, <1>4 DEF SimulateCombine
<1> QED BY <1>1, <1>2, <1>3, <1>5 DEF OverlayInStep

\* What the audit covers in the accounts that take every trade, it covers
\* under an overlay that has left none out.
LEMMA AuditCovers ==
  ASSUME OverlayInStep', \A a \in {combine', dailyCombine'} : a.end = "MLL_BREACH" =>
                                                               audit'.end = "MLL_BREACH"
  PROVE  AuditIsConservative'
BY DEF OverlayInStep, AuditIsConservative

\* A trade: what it does to each account, then to the audit beside them.
LEMMA TradeStep ==
  ASSUME AccountInv, NEW t \in Trades, Trade(t)
  PROVE  AccountInv'
<1>1. /\ row' = WithTrade(row, t) /\ combine' = Traded(combine, t, MaxSize)
      /\ audit' = IF Open(audit) THEN Audited(audit, t) ELSE audit
      /\ xfa' = [p \in Paths |-> Traded(xfa[p], t, ScalingPlan(xfa[p].balance))]
      /\ session' = session /\ dailyCombine' = dailyCombine /\ dailyXfa' = dailyXfa
  BY DEF Trade
<1>2. /\ t.pnl \in Int /\ t.worst \in Int /\ row.pnl \in Int /\ row.worst \in Int
      /\ combine.balance \in Int /\ combine.floor \in Int
      /\ dailyCombine.balance \in Int /\ dailyCombine.floor \in Int
      /\ audit.balance \in Int /\ audit.floor \in Int /\ audit.end \in {"OPEN", "MLL_BREACH"}
  BY Unfolded, AccountAssumption DEF CombineAccount, Audits, Rows
<1>3. /\ row' \in Rows /\ Low(row') /\ row'.pnl = row.pnl + t.pnl
      /\ row'.worst = Smaller(Smaller(row.worst, row.pnl + Smaller(t.worst, 0)), row.pnl + t.pnl)
  BY <1>1, Unfolded, RowOfTrade
<1>4. /\ SameRest(combine, combine') /\ TradeDone(combine, combine', t)
      /\ combine' \in CombineAccount /\ Solvent(combine')
  <2>1. /\ SameRest(combine, combine') /\ TradeDone(combine, combine', t)
        /\ combine' \in CombineAccount
    BY <1>1, Unfolded, TradeKeeps DEF Accounts, SameRest
  <2> QED BY <2>1, Unfolded DEF TradeDone, Solvent
<1>5. ASSUME NEW p \in Paths
      PROVE  /\ SameRest(xfa[p], xfa'[p]) /\ TradeDone(xfa[p], xfa'[p], t)
             /\ xfa'[p] \in XfaAccount /\ Solvent(xfa'[p])
             /\ xfa'[p].cycles > 0 => xfa'[p].floor = 0
  <2>1. /\ SameRest(xfa[p], xfa'[p]) /\ TradeDone(xfa[p], xfa'[p], t)
        /\ xfa'[p] \in XfaAccount
    BY <1>1, Unfolded, TradeKeeps DEF Accounts, SameRest
  <2> QED BY <2>1, Unfolded DEF TradeDone, Solvent, SameRest
<1>6. xfa' \in [Paths -> XfaAccount] /\ dailyXfa' \in [Paths -> XfaAccount]
  BY <1>1, <1>5 DEF AccountInv, AccountTypeOK
<1>7. /\ audit' \in Audits /\ Solvent(audit')
      /\ Open(audit') =>
           /\ Open(audit) /\ audit.balance + t.worst > audit.floor
           /\ audit'.balance = audit.balance + t.pnl /\ audit'.balance > audit.floor
           /\ audit'.floor = Trail(audit.floor, audit'.balance)
  BY <1>1, Unfolded, AuditedFields
<1>8. InStep(combine', dailyCombine', row')
  BY <1>1, <1>4, Unfolded, InStepTrade DEF Accounts
<1>9. Open(combine') => SameCombine(combine', dailyCombine')
  BY <1>1, <1>4, Unfolded DEF TradeDone, SameRest, SameCombine
<1>10. /\ InStep(xfa'["STANDARD"], dailyXfa'["STANDARD"], row')
       /\ SameXfa(xfa'["STANDARD"], dailyXfa'["STANDARD"])
  <2>1. InStep(xfa'["STANDARD"], dailyXfa'["STANDARD"], row')
    BY <1>1, <1>5, Unfolded, InStepTrade DEF Accounts, Paths
  <2>2. /\ SameRest(xfa["STANDARD"], xfa'["STANDARD"])
        /\ TradeDone(xfa["STANDARD"], xfa'["STANDARD"], t)
        /\ xfa["STANDARD"] \in XfaAccount
    BY <1>5, Unfolded DEF Paths
  <2> QED BY <1>1, <2>1, <2>2, Unfolded DEF TradeDone, SameRest, SameXfa, Complied, Open
<1>11. Settled'
  BY <1>1 DEF AccountInv, Settled
<1>12. AuditIsAhead'
  <2> SUFFICES ASSUME Open(audit') PROVE AuditIsAhead'
    BY DEF AuditIsAhead
  <2>1. /\ audit'.floor \in Int /\ audit'.floor >= Smaller(0, audit'.balance - MaxLoss)
        /\ audit'.floor >= audit.floor
    <3>1. audit.floor <= 0 /\ MaxLoss \in Nat /\ audit'.balance \in Int
      BY <1>2, <1>7, Unfolded, AccountAssumption DEF Solvent
    <3> QED BY <1>2, <1>7, <3>1 DEF Trail, Smaller, Larger
  <2>2. Open(combine') => audit'.balance = combine'.balance /\ audit'.floor >= combine'.floor
    BY <1>2, <1>4, <1>7, <2>1 DEF AccountInv, AuditIsAhead, TradeDone
  <2>3. ASSUME Open(dailyCombine)
        PROVE  /\ audit'.balance = dailyCombine.balance + row'.pnl
               /\ audit'.floor >= dailyCombine.floor
               /\ dailyCombine.balance + row'.worst > dailyCombine.floor
    <3>1. /\ audit.balance = dailyCombine.balance + row.pnl /\ audit.floor >= dailyCombine.floor
          /\ dailyCombine.balance + row.worst > dailyCombine.floor
      BY <1>7, <2>3 DEF AccountInv, AuditIsAhead
    <3>2. audit.balance > audit.floor
      BY <1>7, Unfolded DEF Solvent
    <3> QED BY <1>2, <1>3, <1>7, <2>1, <3>1, <3>2 DEF Smaller
  <2> QED BY <1>1, <2>1, <2>2, <2>3 DEF AuditIsAhead
<1>14. \A a \in {combine', dailyCombine'} : a.end = "MLL_BREACH" => audit'.end = "MLL_BREACH"
  <2>1. CASE ~Open(audit)
    <3>1. audit.end = "MLL_BREACH" /\ audit' = audit
      BY <1>1, <1>2, <2>1 DEF Open
    <3> QED BY <3>1
  <2>2. CASE Open(audit)
    <3>1. ASSUME combine'.end = "MLL_BREACH" PROVE audit'.end = "MLL_BREACH"
      <4>1. Open(combine)
        BY <1>4, <2>2, <3>1 DEF TradeDone, AccountInv, AuditIsConservative, Open
      <4>2. audit.balance = combine.balance /\ audit.floor >= combine.floor
        BY <2>2, <4>1 DEF AccountInv, AuditIsAhead
      <4>3. audit.balance > audit.floor
        BY <2>2, Unfolded DEF Solvent
      <4>4. ~Open(audit')
        BY <1>2, <1>4, <1>7, <3>1, <4>1, <4>2, <4>3 DEF TradeDone, Smaller
      <4> QED BY <1>7, <4>4 DEF Open, Audits
    <3>2. dailyCombine'.end # "MLL_BREACH"
      BY <1>1, <2>2 DEF AccountInv, AuditIsConservative, Open
    <3> QED BY <3>1, <3>2
  <2> QED BY <2>1, <2>2
<1>13. /\ kept' \in Rows /\ Low(kept') /\ overlaid' = overlaid /\ skipped' \in BOOLEAN
       /\ OverlayInStep'
  BY OverlayTrade
<1>15. AuditIsConservative'
  BY <1>13, <1>14, AuditCovers
<1> QED
  BY <1>1, <1>3, <1>4, <1>5, <1>6, <1>7, <1>8, <1>9, <1>10, <1>11, <1>12, <1>13, <1>15, Unfolded,
     Folded

\* How a day's end moves the balance, the floor and the verdict of the
\* replays that the audit is compared with.
LEMMA DayEnds ==
  ASSUME NEW a \in CombineAccount, NEW b \in CombineAccount, NEW r \in Rows, Low(r)
  PROVE  LET c == CombineDay(a, r)
             d == SimulateCombine(b, r)
         IN  /\ Open(c) => Open(a) /\ c.balance = a.balance
                            /\ c.floor = Trail(a.floor, a.balance)
             /\ c.end = "MLL_BREACH" => a.end = "MLL_BREACH"
             /\ Open(d) => /\ Open(b) /\ d.balance = b.balance + r.pnl
                           /\ d.floor \in {b.floor, Trail(b.floor, b.balance + r.pnl)}
             /\ d.end = "MLL_BREACH" =>
                  b.end = "MLL_BREACH" \/ (Open(b) /\ b.balance + r.worst <= b.floor)
<1> DEFINE c == CombineDay(a, r)
           d == SimulateCombine(b, r)
           after == Replayed(b, r)
<1>1. /\ a.days \in Int /\ a.balance \in Int /\ b.balance \in Int /\ b.floor \in Int
      /\ b.days \in Int
      /\ r.pnl \in Int /\ r.worst \in Int /\ r.worst <= r.pnl
  BY DEF CombineAccount, Rows, Low
<1>2. /\ Open(c) => /\ Open(a) /\ c.balance = a.balance
                    /\ c.floor = Trail(a.floor, a.balance)
      /\ c.end = "MLL_BREACH" => a.end = "MLL_BREACH"
  <2>1. CASE Open(a)
    <3>1. PICK days \in Int : c = Judged(a, r, days)
      BY <1>1, <2>1 DEF CombineDay
    <3> QED BY <2>1, <3>1, JudgedFields DEF JudgedTo
  <2>2. CASE ~Open(a)
    BY <2>2 DEF CombineDay
  <2> QED BY <2>1, <2>2
<1> HIDE DEF c
<1>4. Open(b) => after \in CombineAccount /\ RowDone(b, after, r)
  BY RowKeeps DEF Accounts, SameRest
<1>5. CASE ~Open(b) \/ r.trades = 0
  <2>1. d = b
    BY <1>5 DEF SimulateCombine
  <2>2. Open(b) => r.pnl = 0
    BY <1>5, NoTradesRow DEF Low
  <2>3. Open(d) => Open(b) /\ d.balance = b.balance + r.pnl /\ d.floor = b.floor
    BY <1>1, <2>1, <2>2
  <2>4. d.end = "MLL_BREACH" => b.end = "MLL_BREACH"
    BY <2>1
  <2> QED BY <1>2, <2>3, <2>4 DEF c
<1>6. CASE Open(b) /\ r.trades # 0 /\ Open(after)
  <2>1. d = Judged(after, r, b.days + 1)
    BY <1>6 DEF SimulateCombine
  <2>2. JudgedTo(after, d, r, b.days + 1)
    BY <1>1, <1>4, <1>6, <2>1, JudgedFields
  <2> HIDE DEF d
  <2>3. d.balance = b.balance + r.pnl /\ d.floor = Trail(b.floor, b.balance + r.pnl)
    BY <1>4, <1>6, <2>2 DEF JudgedTo, RowDone
  <2>4. d.end # "MLL_BREACH"
    BY <2>2 DEF JudgedTo
  <2> QED BY <1>2, <1>6, <2>3, <2>4 DEF c, d
<1>7. CASE Open(b) /\ r.trades # 0 /\ ~Open(after)
  <2>1. d = after
    BY <1>7 DEF SimulateCombine
  <2>2. b.balance + r.worst <= b.floor
    BY <1>1, <1>4, <1>7 DEF RowDone, Open
  <2> QED BY <1>2, <1>7, <2>1, <2>2 DEF c
<1> QED BY <1>5, <1>6, <1>7 DEF c

\* The end of a session, which the audit does not see.
LEMMA SessionStep ==
  ASSUME AccountInv, EndSession
  PROVE  AccountInv'
<1>1. /\ session' = session + 1 /\ combine' = CombineDay(combine, row)
      /\ dailyCombine' = SimulateCombine(dailyCombine, row)
      /\ xfa' = [p \in Paths |-> XfaDay(p, xfa[p], row)]
      /\ dailyXfa' = [p \in Paths |-> SimulateXfa(p, dailyXfa[p], row)]
      /\ row' = NoTrades /\ audit' = audit
  BY DEF EndSession
<1>2. Settled
  BY DEF AccountInv
<1>3. /\ combine' \in CombineAccount /\ dailyCombine' \in CombineAccount
      /\ Solvent(combine') /\ Solvent(dailyCombine')
      /\ InStep(combine', dailyCombine', NoTrades)
      /\ Open(combine') => SameCombine(combine', dailyCombine')
      /\ Open(dailyCombine') => Judged(dailyCombine', NoTrades, dailyCombine'.days) = dailyCombine'
  BY <1>1, <1>2, Unfolded, CombineDays DEF Settled
<1>4. ASSUME NEW p \in Paths
      PROVE  /\ xfa'[p] \in XfaAccount /\ dailyXfa'[p] \in XfaAccount
             /\ Solvent(xfa'[p]) /\ Solvent(dailyXfa'[p])
             /\ xfa'[p].cycles > 0 => xfa'[p].floor = 0
  BY <1>1, Unfolded, XfaDaySolvent, SimulateXfaSolvent
<1>5. xfa' \in [Paths -> XfaAccount] /\ dailyXfa' \in [Paths -> XfaAccount]
  BY <1>1, <1>4
<1>6. /\ InStep(xfa'["STANDARD"], dailyXfa'["STANDARD"], NoTrades)
      /\ SameXfa(xfa'["STANDARD"], dailyXfa'["STANDARD"])
      /\ Open(dailyXfa'["STANDARD"]) =>
           DayOf("STANDARD", dailyXfa'["STANDARD"], NoTrades, FALSE) = dailyXfa'["STANDARD"]
  <2>1. Open(dailyXfa["STANDARD"]) =>
          DayOf("STANDARD", dailyXfa["STANDARD"], NoTrades, FALSE) = dailyXfa["STANDARD"]
    BY <1>2 DEF Settled, DayOf
  <2>2. /\ xfa'["STANDARD"] = XfaDay("STANDARD", xfa["STANDARD"], row)
        /\ dailyXfa'["STANDARD"] = SimulateXfa("STANDARD", dailyXfa["STANDARD"], row)
    BY <1>1 DEF Paths
  <2>3. /\ xfa["STANDARD"] \in XfaAccount /\ dailyXfa["STANDARD"] \in XfaAccount
        /\ row \in Rows /\ Low(row) /\ InStep(xfa["STANDARD"], dailyXfa["STANDARD"], row)
        /\ SameXfa(xfa["STANDARD"], dailyXfa["STANDARD"])
        /\ Solvent(xfa["STANDARD"]) /\ Solvent(dailyXfa["STANDARD"])
    BY Unfolded DEF Paths
  <2>4. /\ InStep(XfaDay("STANDARD", xfa["STANDARD"], row),
                  SimulateXfa("STANDARD", dailyXfa["STANDARD"], row), NoTrades)
        /\ SameXfa(XfaDay("STANDARD", xfa["STANDARD"], row),
                   SimulateXfa("STANDARD", dailyXfa["STANDARD"], row))
        /\ LET d == SimulateXfa("STANDARD", dailyXfa["STANDARD"], row)
           IN  Open(d) => DayOf("STANDARD", d, NoTrades, FALSE) = d
    BY <2>1, <2>3, XfaDays
  <2> QED BY <2>2, <2>4
<1>7. Settled'
  BY <1>3, <1>6 DEF Settled, DayOf, NoTrades, Judged, PaidOut, Counted
<1>8. /\ Open(combine') => /\ Open(combine) /\ combine'.balance = combine.balance
                            /\ combine'.floor = Trail(combine.floor, combine.balance)
      /\ combine'.end = "MLL_BREACH" => combine.end = "MLL_BREACH"
      /\ Open(dailyCombine') =>
           /\ Open(dailyCombine) /\ dailyCombine'.balance = dailyCombine.balance + row.pnl
           /\ dailyCombine'.floor \in {dailyCombine.floor,
                                      Trail(dailyCombine.floor, dailyCombine.balance + row.pnl)}
      /\ dailyCombine'.end = "MLL_BREACH" =>
           \/ dailyCombine.end = "MLL_BREACH"
           \/ Open(dailyCombine) /\ dailyCombine.balance + row.worst <= dailyCombine.floor
  BY <1>1, Unfolded, DayEnds
<1>9. /\ combine.balance \in Int /\ combine.floor \in Int /\ row.pnl \in Int /\ row.worst \in Int
      /\ dailyCombine.balance \in Int /\ dailyCombine.floor \in Int /\ MaxLoss \in Nat
      /\ audit.balance \in Int /\ audit.floor \in Int /\ audit.end \in {"OPEN", "MLL_BREACH"}
      /\ dailyCombine'.balance \in Int /\ dailyCombine'.floor \in Int
  BY <1>3, Unfolded, AccountAssumption DEF CombineAccount, Audits, Rows
<1>10. AuditIsAhead'
  <2> SUFFICES ASSUME Open(audit) PROVE AuditIsAhead'
    BY <1>1 DEF AuditIsAhead
  <2>1. /\ audit.floor >= Smaller(0, audit.balance - MaxLoss)
        /\ Open(combine) => audit.balance = combine.balance /\ audit.floor >= combine.floor
        /\ Open(dailyCombine) => /\ audit.balance = dailyCombine.balance + row.pnl
                                 /\ audit.floor >= dailyCombine.floor
    BY DEF AccountInv, AuditIsAhead
  <2>2. ASSUME NEW floor \in Int, audit.floor >= floor
        PROVE  audit.floor >= Trail(floor, audit.balance)
    BY <1>9, <2>1, <2>2 DEF Trail, Smaller, Larger
  <2>3. Open(combine') => audit.balance = combine'.balance /\ audit.floor >= combine'.floor
    BY <1>8, <1>9, <2>1, <2>2
  <2>4. Open(dailyCombine') => /\ audit.balance = dailyCombine'.balance
                              /\ audit.floor >= dailyCombine'.floor
    BY <1>8, <1>9, <2>1, <2>2
  <2>5. Open(dailyCombine') => dailyCombine'.balance > dailyCombine'.floor
    BY <1>3 DEF Solvent
  <2>6. row'.pnl = 0 /\ row'.worst = 0
    BY <1>1, NoTradesRow
  <2> QED BY <1>1, <1>9, <2>1, <2>3, <2>4, <2>5, <2>6 DEF AuditIsAhead
<1>11. \A a \in {combine', dailyCombine'} : a.end = "MLL_BREACH" => audit'.end = "MLL_BREACH"
  <2>1. CASE ~Open(audit)
    BY <1>1, <1>9, <2>1 DEF Open
  <2>2. CASE Open(audit)
    <3>1. combine.end # "MLL_BREACH" /\ dailyCombine.end # "MLL_BREACH"
      BY <2>2 DEF AccountInv, AuditIsConservative, Open
    <3>2. Open(dailyCombine) => ~(dailyCombine.balance + row.worst <= dailyCombine.floor)
      BY <1>9, <2>2 DEF AccountInv, AuditIsAhead
    <3> QED BY <1>8, <3>1, <3>2
  <2> QED BY <2>1, <2>2
<1>12. row' \in Rows /\ Low(row') /\ session' \in Nat
  BY <1>1, Unfolded, NoTradesRow DEF Low
<1>13. /\ kept' \in Rows /\ Low(kept') /\ overlaid' \in CombineAccount /\ Solvent(overlaid')
       /\ skipped' \in BOOLEAN /\ OverlayInStep'
  BY OverlayDay
<1>14. AuditIsConservative'
  BY <1>11, <1>13, AuditCovers
<1> QED BY <1>1, <1>3, <1>4, <1>5, <1>6, <1>7, <1>10, <1>12, <1>13, <1>14, Unfolded, Folded

\* Nobody traded at first.
LEMMA AccountInvInit == AccountInit => AccountInv
<1> SUFFICES ASSUME AccountInit PROVE AccountInv
  OBVIOUS
<1>1. /\ Target \in Nat \ {0} /\ MaxLoss \in Nat \ {0} /\ WinningDay \in Nat \ {0}
      /\ WinningDays \in Nat \ {0} /\ -MaxLoss \in Int /\ -MaxLoss < 0
  BY AccountAssumption
<1>2. /\ NewCombine \in CombineAccount /\ NewXfa \in XfaAccount /\ NewAudit \in Audits
      /\ NoTrades \in Rows
  BY <1>1, NoTradesRow DEF NewCombine, NewXfa, NewAudit, CombineAccount, XfaAccount, Audits, Ends
<1>3. AccountTypeOK
  BY <1>2 DEF AccountInit, AccountTypeOK, Audits, Rows
<1>4. Low(row) /\ Low(kept) /\ OverlayInStep
  BY NoTradesRow DEF AccountInit, Low, OverlayInStep
<1>5. OpenIsSolvent
  <2>1. /\ NewCombine.balance = 0 /\ NewCombine.floor = -MaxLoss /\ NewAudit.balance = 0
        /\ NewAudit.floor = -MaxLoss /\ NewXfa.balance = 0 /\ NewXfa.floor = -MaxLoss
        /\ NewXfa.cycles = 0
    BY DEF NewCombine, NewXfa, NewAudit
  <2>2. ASSUME NEW a \in {NewCombine, NewAudit, NewXfa} PROVE a.balance > a.floor /\ a.floor <= 0
    BY <1>1, <2>1
  <2> QED BY <2>1, <2>2 DEF AccountInit, OpenIsSolvent
<1>6. AuditIsAhead /\ AuditIsConservative
  BY <1>1, NoTradesRow
     DEF AccountInit, AuditIsAhead, AuditIsConservative, NewCombine, NewAudit, Smaller
<1>7. ReplaysInStep
  BY <1>1, NoTradesRow
     DEF AccountInit, ReplaysInStep, InStep, NewCombine, NewXfa, Open, Complied, Paths
<1>8. Settled
  <2>1. Trail(-MaxLoss, 0) = -MaxLoss
    BY <1>1 DEF Trail, Smaller, Larger
  <2>2. Judged(NewCombine, NoTrades, 0) = NewCombine
    <3> DEFINE judged == Judged(NewCombine, NoTrades, 0)
    <3>1. judged \in CombineAccount /\ JudgedTo(NewCombine, judged, NoTrades, 0)
      BY <1>2, JudgedFields
    <3> HIDE DEF judged
    <3>2. /\ NewCombine.balance = 0 /\ NewCombine.floor = -MaxLoss /\ NewCombine.best = 0
          /\ NewCombine.required = Target /\ NewCombine.days = 0 /\ NewCombine.end = "OPEN"
      BY DEF NewCombine
    <3>3. judged.best = 0 /\ judged.required = Target
      BY <1>1, <3>1, <3>2, NoTradesRow DEF JudgedTo, Larger
    <3>4. /\ judged.balance = 0 /\ judged.floor = -MaxLoss /\ judged.days = 0
          /\ judged.end = "OPEN"
      BY <1>1, <2>1, <3>1, <3>2, <3>3 DEF JudgedTo
    <3> QED BY <1>2, <3>1, <3>2, <3>3, <3>4, CombineEqual DEF judged
  <2>3. Counted("STANDARD", NewXfa, NoTrades) = NewXfa
    <3> DEFINE c == Counted("STANDARD", NewXfa, NoTrades)
    <3>1. c \in XfaAccount /\ CountedTo("STANDARD", NewXfa, c, NoTrades)
      BY <1>2, CountedFields DEF Paths
    <3> HIDE DEF c
    <3>2. /\ NewXfa.balance = 0 /\ NewXfa.floor = -MaxLoss /\ NewXfa.best = 0
          /\ NewXfa.total = 0 /\ NewXfa.days = 0
      BY DEF NewXfa
    <3>3. /\ c.balance = 0 /\ c.floor = -MaxLoss /\ c.best = 0 /\ c.total = 0 /\ c.days = 0
          /\ c.paid = NewXfa.paid /\ c.cycles = NewXfa.cycles /\ c.end = NewXfa.end
      BY <1>1, <2>1, <3>1, <3>2, NoTradesRow DEF CountedTo, Larger
    <3> QED BY <1>2, <3>1, <3>2, <3>3, XfaEqual DEF c
  <2>4. ~Eligible("STANDARD", NewXfa)
    BY DEF Eligible, NewXfa
  <2>5. PaidOut("STANDARD", NewXfa, FALSE) = NewXfa
    BY <2>4 DEF PaidOut
  <2>6. dailyCombine = NewCombine /\ dailyCombine.days = 0 /\ dailyXfa["STANDARD"] = NewXfa
    BY DEF AccountInit, NewCombine, Paths
  <2> QED BY <2>2, <2>3, <2>5, <2>6 DEF Settled
<1> QED BY <1>3, <1>4, <1>5, <1>6, <1>7, <1>8 DEF AccountInv

\* Every step keeps the invariant.
LEMMA AccountInvStep == AccountInv /\ [AccountNext]_accountvars => AccountInv'
<1> SUFFICES ASSUME AccountInv, [AccountNext]_accountvars PROVE AccountInv'
  OBVIOUS
<1>1. CASE EndSession
  BY <1>1, SessionStep
<1>2. ASSUME NEW t \in Trades, Trade(t) PROVE AccountInv'
  BY <1>2, TradeStep
<1>3. CASE UNCHANGED accountvars
  <2>1. UNCHANGED <<session, row, kept, skipped, combine, dailyCombine, audit, overlaid, xfa, dailyXfa>>
    BY <1>3 DEF accountvars, accounts
  <2>2. AccountTypeOK' /\ Low(row)' /\ Low(kept)' /\ Settled'
    BY <2>1 DEF AccountInv, AccountTypeOK, Low, Settled
  <2>3. OpenIsSolvent' /\ AuditIsAhead' /\ AuditIsConservative'
    BY <2>1 DEF AccountInv, OpenIsSolvent, AuditIsAhead, AuditIsConservative
  <2>4. ReplaysInStep' /\ OverlayInStep'
    BY <2>1 DEF AccountInv, ReplaysInStep, OverlayInStep
  <2> QED BY <2>2, <2>3, <2>4 DEF AccountInv
<1> QED BY <1>1, <1>2, <1>3 DEF AccountNext

\* The invariant holds of every sequence of trades and days.
THEOREM AccountInvariance == AccountSpec => []AccountInv
BY AccountInvInit, AccountInvStep, PTL DEF AccountSpec

\* An open account, in any simulation, is above its floor after any trades,
\* days and payouts; a payout leaves the floor at zero and money above it.
COROLLARY AlwaysSolvent == AccountSpec => []OpenIsSolvent
<1>1. AccountInv => OpenIsSolvent
  BY DEF AccountInv
<1> QED BY <1>1, AccountInvariance, PTL

\* No breach of the maximum loss limit escapes the audit, for any trades and
\* any slippage, in an account that takes all the trades that the audit gets.
COROLLARY AuditMissesNothing == AccountSpec => []AuditIsConservative
<1>1. AccountInv => AuditIsConservative
  BY DEF AccountInv
<1> QED BY <1>1, AccountInvariance, PTL

\* The replays by trades and by rows agree at the end of every day.
THEOREM ReplaysComeTogether == AccountSpec => []ReplaysAgree
<1>1. ASSUME AccountInv, Overnight PROVE ReplaysAgree
  <2>1. row = NoTrades
    BY <1>1 DEF AccountInv, Low, Overnight
  <2>2. ASSUME Complied(combine)
        PROVE  combine.end = dailyCombine.end /\ (Open(combine) => combine = dailyCombine)
    <3>1. /\ combine \in CombineAccount /\ dailyCombine \in CombineAccount /\ Solvent(dailyCombine)
          /\ InStep(combine, dailyCombine, NoTrades)
          /\ Open(combine) => SameCombine(combine, dailyCombine)
      BY <1>1, <2>1, Unfolded
    <3>2. dailyCombine.balance \in Int /\ dailyCombine.floor \in Int
      BY <3>1 DEF CombineAccount
    <3>3. /\ combine.end = dailyCombine.end
          /\ Open(combine) => /\ combine.balance = dailyCombine.balance
                              /\ combine.floor = dailyCombine.floor
      BY <2>2, <3>1, <3>2, NoTradesRow DEF InStep, Solvent, Open
    <3> QED BY <3>1, <3>3, CombineEqual DEF SameCombine
  <2>3. ASSUME Complied(xfa["STANDARD"])
        PROVE  LET a == xfa["STANDARD"] b == dailyXfa["STANDARD"]
               IN  /\ a.end = b.end /\ a.paid = b.paid
                   /\ Open(a) => a.balance = b.balance /\ a.floor = b.floor
    <3> DEFINE a == xfa["STANDARD"]
               b == dailyXfa["STANDARD"]
    <3>1. /\ a \in XfaAccount /\ b \in XfaAccount /\ Solvent(b)
          /\ InStep(a, b, NoTrades) /\ SameXfa(a, b)
      BY <1>1, <2>1, Unfolded DEF Paths
    <3> HIDE DEF a, b
    <3>2. b.balance \in Int /\ b.floor \in Int
      BY <3>1 DEF XfaAccount
    <3>3. /\ a.end = b.end /\ a.paid = b.paid
          /\ (Open(a) => a.balance = b.balance /\ a.floor = b.floor)
      BY <2>3, <3>1, <3>2, NoTradesRow DEF InStep, Solvent, Open, SameXfa, a
    <3> QED BY <3>3 DEF a, b
  <2> QED BY <2>2, <2>3 DEF ReplaysAgree
<1>2. AccountInv => ReplaysAgree
  BY <1>1 DEF ReplaysAgree
<1> QED BY <1>2, AccountInvariance, PTL
=============================================================================
