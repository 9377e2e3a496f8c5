-------------------------------- MODULE Report --------------------------------
(***************************************************************************)
(* The trade report of internal/report.  The engine executes trades and    *)
(* offers each to a bounded channel without waiting; the push loop of the  *)
(* web server takes them out and adds them to the report, which works the  *)
(* profit of every sale out again from all the trades it has.  The         *)
(* position manager gets every trade at once.  One symbol on one day: the  *)
(* report keeps symbols apart.                                             *)
(***************************************************************************)
EXTENDS PositionManager, Sequences, FiniteSets, Functions

CONSTANTS ChanCap,    \* capacity of tradeChan
          MaxInt      \* an int64 lies in -MaxInt..MaxInt-1

ASSUME ChanAssumption == ChanCap \in Nat
ASSUME MaxIntAssumption == MaxInt \in Nat \ {0}

VARIABLES chan,   \* tradeChan
          trades, \* g.trades
          pnl,    \* g.tradePnLMap, by the place of the sale in trades
          made    \* history: every trade executed

reportVars == <<chan, trades, pnl, made>>
allVars == <<vars, reportVars>>

Trade == [side : Side, qty : Qty, price : Price]
Lot(t) == [qty |-> t.qty, price |-> t.price]

Wrap(n) == ((n + MaxInt) % (2 * MaxInt)) - MaxInt
Quotient(n, d) == IF n < 0 THEN -((-n) \div d) ELSE n \div d
Sum(f) == FoldFunction(+, 0, f)

-----------------------------------------------------------------------------
(***************************************************************************)
(* First in, first out.                                                    *)
(***************************************************************************)

\* The units in the lots before the k-th.
Ahead(lots, k) == Sum([j \in 1..(k - 1) |-> lots[j].qty])

\* What a sale of q takes of each lot: all of it until little enough is left.
Taken(lots, q) ==
  [k \in DOMAIN lots |->
     LET left == q - Ahead(lots, k)
     IN  IF left <= 0 THEN 0 ELSE IF left < lots[k].qty THEN left ELSE lots[k].qty]

\* The profit matchFifoSell gives for a sale.
SaleProfit(lots, t) ==
  Sum([k \in DOMAIN lots |-> MulDiv(Taken(lots, t.qty)[k], t.price - lots[k].price, Scale)])

\* Mutant of Touched: the lot a sale ends in keeps its quantity.
TouchedNot(lots, q) == lots

\* What matchFifoSell leaves of the caller's lots: it has a slice of its own and
\* only that one loses the lots sold whole, while the lot the sale ends in
\* belongs to both.
Touched(lots, q) ==
  [k \in DOMAIN lots |->
     IF Taken(lots, q)[k] < lots[k].qty
     THEN [lots[k] EXCEPT !.qty = @ - Taken(lots, q)[k]] ELSE lots[k]]

\* Mutant of Consumed: as in Touched, lots sold whole stay.
ConsumedPartly(lots, q) == Touched(lots, q)

\* The number of lots a sale of q takes whole, which are the first ones.
Gone(lots, q) ==
  CHOOSE g \in 0..Len(lots) :
    \A k \in DOMAIN lots : k <= g <=> Ahead(lots, k + 1) <= q

\* What getAvgCostForTrade leaves of them: only what is not sold.
Consumed(lots, q) ==
  LET rest == [k \in DOMAIN lots |-> [lots[k] EXCEPT !.qty = @ - Taken(lots, q)[k]]]
  IN  SubSeq(rest, Gone(lots, q) + 1, Len(lots))

\* A trade adds a lot, or takes from the lots as the one or the other does.
After(lots, t, consume) ==
  IF t.side = "buy" THEN Append(lots, Lot(t))
  ELSE IF consume THEN Consumed(lots, t.qty) ELSE Touched(lots, t.qty)

\* The lots after each of the trades ts.
LotsAfter(ts, consume) ==
  LET after[n \in 0..Len(ts)] ==
        IF n = 0 THEN <<>> ELSE After(after[n - 1], ts[n], consume)
  IN  after

Sales(ts) == {n \in DOMAIN ts : ts[n].side = "sell"}

\* recalculateTradePnL
Recalculated(ts) ==
  LET lots == LotsAfter(ts, FALSE)
  IN  [n \in Sales(ts) |-> SaleProfit(lots[n - 1], ts[n])]

\* getAvgCostForTrade of the sale at place n; the cost is an int64.
AvgCost(n) ==
  LET lots == LotsAfter(trades, TRUE)[n - 1]
      taken == Taken(lots, trades[n].qty)
  IN  IF Sum(taken) = 0 THEN 0
      ELSE Quotient(Wrap(Sum([k \in DOMAIN lots |-> lots[k].price * taken[k]])), Sum(taken))

\* getDayRealizedPnL, which the dashboard shows as the profit of the day.
TodayPnl == Sum(pnl)

-----------------------------------------------------------------------------
(***************************************************************************)
(* Steps.                                                                  *)
(***************************************************************************)

ReportInit ==
  /\ Init
  /\ chan = <<>>
  /\ trades = <<>>
  /\ pnl = [n \in {} |-> 0]
  /\ made = <<>>

\* A trade is executed: the position manager accepts it, and it goes to the
\* channel, or nowhere when that is full.
Execute(t) ==
  /\ AddPosition(t.qty, t.price, t.side)
  /\ made' = Append(made, t)
  /\ chan' = IF Len(chan) < ChanCap THEN Append(chan, t) ELSE chan
  /\ UNCHANGED <<trades, pnl>>

\* The position manager refuses it.
Refuse(t) == RefusePosition(t.qty, t.price, t.side) /\ UNCHANGED reportVars

\* The position manager is reset, of which the report is not told.
ResetPositions == Reset /\ UNCHANGED reportVars

\* AddTrade, called by the push loop with what it receives.
AddTrade ==
  /\ chan # <<>>
  /\ chan' = Tail(chan)
  /\ trades' = Append(trades, Head(chan))
  /\ pnl' = Recalculated(trades')
  /\ UNCHANGED <<vars, made>>

ReportNext == AddTrade \/ ResetPositions \/ \E t \in Trade : Execute(t) \/ Refuse(t)

ReportSpec == ReportInit /\ [][ReportNext]_allVars

-----------------------------------------------------------------------------
(***************************************************************************)
(* Properties.  Number the units as they are bought, and as they are sold: *)
(* the k-th unit sold is the k-th unit bought.                             *)
(***************************************************************************)

\* The units on one side of the first n trades.
Units(side, n) ==
  Sum([k \in 1..n |-> IF trades[k].side = side THEN trades[k].qty ELSE 0])

\* The price the k-th unit was bought at.
UnitPrice(k) ==
  trades[CHOOSE n \in DOMAIN trades :
           Units("buy", n - 1) < k /\ k <= Units("buy", n)].price

\* What the units of the sale at place n were bought for.
Cost(n) ==
  Sum([k \in (Units("sell", n - 1) + 1)..Units("sell", n) |-> UnitPrice(k)])

\* The report has every trade so far, and nothing was sold that was not held, as the
\* engine does (NeverShort of LiveEngine).
Complete ==
  /\ made = trades \o chan
  /\ \A n \in DOMAIN trades : Units("sell", n) <= Units("buy", n)

\* The day's profit is what the sales brought less what the units sold had
\* cost, up to one rounding for each purchase and sale, as long as the report
\* has every trade and no earlier sale used up the first purchase.  (After that
\* it is wrong: recalculateTradePnL matches sales with purchases sold before.)
TodayIsEarned ==
  Complete /\ (\A n \in Sales(trades) : Units("sell", n - 1) < trades[1].qty) =>
    LET earned == Sum([n \in Sales(trades) |-> trades[n].qty * trades[n].price - Cost(n)])
        slack == Scale * Cardinality(Sales(trades)) * (Len(trades) - Cardinality(Sales(trades)))
    IN  earned - slack <= Scale * TodayPnl /\ Scale * TodayPnl <= earned

\* The average cost of a sale, which its profit is put in proportion to, is that
\* of the units it sells whatever was sold before, as long as the report has
\* every trade and the cost fits an int64.
AvgCostIsFifo ==
  Complete => \A n \in Sales(trades) :
    Cost(n) < MaxInt => AvgCost(n) = Cost(n) \div trades[n].qty
=============================================================================
