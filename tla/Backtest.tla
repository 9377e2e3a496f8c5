------------------------------- MODULE Backtest -------------------------------
(***************************************************************************)
(* The backtest engine of internal/backtest: a run feeds the ticks of a    *)
(* data set, in order of time, to a strategy, buys with all the money at a *)
(* buy signal and sells everything at a sell signal, closes a day at the   *)
(* first tick of the next, and sums up at the end.  Rates are in basis      *)
(* points; what the code works out in floating point and truncates is      *)
(* rounded down.                                                           *)
(***************************************************************************)
EXTENDS Position, Strategies

CONSTANTS Price,          \* prices of ticks
          InitialBalance,
          FeeBps, SlipBps,\* feeRate, slippage
          MaxTicks,       \* bound: ticks of a run
          MaxRuns         \* bound: runs of one engine

ASSUME PriceAssumption == Price \subseteq Nat \ {0}
ASSUME BalanceAssumption == InitialBalance \in Nat \ {0}
ASSUME RateAssumption == FeeBps \in 0..9999 /\ SlipBps \in 0..9999
ASSUME BoundAssumption == MaxTicks \in Nat \ {0} /\ MaxRuns \in Nat

VARIABLES phase,    \* "idle", "running", "done"
          strategy, \* the state of the engine's strategy
          balance,
          pos,      \* the position in the one symbol of the data set
          trades,   \* e.trades
          daily,    \* e.dailyPnL
          date,     \* currentDate, 0 before the first tick
          dayStart, \* dayStartValue
          price,    \* the price of the last tick, 0 before the first
          ticks,    \* bounded counter
          runs,     \* bounded counter
          spent,    \* history: the balance before the last buy from flat
          gains     \* history: what each sale made of it

book == <<balance, pos, trades, spent, gains>>
day == <<daily, date, dayStart>>
vars == <<phase, strategy, book, day, price, ticks, runs>>

Percent(n, bps) == MulDiv(n, bps, 10000)

BuyPrice(p) == Percent(p, 10000 + SlipBps)
SellPrice(p) == Percent(p, 10000 - SlipBps)
MaxNotional == MulDiv(balance, 10000, 10000 + FeeBps)
Fee(notional) == Percent(notional, FeeBps)
Value(q, p) == CalcValue(q, p)

\* The value of a balance and a position at a price.
TotalValue(b, q, p) == b + (IF q > 0 THEN Value(q, p) ELSE 0)

-----------------------------------------------------------------------------
(***************************************************************************)
(* One tick.                                                               *)
(***************************************************************************)

Record(side, q, p) ==
  trades' = Append(trades, [side |-> side, qty |-> q, price |-> p, fee |-> Fee(Value(q, p))])

\* The quantity executeBuy asks for, and what it costs.
BuyQty(p) == CalcQuantity(MaxNotional, BuyPrice(p))
BuyTotal(p) ==
  LET notional == Value(BuyQty(p), BuyPrice(p)) IN notional + Fee(notional)

CanBuy(p) ==
  /\ balance > 0 /\ MaxNotional > 0
  /\ BuyPrice(p) > 0
  /\ BuyQty(p) > 0
  /\ BuyTotal(p) <= balance

\* Mutant of CanSell: nothing is sold at a loss.
CanSellAtGain(p) == pos.qty > 0 /\ SellPrice(p) > pos.avg

CanSell(p) == pos.qty > 0 /\ SellPrice(p) > 0

Buy(p) ==
  /\ CanBuy(p)
  /\ balance' = balance - BuyTotal(p)
  /\ pos' = Bought(pos, BuyQty(p), BuyPrice(p))
  /\ Record("buy", BuyQty(p), BuyPrice(p))
  /\ spent' = IF pos.qty = 0 THEN balance ELSE spent
  /\ UNCHANGED gains

Sell(p) ==
  /\ CanSell(p)
  /\ LET notional == Value(pos.qty, SellPrice(p))
     IN  balance' = balance + notional - Fee(notional)
  /\ pos' = Sold(pos, pos.qty, SellPrice(p))
  /\ Record("sell", pos.qty, SellPrice(p))
  /\ gains' = Append(gains, balance' - spent)
  /\ UNCHANGED spent

\* No signal, or one that cannot be followed.
Hold(p, signal) ==
  /\ signal = "buy" => ~ CanBuy(p)
  /\ signal = "sell" => ~ CanSell(p)
  /\ UNCHANGED book

\* Mutant of StartValue: the day goes on counting from the run's first.
StartValueKept(value) == dayStart

\* The value a day begins with is that the day before ended with.
StartValue(value) == value

DayPnl(value) == [pnl |-> value - dayStart, value |-> value]

\* The first tick of a day closes the day before, after the tick's own trade.
CloseDay(d, p) ==
  /\ date' = d
  /\ IF d = date \/ date = 0 THEN UNCHANGED <<daily, dayStart>>
     ELSE LET value == TotalValue(balance', pos'.qty, p)
          IN  daily' = Append(daily, DayPnl(value)) /\ dayStart' = StartValue(value)

Tick(p, d) ==
  /\ phase = "running" /\ ticks < MaxTicks
  /\ \E answer \in OnTick(strategy, p) :
       /\ strategy' = answer.next
       /\ \/ answer.signal = "buy" /\ Buy(p)
          \/ answer.signal = "sell" /\ Sell(p)
          \/ Hold(p, answer.signal)
  /\ CloseDay(d, p)
  /\ price' = p
  /\ ticks' = ticks + 1
  /\ UNCHANGED <<phase, runs>>

-----------------------------------------------------------------------------
(***************************************************************************)
(* A run.                                                                  *)
(***************************************************************************)

Init ==
  /\ phase = "idle"
  /\ strategy \in {Fresh(kind) : kind \in StrategyKind}
  /\ balance = InitialBalance /\ pos = NoPosition
  /\ trades = <<>> /\ daily = <<>>
  /\ date = 0 /\ dayStart = InitialBalance
  /\ price = 0
  /\ ticks = 0 /\ runs = 0
  /\ spent = InitialBalance /\ gains = <<>>

\* Run begins: Reset, OnInit, and the variables of Run itself.
StartRun ==
  /\ phase # "running" /\ runs < MaxRuns
  /\ phase' = "running"
  /\ strategy' = Fresh(strategy.kind)
  /\ balance' = InitialBalance /\ pos' = NoPosition
  /\ trades' = <<>> /\ daily' = <<>>
  /\ date' = 0 /\ dayStart' = InitialBalance
  /\ price' = 0
  /\ ticks' = 0 /\ runs' = runs + 1
  /\ spent' = InitialBalance /\ gains' = <<>>

\* The data set is at its end: the last day is closed.
FinishRun ==
  /\ phase = "running" /\ ticks > 0
  /\ phase' = "done"
  /\ daily' = Append(daily, DayPnl(TotalValue(balance, pos.qty, price)))
  /\ UNCHANGED <<strategy, book, date, dayStart, price, ticks, runs>>

Next ==
  \/ StartRun
  \/ FinishRun
  \/ \E p \in Price, d \in IF date = 0 THEN {1} ELSE {date, date + 1} : Tick(p, d)

Spec == Init /\ [][Next]_vars

-----------------------------------------------------------------------------
(***************************************************************************)
(* The result.                                                             *)
(***************************************************************************)

FinalValue == TotalValue(balance, pos.qty, price)

\* Mutant of BuyCost: the fee of the purchase is left out.
BuyCostBare(t) == Value(t.qty, t.price)

BuyCost(t) == Value(t.qty, t.price) + t.fee

SellRevenue(t) == Value(t.qty, t.price) - t.fee

\* The sales calculateWinRate pairs with the purchase just before them.
RoundTrips ==
  {n \in DOMAIN trades : n > 1 /\ trades[n].side = "sell" /\ trades[n - 1].side = "buy"}
TripPnl(n) == SellRevenue(trades[n]) - BuyCost(trades[n - 1])

WinningTrades == Cardinality({n \in RoundTrips : TripPnl(n) > 0})
LosingTrades == Cardinality({n \in RoundTrips : TripPnl(n) < 0})

-----------------------------------------------------------------------------
(***************************************************************************)
(* Properties.                                                             *)
(***************************************************************************)

\* The daily profits of a run, of any number of days and whatever is traded at
\* the turn of a day, add up to what the run made of the initial balance.
DailyAddsUp ==
  phase = "done" =>
    Sum([k \in DOMAIN daily |-> daily[k].pnl]) = FinalValue - InitialBalance

\* The trades counted as winning, and as losing, are as many as the round trips
\* from no position to no position that made, and lost, money, for Turtle and
\* Bollinger as long as no price is so low that its slippage takes all of it, and
\* for any strategy as long as no position is added to.  (calculateWinRate forgets
\* what was bought before the last of several purchases, and then counts losses as
\* wins.)
WinsAreGains ==
  (\/ /\ strategy.kind \in {"turtle", "bollinger"}
      /\ \A p \in Price : SellPrice(p) > 0
   \/ \A n \in DOMAIN trades \ {1} : trades[n].side # trades[n - 1].side) =>
    /\ WinningTrades = Cardinality({k \in DOMAIN gains : gains[k] > 0})
    /\ LosingTrades = Cardinality({k \in DOMAIN gains : gains[k] < 0})

\* Turtle and Bollinger keep a flag of their own, set when they give a signal and not
\* when it is filled.  A buy that is refused leaves the flag set with nothing held; the
\* other way round does not happen, as long as no price is so low that its slippage
\* takes all of it: with the flag off there is no position for a buy to add to.
FlatWhenFlagged ==
  /\ strategy.kind \in {"turtle", "bollinger"}
  /\ \A p \in Price : SellPrice(p) > 0
  => (~ strategy.hasPosition => pos.qty = 0)
=============================================================================
