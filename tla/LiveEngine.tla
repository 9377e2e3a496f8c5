------------------------------ MODULE LiveEngine ------------------------------
(***************************************************************************)
(* The live engine of internal/live with the order, position and risk      *)
(* managers it drives.  One goroutine, dispatchLoop, takes a tick, asks    *)
(* every strategy for a signal, then looks for stop orders the price has   *)
(* reached; each signal and each stop order becomes a market order that    *)
(* goes through processOrder.                                              *)
(*                                                                         *)
(* processOrder takes one lock after the other, and can return from the    *)
(* middle; a step here is one of its sections.  The exchange fills an      *)
(* order as far and at the prices it likes: all this engine knows of it is *)
(* that it never fills more than it was asked for (NoOverfill of           *)
(* OrderBook).                                                             *)
(*                                                                         *)
(* One product, that of the mean price, is computed in 64 bits by the code *)
(* and overflows for orders of some hundred dollars; Wrap gives it its     *)
(* width.  Other amounts are far from the limit.                           *)
(***************************************************************************)
EXTENDS Position, FiniteSets

CONSTANTS Price,            \* prices of ticks and trades
          Strategy,         \* the strategies, of one symbol
          InitialBalance,
          FeeBps,           \* feeRateBps
          MaxOrderValue,    \* risk limits, each off when 0
          MaxPositionValue,
          DailyLossLimit,   \* the tighter one of the two loss limits
          MaxInt,           \* bound of the integers: -MaxInt..MaxInt-1
          StopQty,          \* quantities of stop orders
          MaxOrders,        \* bound: orders, wide enough for all the others allow
          MaxStops,         \* bound: stop orders
          MaxTicks          \* bound: ticks

ASSUME PriceAssumption == Price \subseteq Nat \ {0}
ASSUME BalanceAssumption == InitialBalance \in Nat
ASSUME FeeAssumption == FeeBps \in Nat
ASSUME LimitsAssumption ==
  MaxOrderValue \in Nat /\ MaxPositionValue \in Nat /\ DailyLossLimit \in Nat
ASSUME MaxIntAssumption == MaxInt \in Nat \ {0}
ASSUME StopQtyAssumption == StopQty \subseteq Nat \ {0}
ASSUME BoundsAssumption == MaxOrders \in Nat /\ MaxStops \in Nat /\ MaxTicks \in Nat

VARIABLES balance,  \* e.balance
          pos,      \* the position manager's entry for the symbol
          daily,    \* dailyPnL of the risk manager
          broken,   \* circuitBroken
          order,    \* the order manager's copies
          created,  \* how many orders it has
          tick,     \* the price of the tick being processed
          left,     \* strategies that have not seen the tick yet
          hit,      \* stop orders the tick has reached and that are still to be handled
          pc,       \* where the dispatch goroutine is
          back,     \* the loop processOrder returns to
          cur,      \* the order processOrder works on
          fill,     \* the trades of the order, and the gain AddPosition returned
          net,      \* history: quantity bought less quantity sold in all trades
          fees,     \* history: fees of the trades whose gain was recorded
          fires,    \* history: market orders made from each stop order once it was open
          late,     \* history: stop orders cancelled by their owners while in hit
          ticks

loopVars == <<tick, left, hit>>
ledgers == <<balance, pos, daily, broken>>
history == <<net, fees, fires, late>>
vars == <<ledgers, order, created, loopVars, pc, back, cur, fill, history, ticks>>

Id == 1..MaxOrders
Side == {"buy", "sell"}
Kind == {"market", "stoploss", "takeprofit"}
Status == {"pending", "open", "filled", "partial", "cancelled"}

NoOrder == [kind |-> "market", side |-> "buy", qty |-> 0, filled |-> 0,
            status |-> "pending", stop |-> 0]
NoFill == [qty |-> 0, value |-> 0, fee |-> 0, gain |-> 0]
Nothing == [id |-> 0, side |-> "buy", qty |-> 0, price |-> 0]

Init ==
  /\ balance = InitialBalance
  /\ pos = NoPosition
  /\ daily = 0 /\ broken = FALSE
  /\ order = [i \in Id |-> NoOrder]
  /\ created = 0
  /\ tick = 0 /\ left = {} /\ hit = {}
  /\ pc = "idle" /\ back = "signals"
  /\ cur = Nothing /\ fill = NoFill
  /\ net = 0 /\ fees = 0 /\ fires = [i \in Id |-> 0] /\ late = {}
  /\ ticks = 0

Fee(value) == (value * FeeBps) \div 10000

\* A product in 64 bits, and Go's division, which rounds to zero.
Wrap(n) == ((n + MaxInt) % (2 * MaxInt)) - MaxInt
Quotient(n, d) == IF n < 0 THEN -((-n) \div d) ELSE n \div d

-----------------------------------------------------------------------------
(***************************************************************************)
(* The dispatch loop: processTick, executeSignal and checkStopOrders.      *)
(***************************************************************************)

TakeTick(p) ==
  /\ pc = "idle"
  /\ ticks < MaxTicks
  /\ ticks' = ticks + 1
  /\ tick' = p
  /\ left' = Strategy
  /\ pc' = "signals"
  /\ UNCHANGED <<ledgers, order, created, hit, back, cur, fill, history>>

\* calculateOrderQuantity: a tenth of the balance, or the whole position.
OrderQuantity(side) ==
  IF side = "buy"
  THEN IF balance <= 0 THEN 0 ELSE CalcQuantity(balance \div 10, tick)
  ELSE IF pos.qty <= 0 THEN 0 ELSE pos.qty

\* processOrder is called for a new market order at the price of the tick.
Process(side, qty, loop) ==
  /\ cur' = [id |-> 0, side |-> side, qty |-> qty, price |-> tick]
  /\ back' = loop
  /\ pc' = "check"

\* The loop over the strategies, in the order the map gave them.
Asked(s) == left \ {s}

\* A strategy has no signal, or one that comes to no quantity.
Pass(s) ==
  /\ pc = "signals" /\ s \in left
  /\ left' = Asked(s)
  /\ UNCHANGED <<ledgers, order, created, tick, hit, pc, back, cur, fill, history, ticks>>

Signal(s, side) ==
  /\ pc = "signals" /\ s \in left
  /\ left' = Asked(s)
  /\ OrderQuantity(side) > 0
  /\ Process(side, OrderQuantity(side), "signals")
  /\ UNCHANGED <<ledgers, order, created, tick, hit, fill, history, ticks>>

\* Mutant of Waiting: a cancelled stop order still waits.
WaitingForever(i) == order[i].kind # "market"

\* The stop orders CheckStopOrders looks at.
Waiting(i) == order[i].kind # "market" /\ order[i].status \in {"open", "pending"}

\* The price has reached the stop order.
Reached(o, p) ==
  IF (o.kind = "stoploss") = (o.side = "sell") THEN p <= o.stop ELSE p >= o.stop

SignalsDone ==
  /\ pc = "signals" /\ left = {}
  /\ hit' = {i \in 1..created : Waiting(i) /\ Reached(order[i], tick)}
  /\ pc' = "stops"
  /\ UNCHANGED <<ledgers, order, created, tick, left, back, cur, fill, history, ticks>>

\* CancelOrder of the order manager: only an order that is open is cancelled.
StopStatus(i) == IF order[i].status = "open" THEN "cancelled" ELSE order[i].status

\* A stop order is replaced by a market order for its remaining quantity, which is all
\* of it: only market orders go to the exchange.  The copy in hit is acted on whatever
\* has become of the order since, and CancelOrder's error is ignored.
FireStop(i) ==
  /\ pc = "stops" /\ i \in hit
  /\ hit' = hit \ {i}
  /\ order' = [order EXCEPT ![i].status = StopStatus(i)]
  /\ fires' = [fires EXCEPT ![i] = IF order[i].status = "pending" THEN @ ELSE @ + 1]
  /\ Process(order[i].side, order[i].qty - order[i].filled, "stops")
  /\ UNCHANGED <<ledgers, created, tick, left, fill, net, fees, late, ticks>>

StopsDone ==
  /\ pc = "stops" /\ hit = {}
  /\ pc' = "idle"
  /\ UNCHANGED <<ledgers, order, created, loopVars, back, cur, fill, history, ticks>>

-----------------------------------------------------------------------------
(***************************************************************************)
(* processOrder.                                                           *)
(***************************************************************************)

\* Mutant of Affordable: nothing is checked before a sale.
AffordableSale ==
  \/ cur.side = "sell"
  \/ CalcValue(cur.qty, cur.price) + Fee(CalcValue(cur.qty, cur.price)) <= balance

\* The money or the coins are there.
Affordable ==
  IF cur.side = "buy"
  THEN CalcValue(cur.qty, cur.price) + Fee(CalcValue(cur.qty, cur.price)) <= balance
  ELSE cur.qty <= pos.qty

\* Mutant of WithinLimits: the circuit breaker is not asked.
WithinLimitsUnbroken ==
  /\ MaxOrderValue > 0 => CalcValue(cur.qty, cur.price) <= MaxOrderValue
  /\ cur.side = "buy" /\ MaxPositionValue > 0 =>
       CalcValue(pos.qty + cur.qty, cur.price) <= MaxPositionValue

\* ValidateOrder of the risk manager.
WithinLimits ==
  /\ ~ broken
  /\ MaxOrderValue > 0 => CalcValue(cur.qty, cur.price) <= MaxOrderValue
  /\ cur.side = "buy" /\ MaxPositionValue > 0 =>
       CalcValue((IF pos.qty < 0 THEN 0 ELSE pos.qty) + cur.qty, cur.price) <= MaxPositionValue

\* processOrder returns to the loop that called it.
Return == pc' = back /\ cur' = Nothing /\ fill' = NoFill

Refuse ==
  /\ pc = "check"
  /\ ~ (Affordable /\ WithinLimits)
  /\ Return
  /\ UNCHANGED <<ledgers, order, created, loopVars, back, history, ticks>>

\* CreateOrder and UpdateOrderStatus of the order manager.
Accept ==
  /\ pc = "check"
  /\ created < MaxOrders
  /\ Affordable /\ WithinLimits
  /\ created' = created + 1
  /\ order' = [order EXCEPT ![created + 1] =
                 [kind |-> "market", side |-> cur.side, qty |-> cur.qty, filled |-> 0,
                  status |-> "open", stop |-> 0]]
  /\ cur' = [cur EXCEPT !.id = created + 1]
  /\ pc' = "exchange"
  /\ UNCHANGED <<ledgers, loopVars, back, fill, history, ticks>>

\* The exchange does not trade: processOrder returns at once.
NoTrades ==
  /\ pc = "exchange"
  /\ Return
  /\ UNCHANGED <<ledgers, order, created, loopVars, back, history, ticks>>

\* The exchange trades q1 at p1, and q2 at p2 when q2 > 0; the trades get
\* their fees and go to tradeChan.
Trades(q1, p1, q2, p2) ==
  /\ pc = "exchange"
  /\ q1 > 0 /\ q1 + q2 <= cur.qty
  /\ fill' = [qty |-> q1 + q2,
              value |-> CalcValue(q1, p1) + CalcValue(q2, p2),
              fee |-> Fee(CalcValue(q1, p1)) + Fee(CalcValue(q2, p2)),
              gain |-> 0]
  /\ net' = IF cur.side = "buy" THEN net + q1 + q2 ELSE net - (q1 + q2)
  /\ pc' = "fill"
  /\ UNCHANGED <<ledgers, order, created, loopVars, back, cur, fees, fires, late, ticks>>

\* Mutant of TotalFilledQty: all that was ordered counts as filled.
TotalOrderedQty == cur.qty

TotalFilledQty == fill.qty

\* UpdateOrderFill of the order manager.
UpdateOrderFill ==
  /\ pc = "fill"
  /\ LET o == order[cur.id]
         sum == o.filled + TotalFilledQty
         capped == IF sum > o.qty THEN o.qty ELSE sum
     IN  IF o.status \in {"open", "partial", "pending"}
         THEN /\ order' = [order EXCEPT ![cur.id] =
                             [o EXCEPT !.filled = capped,
                                       !.status = IF capped = o.qty THEN "filled"
                                                  ELSE IF capped > 0 THEN "partial" ELSE @]]
              /\ pc' = "position"
              /\ UNCHANGED <<cur, fill>>
         ELSE Return /\ UNCHANGED order
  /\ UNCHANGED <<ledgers, created, loopVars, back, history, ticks>>

\* avgPrice
AvgPrice == Quotient(Wrap(fill.value * Scale), TotalFilledQty)

\* AddPosition: processOrder returns when it is refused.
AddPosition ==
  /\ pc = "position"
  /\ IF Refused(pos, TotalFilledQty, AvgPrice, cur.side)
     THEN Return /\ UNCHANGED pos
     ELSE /\ pos' = Traded(pos, TotalFilledQty, AvgPrice, cur.side)
          /\ fill' = [fill EXCEPT !.gain = pos'.realized - pos.realized]
          /\ pc' = "balance"
          /\ UNCHANGED cur
  /\ UNCHANGED <<balance, daily, broken, order, created, loopVars, back, history, ticks>>

\* What updateBalance adds to the balance.
Paid(side, value, fee) == IF side = "buy" THEN -(value + fee) ELSE value - fee

UpdateBalance ==
  /\ pc = "balance"
  /\ balance' = balance + Paid(cur.side, CalcValue(TotalFilledQty, AvgPrice), fill.fee)
  /\ pc' = "record"
  /\ UNCHANGED <<pos, daily, broken, order, created, loopVars, back, cur, fill, history, ticks>>

\* Mutant of Gain: the fees are forgotten.
GainBeforeFees == fill.gain

\* realizedPnL - totalFee
Gain == fill.gain - fill.fee

\* RecordPnL of the risk manager.
RecordPnL ==
  /\ pc = "record"
  /\ daily' = daily + Gain
  /\ broken' = (broken \/ (DailyLossLimit > 0 /\ daily' < -DailyLossLimit))
  /\ fees' = fees + fill.fee
  /\ Return
  /\ UNCHANGED <<balance, pos, order, created, loopVars, back, net, fires, late, ticks>>

-----------------------------------------------------------------------------
(***************************************************************************)
(* Around the engine.                                                      *)
(***************************************************************************)

\* A stop order is put into the order manager, as CreateOrder leaves it.
CreateStop(kind, side, qty, stop) ==
  /\ created < MaxOrders
  /\ Cardinality({i \in Id : order[i].kind # "market"}) < MaxStops
  /\ created' = created + 1
  /\ order' = [order EXCEPT ![created + 1] =
                 [kind |-> kind, side |-> side, qty |-> qty, filled |-> 0,
                  status |-> "pending", stop |-> stop]]
  /\ UNCHANGED <<ledgers, loopVars, pc, back, cur, fill, history, ticks>>

\* Its owner opens it with UpdateOrderStatus.
OpenStop(i) ==
  /\ i <= created /\ order[i].kind # "market" /\ order[i].status = "pending"
  /\ order' = [order EXCEPT ![i].status = "open"]
  /\ UNCHANGED <<ledgers, created, loopVars, pc, back, cur, fill, history, ticks>>

\* Its owner cancels it, at any time: also when the dispatch goroutine has its copy in
\* hand already.
CancelStop(i) ==
  /\ i <= created /\ order[i].kind # "market" /\ order[i].status = "open"
  /\ order' = [order EXCEPT ![i].status = StopStatus(i)]
  /\ late' = IF i \in hit THEN late \cup {i} ELSE late
  /\ UNCHANGED <<ledgers, created, loopVars, pc, back, cur, fill, net, fees, fires, ticks>>

Dispatch ==
  \/ \E s \in Strategy : Pass(s)
  \/ \E s \in Strategy, side \in Side : Signal(s, side)
  \/ SignalsDone
  \/ \E i \in Id : FireStop(i)
  \/ StopsDone
  \/ Refuse
  \/ Accept
  \/ NoTrades
  \/ \E q1, q2 \in 0..cur.qty, p1, p2 \in Price : Trades(q1, p1, q2, p2)
  \/ UpdateOrderFill
  \/ AddPosition
  \/ UpdateBalance
  \/ RecordPnL

Next ==
  \/ \E p \in Price : TakeTick(p)
  \/ Dispatch
  \/ \E kind \in Kind \ {"market"}, side \in Side, q \in StopQty, p \in Price :
       CreateStop(kind, side, q, p)
  \/ \E i \in Id : OpenStop(i) \/ CancelStop(i)

\* The dispatch goroutine goes on with the tick it has taken.
Spec == Init /\ [][Next]_vars /\ WF_vars(Dispatch)

-----------------------------------------------------------------------------
(***************************************************************************)
(* Properties.                                                             *)
(***************************************************************************)

Order == [kind : Kind, side : Side, qty : Nat, filled : Nat, status : Status, stop : Nat]
Pc == {"idle", "signals", "stops", "check", "exchange", "fill", "position", "balance", "record"}

TypeOK ==
  /\ balance \in Int /\ daily \in Int /\ net \in Int /\ fees \in Int
  /\ pos \in [qty : Int, avg : Int, realized : Int]
  /\ broken \in BOOLEAN
  /\ order \in [Id -> Order]
  /\ created \in 0..MaxOrders
  /\ tick \in Price \cup {0} /\ left \subseteq Strategy /\ hit \subseteq Id
  /\ pc \in Pc /\ back \in {"signals", "stops"}
  /\ cur \in [id : Id \cup {0}, side : Side, qty : Nat, price : Nat]
  /\ fill \in [qty : Nat, value : Nat, fee : Nat, gain : Int]
  /\ fires \in [Id -> Nat] /\ late \subseteq Id
  /\ ticks \in 0..MaxTicks

\* The engine never sells what it does not hold, however many strategies and
\* stop orders want to sell the same coins on one tick and however the
\* exchange fills them: processOrder checks the position again for each.
NeverShort == pos.qty >= 0

\* What an order filled is in the position when processOrder is done with it.
\* Holds as long as avgPrice does not overflow, and is not rounded to nothing, which
\* AddPosition refuses: the smallest fills of coins worth less than a dollar are.
PositionMatchesTrades ==
  pc \in {"idle", "signals", "stops", "check", "exchange"} => pos.qty = net

\* The risk manager's running result is the position manager's realized profit
\* less the fees: two ledgers in two components, updated two steps apart.
LedgersAgree == pc \notin {"balance", "record"} => daily = pos.realized - fees

\* With the loss of the day beyond its limit no order is accepted.
LossStopsTrading ==
  [][pc = "check" /\ pc' = "exchange" =>
       ~ (DailyLossLimit > 0 /\ daily < -DailyLossLimit)]_vars

\* A purchase that went through leaves a position within the limit, at the
\* price it was checked at.
PositionCapped ==
  pc \in {"balance", "record"} /\ cur.side = "buy" /\ MaxPositionValue > 0 =>
    CalcValue(pos.qty, cur.price) <= MaxPositionValue

\* A stop order that was opened becomes a market order once at most, and not when its
\* owner has cancelled it, unless the owner came after checkStopOrders had copied it:
\* then the copy fires.
StopFiresOnce ==
  [][\A i \in Id : fires'[i] > fires[i] =>
       fires[i] = 0 /\ (order[i].status = "cancelled" => i \in late)]_vars
=============================================================================
