---------------------------- MODULE BacktestProofs ----------------------------
(***************************************************************************)
(* Proofs about Backtest for any prices, rates, strategies and lengths of  *)
(* a run.                                                                  *)
(***************************************************************************)
EXTENDS Backtest, SequenceTheorems, Sums

-----------------------------------------------------------------------------
(***************************************************************************)
(* Types.                                                                  *)
(***************************************************************************)

Holding == [qty : Nat, avg : Int, realized : Int]
DayRecord == [pnl : Int, value : Int]
TradeRecord == [side : {"buy", "sell"}, qty : Nat, price : Int, fee : Int]

Types ==
  /\ phase \in {"idle", "running", "done"}
  /\ balance \in Int /\ spent \in Int /\ dayStart \in Int
  /\ price \in Nat
  /\ ticks \in Nat
  /\ pos \in Holding
  /\ trades \in Seq(TradeRecord)
  /\ daily \in Seq(DayRecord)
  /\ gains \in Seq(Int)

LEMMA MulDivType ==
  ASSUME NEW a \in Int, NEW b \in Int, NEW d \in Nat \ {0}
  PROVE  MulDiv(a, b, d) \in Int /\ (a \in Nat /\ b \in Nat => MulDiv(a, b, d) \in Nat)
<1>1. a * b \in Int /\ (a \in Nat /\ b \in Nat => a * b \in Nat)
  OBVIOUS
<1> DEFINE x == a * b
<1> HIDE DEF x
<1>2. x \in Int => x \div d \in Int
  OBVIOUS
<1>3. x \in Nat => x \div d \in Nat
  OBVIOUS
<1> QED
  BY <1>1, <1>2, <1>3 DEF MulDiv, x

LEMMA MoneyTypes ==
  ASSUME NEW n \in Int, NEW q \in Int, NEW p \in Int
  PROVE  /\ Value(q, p) \in Int /\ Fee(n) \in Int
         /\ \A b \in Int : TotalValue(b, q, p) \in Int
<1>1. Value(q, p) \in Int
  BY MulDivType, ScaleAssumption DEF Value, CalcValue
<1>2. Fee(n) \in Int
  BY MulDivType, RateAssumption DEF Fee, Percent
<1> QED
  BY <1>1, <1>2 DEF TotalValue

LEMMA PriceTypes ==
  ASSUME NEW p \in Price
  PROVE  p \in Nat /\ BuyPrice(p) \in Nat /\ SellPrice(p) \in Nat
<1>1. p \in Nat /\ 10000 + SlipBps \in Nat /\ 10000 - SlipBps \in Nat /\ 10000 \in Nat \ {0}
  BY PriceAssumption, RateAssumption
<1> QED
  BY <1>1, MulDivType DEF BuyPrice, SellPrice, Percent

LEMMA BuyTypes ==
  ASSUME Types, NEW p \in Price, CanBuy(p)
  PROVE  /\ BuyQty(p) \in Nat \ {0} /\ BuyPrice(p) \in Nat \ {0}
         /\ BuyTotal(p) \in Int
         /\ BuyTotal(p) = Value(BuyQty(p), BuyPrice(p)) + Fee(Value(BuyQty(p), BuyPrice(p)))
<1>1. BuyPrice(p) \in Nat \ {0} /\ MaxNotional > 0 /\ BuyQty(p) > 0 /\ balance \in Int
  BY PriceTypes DEF CanBuy, Types
<1>2. MaxNotional \in Int
  <2>1. 10000 + FeeBps \in Nat \ {0}
    BY RateAssumption
  <2> QED
    BY <1>1, <2>1, MulDivType DEF MaxNotional
<1>3. BuyQty(p) \in Int
  BY <1>1, <1>2, MulDivType, ScaleAssumption DEF BuyQty, CalcQuantity
<1>4. Value(BuyQty(p), BuyPrice(p)) \in Int /\ Fee(Value(BuyQty(p), BuyPrice(p))) \in Int
  BY <1>1, <1>3, MoneyTypes
<1> QED
  BY <1>1, <1>3, <1>4 DEF BuyTotal

LEMMA BoughtType ==
  ASSUME NEW h \in Holding, NEW q \in Nat \ {0}, NEW p \in Nat
  PROVE  Bought(h, q, p) \in Holding /\ Bought(h, q, p).qty = h.qty + q
<1> DEFINE n == h.qty * h.avg + q * p
           d == h.qty + q
<1>1. h.qty \in Nat /\ h.avg \in Int /\ h.qty >= 0
  BY DEF Holding
<1>2. n \in Int /\ d \in Nat \ {0}
  BY <1>1
<1> HIDE DEF n, d
<1>3. n \div d \in Int
  BY <1>2
<1>4. Mean(h.qty, h.avg, q, p) \in Int
  BY <1>3 DEF Mean, n, d
<1> DEFINE a == Mean(h.qty, h.avg, q, p)
<1>5. Bought(h, q, p) = [h EXCEPT !.qty = h.qty + q, !.avg = a]
  BY <1>1 DEF Bought
<1>6. a \in Int /\ h.qty + q \in Nat
  BY <1>1, <1>4
<1> HIDE DEF a
<1> QED
  BY <1>5, <1>6 DEF Holding

LEMMA SoldType ==
  ASSUME NEW h \in Holding, h.qty > 0, NEW p \in Nat
  PROVE  Sold(h, h.qty, p) \in Holding /\ Sold(h, h.qty, p).qty = 0
<1>1. h.qty \in Nat /\ p - h.avg \in Int /\ h.realized \in Int
  BY DEF Holding
<1>2. MulDiv(h.qty, p - h.avg, Scale) \in Int
  <2>1. h.qty \in Int
    BY <1>1
  <2> QED
    BY <1>1, <2>1, MulDivType, ScaleAssumption
<1> QED
  BY <1>1, <1>2 DEF Sold, Holding

\* What one tick may do to the book.
Follows(p) == Buy(p) \/ Sell(p) \/ UNCHANGED book

LEMMA BookTypes ==
  ASSUME Types, NEW p \in Price, Follows(p)
  PROVE  /\ balance' \in Int /\ spent' \in Int /\ pos' \in Holding
         /\ trades' \in Seq(TradeRecord) /\ gains' \in Seq(Int)
<1>1. CASE Buy(p)
  <2> DEFINE q == BuyQty(p)
             b == BuyPrice(p)
             t == [side |-> "buy", qty |-> q, price |-> b, fee |-> Fee(Value(q, b))]
  <2>1. q \in Nat \ {0} /\ b \in Nat \ {0} /\ BuyTotal(p) \in Int
    BY <1>1, BuyTypes DEF Buy
  <2>2. Value(q, b) \in Int /\ Fee(Value(q, b)) \in Int
    BY <2>1, MoneyTypes
  <2>3. t \in TradeRecord
    BY <2>1, <2>2 DEF TradeRecord
  <2>4. trades' = Append(trades, t) /\ pos' = Bought(pos, q, b)
    BY <1>1 DEF Buy, Record
  <2>5. pos' \in Holding
    BY <2>1, <2>4, BoughtType DEF Types
  <2> HIDE DEF t, q, b
  <2>6. trades' \in Seq(TradeRecord)
    BY <2>3, <2>4, AppendProperties DEF Types
  <2>7. balance' \in Int /\ spent' \in Int /\ gains' \in Seq(Int)
    BY <1>1, <2>1 DEF Buy, Types
  <2> QED
    BY <2>5, <2>6, <2>7
<1>2. CASE Sell(p)
  <2> DEFINE q == pos.qty
             b == SellPrice(p)
             t == [side |-> "sell", qty |-> q, price |-> b, fee |-> Fee(Value(q, b))]
  <2>1. q \in Nat /\ q > 0 /\ b \in Nat
    BY <1>2, PriceTypes DEF Sell, CanSell, Types, Holding
  <2>2. Value(q, b) \in Int /\ Fee(Value(q, b)) \in Int
    BY <2>1, MoneyTypes
  <2>3. t \in TradeRecord
    BY <2>1, <2>2 DEF TradeRecord
  <2>4. /\ trades' = Append(trades, t) /\ pos' = Sold(pos, q, b)
        /\ balance' = balance + Value(q, b) - Fee(Value(q, b))
        /\ gains' = Append(gains, balance' - spent) /\ spent' = spent
    BY <1>2 DEF Sell, Record
  <2>5. pos' \in Holding
    BY <2>1, <2>4, SoldType DEF Types
  <2> HIDE DEF t, q, b
  <2>6. trades' \in Seq(TradeRecord)
    BY <2>3, <2>4, AppendProperties DEF Types
  <2>7. balance' \in Int /\ spent' \in Int /\ balance' - spent \in Int
    BY <2>2, <2>4 DEF Types
  <2>8. gains' \in Seq(Int)
    BY <2>4, <2>7, AppendProperties DEF Types
  <2> QED
    BY <2>5, <2>6, <2>7, <2>8
<1>3. CASE UNCHANGED book
  BY <1>3 DEF book, Types
<1> QED
  BY <1>1, <1>2, <1>3 DEF Follows

LEMMA TickFollows ==
  ASSUME NEW p, NEW d, Tick(p, d) PROVE Follows(p)
  BY DEF Tick, Hold, Follows

-----------------------------------------------------------------------------
(***************************************************************************)
(* The days of a run add up.                                               *)
(***************************************************************************)

\* The profits of some days, together.
Earned(days) == Sum([k \in DOMAIN days |-> days[k].pnl])

\* A run's days make up the difference between its initial balance and the value
\* the current day began with, and in the end the final one.
DayInv ==
  /\ Types
  /\ phase = "running" => Earned(daily) = dayStart - InitialBalance
  /\ phase = "done" => Earned(daily) = FinalValue - InitialBalance

LEMMA EarnedIsSumOver ==
  ASSUME NEW days \in Seq(DayRecord)
  PROVE  Earned(days) = SumOver([k \in 1..Len(days) |-> days[k].pnl], 1..Len(days))
<1> DEFINE f == [k \in DOMAIN days |-> days[k].pnl]
<1>1. DOMAIN days = 1..Len(days)
  OBVIOUS
<1>2. DOMAIN f = DOMAIN days
  OBVIOUS
<1>3. Earned(days) = SumOver(f, DOMAIN f)
  BY DEF Earned, Sum, FoldFunction, SumOver
<1> QED
  BY <1>1, <1>2, <1>3

LEMMA EarnedNothing == Earned(<<>>) = 0
<1>1. <<>> \in Seq(DayRecord) /\ 1..Len(<<>>) = {}
  OBVIOUS
<1> QED
  BY <1>1, EarnedIsSumOver, SumEmpty

LEMMA EarnedOneMore ==
  ASSUME NEW days \in Seq(DayRecord), NEW r \in DayRecord
  PROVE  /\ Earned(Append(days, r)) = Earned(days) + r.pnl
         /\ Earned(days) \in Int
<1> DEFINE n == Len(days)
           more == Append(days, r)
           f == [k \in 1..n |-> days[k].pnl]
           g == [k \in 1..(n + 1) |-> more[k].pnl]
<1>1. n \in Nat /\ Len(more) = n + 1 /\ more \in Seq(DayRecord)
  BY AppendProperties
<1>2. (\A k \in 1..n : more[k] = days[k]) /\ more[n + 1] = r
  BY AppendProperties
<1>3. \A k \in 1..n : days[k].pnl \in Int
  <2>1. \A k \in 1..n : days[k] \in DayRecord
    BY ElementOfSeq
  <2> QED
    BY <2>1 DEF DayRecord
<1>4. r.pnl \in Int
  BY DEF DayRecord
<1>5. Earned(days) = SumOver(f, 1..n) /\ Earned(more) = SumOver(g, 1..(n + 1))
  BY <1>1, EarnedIsSumOver
<1> HIDE DEF more
<1>6. /\ \A k \in 1..n : f[k] = days[k].pnl /\ g[k] = days[k].pnl
      /\ g[n + 1] = r.pnl
  BY <1>1, <1>2
<1> HIDE DEF n, f, g
<1>7. \A k \in 1..(n + 1) : g[k] \in Int
  <2>1. 1..(n + 1) = (1..n) \cup {n + 1}
    BY <1>1
  <2> QED
    BY <1>3, <1>4, <1>6, <2>1
<1>8. SumOver(g, 1..(n + 1)) = SumOver(f, 1..n) + g[n + 1]
  BY <1>1, <1>6, <1>7, SumAppend
<1>9. IsFiniteSet(1..n) /\ \A k \in 1..n : f[k] \in Int
  <2>1. 1 \in Int /\ n \in Int
    BY <1>1
  <2>2. IsFiniteSet(1..n)
    BY <2>1, FS_Interval
  <2> QED
    BY <1>3, <1>6, <2>2
<1>10. SumOver(f, 1..n) \in Int
  BY <1>9, SumType
<1> QED
  BY <1>5, <1>6, <1>8, <1>10 DEF more

\* Closing a day with the value v keeps the account.
LEMMA DayCloses ==
  ASSUME Types, NEW v \in Int
  PROVE  /\ DayPnl(v) \in DayRecord
         /\ Append(daily, DayPnl(v)) \in Seq(DayRecord)
         /\ Earned(Append(daily, DayPnl(v))) = Earned(daily) + v - dayStart
         /\ Earned(daily) \in Int
<1>1. DayPnl(v) \in DayRecord /\ DayPnl(v).pnl = v - dayStart
  BY DEF DayPnl, DayRecord, Types
<1>2. daily \in Seq(DayRecord) /\ dayStart \in Int
  BY DEF Types
<1>3. /\ Earned(Append(daily, DayPnl(v))) = Earned(daily) + DayPnl(v).pnl
      /\ Earned(daily) \in Int
  BY <1>1, <1>2, EarnedOneMore
<1> QED
  BY <1>1, <1>2, <1>3, AppendProperties

LEMMA InitDays == Init => DayInv
  BY BalanceAssumption, EmptySeq
     DEF Init, DayInv, Types, Holding, NoPosition

LEMMA StartDays == ASSUME DayInv, StartRun PROVE DayInv'
<1>1. Types'
  BY BalanceAssumption, EmptySeq DEF StartRun, Types, Holding, NoPosition
<1>2. Earned(daily') = 0
  BY EarnedNothing DEF StartRun
<1> QED
  BY <1>1, <1>2, BalanceAssumption DEF StartRun, DayInv

LEMMA FinishDays == ASSUME DayInv, FinishRun PROVE DayInv'
<1> DEFINE v == TotalValue(balance, pos.qty, price)
<1>1. v \in Int
  <2>1. balance \in Int /\ pos.qty \in Int /\ price \in Int
    BY DEF DayInv, Types, Holding
  <2> QED
    BY <2>1, MoneyTypes
<1>2. /\ daily' = Append(daily, DayPnl(v)) /\ dayStart' = dayStart
      /\ FinalValue' = v /\ phase = "running" /\ phase' = "done"
  BY DEF FinishRun, FinalValue, book
<1> HIDE DEF v
<1>3. Types'
  BY <1>1, <1>2, DayCloses DEF FinishRun, DayInv, Types, book
<1>4. Earned(daily') = v - InitialBalance
  BY <1>1, <1>2, DayCloses, BalanceAssumption DEF DayInv, Types
<1> QED
  BY <1>2, <1>3, <1>4 DEF DayInv

LEMMA TickDays ==
  ASSUME DayInv, NEW p \in Price, NEW d, Tick(p, d) PROVE DayInv'
<1>1. Types /\ Follows(p)
  BY TickFollows DEF DayInv
<1>2. /\ balance' \in Int /\ spent' \in Int /\ pos' \in Holding
      /\ trades' \in Seq(TradeRecord) /\ gains' \in Seq(Int)
  BY <1>1, BookTypes
<1>3. /\ phase = "running" /\ phase' = "running" /\ price' = p /\ p \in Nat
      /\ ticks' \in Nat
  BY <1>1, PriceTypes DEF Tick, Types
<1>4. CASE UNCHANGED <<daily, dayStart>>
  BY <1>1, <1>2, <1>3, <1>4 DEF DayInv, Types
<1>5. CASE ~ UNCHANGED <<daily, dayStart>>
  <2> DEFINE v == TotalValue(balance', pos'.qty, p)
  <2>1. v \in Int
    <3>1. balance' \in Int /\ pos'.qty \in Int /\ p \in Int
      BY <1>2, <1>3 DEF Holding
    <3> QED
      BY <3>1, MoneyTypes
  <2>2. daily' = Append(daily, DayPnl(v)) /\ dayStart' = v
    BY <1>5 DEF Tick, CloseDay, StartValue
  <2> HIDE DEF v
  <2>3. Types'
    BY <1>1, <1>2, <1>3, <2>1, <2>2, DayCloses DEF Types
  <2>4. Earned(daily') = dayStart' - InitialBalance
    BY <1>1, <1>3, <2>1, <2>2, DayCloses, BalanceAssumption DEF DayInv, Types
  <2> QED
    BY <1>3, <2>3, <2>4 DEF DayInv
<1> QED
  BY <1>4, <1>5

LEMMA NextDays == DayInv /\ [Next]_vars => DayInv'
<1> SUFFICES ASSUME DayInv, [Next]_vars PROVE DayInv'
  OBVIOUS
<1>1. CASE Next
  BY <1>1, StartDays, FinishDays, TickDays DEF Next
<1>2. CASE UNCHANGED vars
  <2>1. Types' /\ FinalValue' = FinalValue /\ Earned(daily') = Earned(daily)
    BY <1>2 DEF vars, book, day, DayInv, Types, FinalValue
  <2> QED
    BY <1>2, <2>1 DEF vars, day, DayInv
<1> QED
  BY <1>1, <1>2

\* Whatever the prices, the trades and the days they fall on, the daily profits
\* of a finished run add up to its final value less its initial balance.
THEOREM DaysAddUp == Spec => []DailyAddsUp
<1>1. DayInv => DailyAddsUp
  BY DEF DayInv, DailyAddsUp, Earned
<1> QED
  BY <1>1, InitDays, NextDays, PTL DEF Spec

-----------------------------------------------------------------------------
(***************************************************************************)
(* The flag of Turtle and Bollinger.                                       *)
(***************************************************************************)

Flagged == {"turtle", "bollinger"}

\* The strategy's state is of its kind.
KindInv ==
  /\ strategy.kind \in StrategyKind
  /\ "kind" \in DOMAIN strategy
  /\ strategy.kind \in Flagged => "hasPosition" \in DOMAIN strategy

\* The condition on prices, which is on constants only.
PricesSell == \A p \in Price : SellPrice(p) > 0

FlagInv ==
  /\ DayInv
  /\ KindInv
  /\ FlatWhenFlagged

LEMMA FreshIsOfKind ==
  ASSUME NEW kind \in StrategyKind
  PROVE  /\ Fresh(kind).kind = kind /\ "kind" \in DOMAIN Fresh(kind)
         /\ kind \in Flagged => "hasPosition" \in DOMAIN Fresh(kind)
  BY DEF Fresh, StrategyKind, Flagged

\* What a strategy answers is of its kind.
OfKind(s, kind) ==
  /\ "kind" \in DOMAIN s /\ s.kind = kind
  /\ kind \in Flagged => "hasPosition" \in DOMAIN s

LEMMA AnswersOfKind ==
  ASSUME NEW s, NEW p, NEW kind \in StrategyKind, OfKind(s, kind),
         NEW answer \in OnTick(s, p)
  PROVE  OfKind(answer.next, kind)
<1>0. OfKind(Seen(s, p), kind)
  BY DEF OfKind, Seen
<1> DEFINE t == Seen(s, p)
<1> HIDE DEF t
<1>1. CASE kind = "any"
  BY <1>1 DEF OnTick, OfKind, Answer
<1>2. CASE kind = "ma_crossover"
  <2>1. answer = MACrossover(t)
    BY <1>2 DEF OnTick, OfKind, t
  <2> QED
    BY <1>0, <2>1 DEF OfKind, MACrossover, Answer, t
<1>3. CASE kind = "rsi"
  <2>1. answer = RSI(t)
    BY <1>3 DEF OnTick, OfKind, t
  <2> QED
    BY <1>0, <2>1 DEF OfKind, RSI, Answer, t
<1>4. CASE kind = "bollinger"
  <2>1. answer = Bollinger(t)
    BY <1>4 DEF OnTick, OfKind, t
  <2> QED
    BY <1>0, <2>1 DEF OfKind, Bollinger, Answer, t
<1>5. CASE kind = "turtle"
  <2>1. answer = Turtle(t)
    BY <1>5 DEF OnTick, OfKind, t
  <2> QED
    BY <1>0, <2>1 DEF OfKind, Turtle, Answer, t
<1>6. CASE kind = "grid"
  <2>1. answer = Grid(t)
    BY <1>6 DEF OnTick, OfKind, t
  <2> QED
    BY <1>0, <2>1 DEF OfKind, Grid, Answer, t
<1> QED
  BY <1>1, <1>2, <1>3, <1>4, <1>5, <1>6 DEF StrategyKind

\* A buy signal is given with the flag off and sets it, a sell signal with the flag
\* on and clears it, and nothing else changes it.
LEMMA SignalsMoveFlag ==
  ASSUME NEW s, NEW p, NEW kind \in Flagged, OfKind(s, kind),
         NEW answer \in OnTick(s, p)
  PROVE  \/ /\ answer.signal = "buy"
            /\ ~ s.hasPosition /\ answer.next.hasPosition
         \/ /\ answer.signal = "sell"
            /\ s.hasPosition /\ ~ answer.next.hasPosition
         \/ /\ answer.signal = "none"
            /\ answer.next.hasPosition = s.hasPosition
<1>0. OfKind(Seen(s, p), kind) /\ Seen(s, p).hasPosition = s.hasPosition
  BY DEF OfKind, Seen
<1> DEFINE t == Seen(s, p)
<1> HIDE DEF t
<1>1. CASE kind = "bollinger"
  <2>1. answer = Bollinger(t)
    BY <1>1 DEF OnTick, OfKind, t
  <2> QED
    BY <1>0, <2>1, <1>1 DEF OfKind, Bollinger, Answer, t, Flagged
<1>2. CASE kind = "turtle"
  <2>1. answer = Turtle(t)
    BY <1>2 DEF OnTick, OfKind, t
  <2> QED
    BY <1>0, <2>1, <1>2 DEF OfKind, Turtle, Answer, t, Flagged
<1> QED
  BY <1>1, <1>2 DEF Flagged

\* After a purchase there is a position, after a sale there is none.
LEMMA BuyLeavesSome ==
  ASSUME Types, NEW p \in Price, Buy(p) PROVE pos'.qty > 0
<1>1. BuyQty(p) \in Nat \ {0} /\ BuyPrice(p) \in Nat
  BY BuyTypes DEF Buy
<1>2. pos \in Holding /\ pos' = Bought(pos, BuyQty(p), BuyPrice(p)) /\ pos.qty \in Nat
  BY DEF Types, Buy, Holding
<1>3. pos'.qty = pos.qty + BuyQty(p)
  BY <1>1, <1>2, BoughtType
<1> QED
  BY <1>1, <1>2, <1>3

LEMMA SellLeavesNone ==
  ASSUME Types, NEW p \in Price, Sell(p) PROVE pos'.qty = 0
<1>1. pos \in Holding /\ pos' = Sold(pos, pos.qty, SellPrice(p)) /\ pos.qty > 0
  BY DEF Types, Sell, CanSell
<1> QED
  BY <1>1, PriceTypes, SoldType

LEMMA InitFlag == Init => FlagInv
<1> SUFFICES ASSUME Init PROVE FlagInv
  OBVIOUS
<1>1. PICK kind \in StrategyKind : strategy = Fresh(kind)
  BY DEF Init
<1>2. KindInv
  BY <1>1, FreshIsOfKind DEF KindInv
<1>3. FlatWhenFlagged
  BY DEF Init, FlatWhenFlagged, NoPosition
<1> QED
  BY <1>2, <1>3, InitDays DEF FlagInv

LEMMA StartFlag == ASSUME FlagInv, StartRun PROVE FlagInv'
<1>1. strategy' = Fresh(strategy.kind) /\ pos' = NoPosition
  BY DEF StartRun
<1>2. KindInv'
  BY <1>1, FreshIsOfKind DEF KindInv, FlagInv
<1>3. FlatWhenFlagged'
  BY <1>1 DEF FlatWhenFlagged, NoPosition
<1> QED
  BY <1>2, <1>3, StartDays DEF FlagInv

LEMMA TickFlag ==
  ASSUME FlagInv, NEW p \in Price, NEW d, Tick(p, d) PROVE FlagInv'
<1> DEFINE kind == strategy.kind
<1>0. Types /\ KindInv /\ FlatWhenFlagged /\ OfKind(strategy, kind) /\ kind \in StrategyKind
  BY DEF FlagInv, DayInv, KindInv, OfKind
<1>1. PICK answer \in OnTick(strategy, p) :
        /\ strategy' = answer.next
        /\ \/ answer.signal = "buy" /\ Buy(p)
           \/ answer.signal = "sell" /\ Sell(p)
           \/ Hold(p, answer.signal)
  BY DEF Tick
<1>2. OfKind(strategy', kind)
  BY <1>0, <1>1, AnswersOfKind
<1>3. KindInv' /\ strategy'.kind = kind
  BY <1>0, <1>2 DEF KindInv, OfKind
<1>4. ASSUME kind \in Flagged, PricesSell, ~ strategy'.hasPosition
      PROVE  pos'.qty = 0
  <2>1. ~ strategy.hasPosition => pos.qty = 0
    BY <1>0, <1>4 DEF FlatWhenFlagged, Flagged, PricesSell
  <2>2. \/ answer.signal = "sell"
        \/ answer.signal = "none" /\ ~ strategy.hasPosition
    BY <1>0, <1>1, <1>4, SignalsMoveFlag
  <2>3. CASE Sell(p)
    BY <1>0, <2>3, SellLeavesNone
  <2>4. CASE Hold(p, answer.signal) /\ answer.signal = "sell"
    <3>1. pos' = pos /\ ~ CanSell(p)
      BY <2>4 DEF Hold, book
    <3>2. SellPrice(p) > 0 /\ pos.qty \in Nat
      BY <1>0, <1>4 DEF PricesSell, Types, Holding
    <3> QED
      BY <3>1, <3>2 DEF CanSell
  <2>5. CASE Hold(p, answer.signal) /\ answer.signal = "none"
    BY <2>1, <2>2, <2>5 DEF Hold, book
  <2> QED
    BY <1>1, <2>2, <2>3, <2>4, <2>5
<1>5. FlatWhenFlagged'
  BY <1>3, <1>4 DEF FlatWhenFlagged, Flagged, PricesSell
<1> QED
  BY <1>3, <1>5, TickDays DEF FlagInv

LEMMA NextFlag == FlagInv /\ [Next]_vars => FlagInv'
<1> SUFFICES ASSUME FlagInv, [Next]_vars PROVE FlagInv'
  OBVIOUS
<1>1. CASE StartRun
  BY <1>1, StartFlag
<1>2. CASE FinishRun \/ UNCHANGED vars
  <2>1. strategy' = strategy /\ pos' = pos
    BY <1>2 DEF FinishRun, vars, book
  <2>2. KindInv' /\ FlatWhenFlagged'
    BY <2>1 DEF FlagInv, KindInv, FlatWhenFlagged
  <2>3. DayInv'
    BY NextDays DEF FlagInv
  <2> QED
    BY <2>2, <2>3 DEF FlagInv
<1>3. CASE \E p \in Price, d \in IF date = 0 THEN {1} ELSE {date, date + 1} : Tick(p, d)
  BY <1>3, TickFlag
<1> QED
  BY <1>1, <1>2, <1>3 DEF Next

\* As long as no price is so low that its slippage takes all of it, Turtle and
\* Bollinger hold nothing while their own flag says so, whatever they were refused.
THEOREM NothingHeldWithFlagOff == Spec => []FlatWhenFlagged
<1>1. FlagInv => FlatWhenFlagged
  BY DEF FlagInv
<1> QED
  BY <1>1, InitFlag, NextFlag, PTL DEF Spec

-----------------------------------------------------------------------------
(***************************************************************************)
(* Round trips.                                                            *)
(***************************************************************************)

\* Purchases and sales take turns.
TakeTurns(s) == \A n \in DOMAIN s \ {1} : s[n].side # s[n - 1].side
Alternate == TakeTurns(trades)

Held == IF pos.qty > 0 THEN 1 ELSE 0

\* The last trade tells whether anything is held.
LastTells ==
  /\ trades = <<>> => pos.qty = 0
  /\ trades # <<>> => (trades[Len(trades)].side = "buy" <=> pos.qty > 0)

\* Each gain is that of a purchase and the sale after it.
TripOf(k) ==
  /\ trades[2 * k - 1].side = "buy" /\ trades[2 * k].side = "sell"
  /\ gains[k] = SellRevenue(trades[2 * k]) - BuyCost(trades[2 * k - 1])

\* The trades are the round trips one after the other, and perhaps one more purchase,
\* which took from the balance what it cost.
Paired ==
  /\ Len(trades) = 2 * Len(gains) + Held
  /\ \A k \in 1..Len(gains) : TripOf(k)
  /\ Held = 1 => balance = spent - BuyCost(trades[Len(trades)])

TripInv ==
  /\ FlagInv
  /\ LastTells
  /\ strategy.kind \in Flagged /\ PricesSell => Alternate
  /\ Alternate => Paired

\* What a trade appends.
LEMMA TradeAppended ==
  ASSUME NEW s \in Seq(TradeRecord), NEW t \in TradeRecord, NEW ext, ext = Append(s, t)
  PROVE  /\ Len(ext) = Len(s) + 1 /\ Len(s) \in Nat /\ ext # <<>>
         /\ ext[Len(s) + 1] = t
         /\ \A n \in 1..Len(s) : ext[n] = s[n]
         /\ DOMAIN ext = 1..(Len(s) + 1) /\ DOMAIN s = 1..Len(s)
<1>1. ext \in Seq(TradeRecord)
  BY AppendProperties
<1> QED
  BY <1>1, AppendProperties

LEMMA GainAppended ==
  ASSUME NEW t \in Int, NEW s \in Seq(Int), NEW ext, ext = Append(s, t)
  PROVE  /\ Len(ext) = Len(s) + 1 /\ Len(s) \in Nat
         /\ ext[Len(s) + 1] = t
         /\ \A n \in 1..Len(s) : ext[n] = s[n]
  BY AppendProperties

\* The trade of one side that a tick makes alternates with those before, or does not.
LEMMA AlternateNext ==
  ASSUME NEW s \in Seq(TradeRecord), NEW t \in TradeRecord, NEW ext, ext = Append(s, t)
  PROVE  TakeTurns(ext) <=> TakeTurns(s) /\ (s # <<>> => t.side # s[Len(s)].side)
<1> DEFINE m == Len(s)
<1>1. /\ m \in Nat
      /\ ext[m + 1] = t /\ \A n \in 1..m : ext[n] = s[n]
      /\ DOMAIN ext = 1..(m + 1) /\ DOMAIN s = 1..m
  BY TradeAppended
<1>2. s # <<>> <=> m > 0
  BY EmptySeq
<1> HIDE DEF m
<1>3. ASSUME \A n \in DOMAIN ext \ {1} : ext[n].side # ext[n - 1].side
      PROVE  /\ \A n \in DOMAIN s \ {1} : s[n].side # s[n - 1].side
             /\ s # <<>> => t.side # s[m].side
  <2>1. ASSUME NEW n \in DOMAIN s \ {1} PROVE s[n].side # s[n - 1].side
    <3>1. n \in 1..m /\ n # 1 /\ n - 1 \in 1..m /\ n \in DOMAIN ext \ {1}
      BY <1>1
    <3> QED
      BY <1>1, <1>3, <3>1
  <2>2. ASSUME s # <<>> PROVE t.side # s[m].side
    <3>1. m + 1 \in DOMAIN ext \ {1} /\ m \in 1..m /\ (m + 1) - 1 = m
      BY <1>1, <1>2, <2>2
    <3> QED
      BY <1>1, <1>3, <3>1
  <2> QED
    BY <2>1, <2>2
<1>4. ASSUME \A n \in DOMAIN s \ {1} : s[n].side # s[n - 1].side,
             s # <<>> => t.side # s[m].side,
             NEW n \in DOMAIN ext \ {1}
      PROVE  ext[n].side # ext[n - 1].side
  <2>1. CASE n = m + 1
    <3>1. m > 0 /\ m \in 1..m /\ n - 1 = m
      BY <1>1, <2>1
    <3> QED
      BY <1>1, <1>2, <1>4, <2>1, <3>1
  <2>2. CASE n # m + 1
    <3>1. n \in 1..m /\ n # 1 /\ n - 1 \in 1..m /\ n \in DOMAIN s \ {1}
      BY <1>1, <2>2
    <3> QED
      BY <1>1, <1>4, <3>1
  <2> QED
    BY <2>1, <2>2
<1> QED
  BY <1>3, <1>4 DEF m, TakeTurns

LEMMA CostOfBuy ==
  ASSUME Types, NEW p \in Price, Buy(p)
  PROVE  \E t \in TradeRecord :
           /\ t.side = "buy" /\ BuyCost(t) = BuyTotal(p) /\ BuyTotal(p) \in Int
           /\ trades' = Append(trades, t)
<1> DEFINE q == BuyQty(p)
           b == BuyPrice(p)
           t == [side |-> "buy", qty |-> q, price |-> b, fee |-> Fee(Value(q, b))]
<1>1. /\ q \in Nat /\ b \in Nat /\ BuyTotal(p) \in Int
      /\ BuyTotal(p) = Value(q, b) + Fee(Value(q, b))
  BY BuyTypes DEF Buy
<1>2. Value(q, b) \in Int /\ Fee(Value(q, b)) \in Int
  BY <1>1, MoneyTypes
<1>3. trades' = Append(trades, t)
  BY DEF Buy, Record
<1> HIDE DEF q, b
<1>4. t \in TradeRecord /\ t.side = "buy"
  BY <1>1, <1>2 DEF TradeRecord
<1>5. BuyCost(t) = Value(q, b) + Fee(Value(q, b))
  BY DEF BuyCost
<1> HIDE DEF t
<1> QED
  BY <1>1, <1>3, <1>4, <1>5

LEMMA RevenueOfSale ==
  ASSUME Types, NEW p \in Price, Sell(p)
  PROVE  \E t \in TradeRecord :
           /\ t.side = "sell" /\ SellRevenue(t) \in Int
           /\ trades' = Append(trades, t)
           /\ balance' = balance + SellRevenue(t)
           /\ balance' - spent \in Int
           /\ gains' = Append(gains, balance' - spent)
<1> DEFINE q == pos.qty
           b == SellPrice(p)
           t == [side |-> "sell", qty |-> q, price |-> b, fee |-> Fee(Value(q, b))]
<1>1. q \in Nat /\ b \in Nat /\ balance \in Int /\ spent \in Int
  BY PriceTypes DEF Types, Holding
<1>2. Value(q, b) \in Int /\ Fee(Value(q, b)) \in Int
  BY <1>1, MoneyTypes
<1>3. /\ trades' = Append(trades, t)
      /\ balance' = balance + Value(q, b) - Fee(Value(q, b))
      /\ gains' = Append(gains, balance' - spent)
  BY DEF Sell, Record
<1> HIDE DEF q, b
<1>4. t \in TradeRecord /\ t.side = "sell"
  BY <1>1, <1>2 DEF TradeRecord
<1>5. SellRevenue(t) = Value(q, b) - Fee(Value(q, b))
  BY DEF SellRevenue
<1> HIDE DEF t
<1> QED
  BY <1>1, <1>2, <1>3, <1>4, <1>5

LEMMA HeldIs == ASSUME Types PROVE Held \in {0, 1} /\ (Held = 1 <=> pos.qty > 0)
  BY DEF Types, Holding, Held

LEMMA LastOfEmpty ==
  ASSUME Types PROVE (trades = <<>> <=> Len(trades) = 0) /\ Len(trades) \in Nat
  BY EmptySeq DEF Types

LEMMA BuyTrips ==
  ASSUME Types, LastTells, Alternate => Paired, NEW p \in Price, Buy(p), Alternate',
         Types'
  PROVE  Paired'
<1>1. PICK t \in TradeRecord :
        /\ t.side = "buy" /\ BuyCost(t) = BuyTotal(p) /\ BuyTotal(p) \in Int
        /\ trades' = Append(trades, t)
  BY CostOfBuy
<1>2. trades \in Seq(TradeRecord)
  BY DEF Types
<1>3. Alternate /\ (trades # <<>> => trades[Len(trades)].side # "buy")
  BY <1>1, <1>2, AlternateNext DEF Alternate
<1>4. pos.qty \in Nat /\ ~ (pos.qty > 0)
  BY <1>3, SMTT(30) DEF LastTells, Types, Holding
<1>5. pos.qty = 0 /\ Held = 0 /\ Held' = 1
  BY <1>4, BuyLeavesSome DEF Held
<1>6. /\ balance' = spent' - BuyTotal(p) /\ gains' = gains
      /\ balance' = balance - BuyTotal(p) /\ spent' = balance
  BY <1>5 DEF Buy
<1>7. /\ Len(trades') = Len(trades) + 1 /\ Len(trades) \in Nat
      /\ trades'[Len(trades) + 1] = t
      /\ \A n \in 1..Len(trades) : trades'[n] = trades[n]
  BY <1>1, <1>2, TradeAppended
<1>8. Paired /\ Len(gains) \in Nat
  BY <1>3 DEF Types
<1>9. Len(trades') = 2 * Len(gains') + Held'
  BY <1>5, <1>6, <1>7, <1>8 DEF Paired
<1>10. ASSUME NEW k \in 1..Len(gains') PROVE TripOf(k)'
  <2>1. k \in 1..Len(gains) /\ TripOf(k) /\ Len(trades) = 2 * Len(gains)
    BY <1>5, <1>6, <1>8 DEF Paired
  <2>2. 2 * k \in 1..Len(trades) /\ 2 * k - 1 \in 1..Len(trades)
    BY <1>8, <2>1
  <2>3. trades'[2 * k] = trades[2 * k] /\ trades'[2 * k - 1] = trades[2 * k - 1]
    BY <1>7, <2>2
  <2> QED
    BY <1>6, <2>1, <2>3 DEF TripOf
<1>11. balance' = spent' - BuyCost(trades'[Len(trades')])
  BY <1>1, <1>6, <1>7
<1> QED
  BY <1>9, <1>10, <1>11 DEF Paired

LEMMA SellTrips ==
  ASSUME Types, LastTells, Alternate => Paired, NEW p \in Price, Sell(p), Alternate',
         Types'
  PROVE  Paired'
<1>1. PICK t \in TradeRecord :
        /\ t.side = "sell" /\ SellRevenue(t) \in Int
        /\ trades' = Append(trades, t)
        /\ balance' = balance + SellRevenue(t)
        /\ balance' - spent \in Int
        /\ gains' = Append(gains, balance' - spent)
  BY RevenueOfSale
<1>2. trades \in Seq(TradeRecord) /\ gains \in Seq(Int)
  BY DEF Types
<1>3. Alternate
  BY <1>1, <1>2, AlternateNext DEF Alternate
<1>4. pos.qty > 0 /\ Held = 1
  BY DEF Sell, CanSell, Held
<1>5. Held' = 0
  <2>1. pos'.qty = 0
    BY SellLeavesNone
  <2> QED
    BY <2>1 DEF Held
<1>6. Paired /\ balance = spent - BuyCost(trades[Len(trades)])
  BY <1>3, <1>4 DEF Paired
<1>7. /\ Len(trades') = Len(trades) + 1 /\ Len(trades) \in Nat
      /\ trades'[Len(trades) + 1] = t
      /\ \A n \in 1..Len(trades) : trades'[n] = trades[n]
  BY <1>1, <1>2, TradeAppended
<1>8. /\ Len(gains') = Len(gains) + 1 /\ Len(gains) \in Nat
      /\ gains'[Len(gains) + 1] = balance' - spent
      /\ \A n \in 1..Len(gains) : gains'[n] = gains[n]
  BY <1>1, <1>2, GainAppended
<1>9. Len(trades) = 2 * Len(gains) + 1
  BY <1>4, <1>6 DEF Paired
<1>10. Len(trades') = 2 * Len(gains') + Held'
  BY <1>5, <1>7, <1>8, <1>9
<1>11. trades[Len(trades)].side = "buy"
  <2>1. trades # <<>>
    BY <1>4 DEF LastTells
  <2> QED
    BY <1>4, <2>1 DEF LastTells
<1>12. ASSUME NEW k \in 1..Len(gains') PROVE TripOf(k)'
  <2>1. CASE k = Len(gains) + 1
    <3>1. 2 * k = Len(trades) + 1 /\ 2 * k - 1 = Len(trades) /\ 2 * k - 1 \in 1..Len(trades)
      BY <1>8, <1>9, <2>1
    <3>2. trades'[2 * k] = t /\ trades'[2 * k - 1] = trades[Len(trades)]
      BY <1>7, <3>1
    <3>3. gains'[k] = SellRevenue(t) - BuyCost(trades[Len(trades)])
      <4> DEFINE c == BuyCost(trades[Len(trades)])
                 r == SellRevenue(t)
      <4>1. gains'[k] = balance' - spent /\ balance = spent - c /\ balance' = balance + r
        BY <1>1, <1>6, <1>8, <2>1
      <4>2. c \in Int
        <5>1. Len(trades) \in 1..Len(trades)
          BY <1>9, <1>8
        <5>2. trades[Len(trades)] \in TradeRecord
          BY <1>2, <5>1, ElementOfSeq
        <5>3. /\ trades[Len(trades)].qty \in Int /\ trades[Len(trades)].price \in Int
              /\ trades[Len(trades)].fee \in Int
          BY <5>2 DEF TradeRecord
        <5>4. Value(trades[Len(trades)].qty, trades[Len(trades)].price) \in Int
          BY <5>3, MoneyTypes
        <5> QED
          BY <5>3, <5>4 DEF BuyCost
      <4>3. r \in Int /\ balance \in Int /\ spent \in Int
        BY <1>1 DEF Types
      <4> HIDE DEF c, r
      <4>4. gains'[k] = r - c
        BY <4>1, <4>2, <4>3
      <4> QED
        BY <4>4 DEF r, c
    <3> QED
      BY <1>1, <1>11, <3>2, <3>3 DEF TripOf
  <2>2. CASE k # Len(gains) + 1
    <3>1. k \in 1..Len(gains)
      BY <1>8, <2>2
    <3>2. TripOf(k) /\ 2 * k \in 1..Len(trades) /\ 2 * k - 1 \in 1..Len(trades)
      BY <1>6, <1>8, <1>9, <3>1 DEF Paired
    <3>3. trades'[2 * k] = trades[2 * k] /\ trades'[2 * k - 1] = trades[2 * k - 1]
      BY <1>7, <3>2
    <3> QED
      BY <1>8, <3>1, <3>2, <3>3 DEF TripOf
  <2> QED
    BY <2>1, <2>2
<1> QED
  BY <1>5, <1>10, <1>12 DEF Paired

LEMMA LastTellsNext ==
  ASSUME Types, NEW p \in Price, Buy(p) \/ Sell(p), Types' PROVE LastTells'
<1>1. CASE Buy(p)
  <2>1. PICK t \in TradeRecord : t.side = "buy" /\ trades' = Append(trades, t)
    BY <1>1, CostOfBuy
  <2>2. trades' # <<>> /\ trades'[Len(trades')] = t
    BY <2>1, TradeAppended, SMTT(30) DEF Types
  <2> QED
    BY <1>1, <2>1, <2>2, BuyLeavesSome DEF LastTells
<1>2. CASE Sell(p)
  <2>1. PICK t \in TradeRecord : t.side = "sell" /\ trades' = Append(trades, t)
    BY <1>2, RevenueOfSale
  <2>2. trades' # <<>> /\ trades'[Len(trades')] = t
    BY <2>1, TradeAppended, SMTT(30) DEF Types
  <2>3. pos'.qty = 0
    BY <1>2, SellLeavesNone
  <2> QED
    BY <2>1, <2>2, <2>3 DEF LastTells
<1> QED
  BY <1>1, <1>2

\* Turtle and Bollinger buy only when nothing is held, and so what they sell was
\* bought in one purchase.
LEMMA FlaggedAlternate ==
  ASSUME TripInv, strategy.kind \in Flagged, PricesSell,
         NEW p \in Price, NEW d, Tick(p, d)
  PROVE  Alternate'
<1>1. Alternate /\ Types /\ LastTells /\ trades \in Seq(TradeRecord)
  BY DEF TripInv, FlagInv, DayInv, Types
<1>2. PICK answer \in OnTick(strategy, p) :
        \/ answer.signal = "buy" /\ Buy(p)
        \/ answer.signal = "sell" /\ Sell(p)
        \/ Hold(p, answer.signal)
  BY DEF Tick
<1>3. CASE answer.signal = "buy" /\ Buy(p)
  <2>1. OfKind(strategy, strategy.kind)
    BY DEF TripInv, FlagInv, KindInv, OfKind
  <2>2. ~ strategy.hasPosition
    BY <1>2, <1>3, <2>1, SignalsMoveFlag
  <2>3. pos.qty = 0
    BY <2>2 DEF TripInv, FlagInv, FlatWhenFlagged, Flagged, PricesSell
  <2>4. PICK t \in TradeRecord : t.side = "buy" /\ trades' = Append(trades, t)
    BY <1>1, <1>3, CostOfBuy
  <2>5. trades # <<>> => trades[Len(trades)].side # "buy"
    BY <1>1, <2>3 DEF LastTells
  <2> QED
    BY <1>1, <2>4, <2>5, AlternateNext DEF Alternate
<1>4. CASE Sell(p)
  <2>1. pos.qty > 0
    BY <1>4 DEF Sell, CanSell
  <2>2. PICK t \in TradeRecord : t.side = "sell" /\ trades' = Append(trades, t)
    BY <1>1, <1>4, RevenueOfSale
  <2>3. trades # <<>> => trades[Len(trades)].side # "sell"
    BY <1>1, <2>1 DEF LastTells
  <2> QED
    BY <1>1, <2>2, <2>3, AlternateNext DEF Alternate
<1>5. CASE Hold(p, answer.signal)
  BY <1>1, <1>5 DEF Hold, book, Alternate
<1> QED
  BY <1>2, <1>3, <1>4, <1>5

LEMMA EmptyBook ==
  ASSUME trades = <<>>, gains = <<>>, pos = NoPosition
  PROVE  LastTells /\ Alternate /\ Paired
<1>1. pos.qty = 0 /\ Held = 0
  BY DEF NoPosition, Held
<1>2. Len(trades) = 0 /\ Len(gains) = 0 /\ DOMAIN trades = {} /\ 1..Len(gains) = {}
  OBVIOUS
<1> QED
  BY <1>1, <1>2 DEF LastTells, Alternate, TakeTurns, Paired

LEMMA InitTrips == Init => TripInv
  BY InitFlag, EmptyBook DEF Init, TripInv

LEMMA StartTrips == ASSUME TripInv, StartRun PROVE TripInv'
<1>1. FlagInv'
  BY StartFlag DEF TripInv
<1>2. trades' = <<>> /\ gains' = <<>> /\ pos' = NoPosition
  BY DEF StartRun
<1>3. pos'.qty = 0 /\ Held' = 0
  BY <1>2 DEF NoPosition, Held
<1>4. Len(trades') = 0 /\ Len(gains') = 0 /\ DOMAIN trades' = {} /\ 1..Len(gains') = {}
  BY <1>2
<1>5. LastTells' /\ Alternate' /\ Paired'
  BY <1>2, <1>3, <1>4 DEF LastTells, Alternate, TakeTurns, Paired
<1> QED
  BY <1>1, <1>5 DEF TripInv

\* What leaves the book alone leaves its trades paired.
LEMMA BookStaysPaired ==
  ASSUME TripInv, UNCHANGED book
  PROVE  LastTells' /\ (Alternate' <=> Alternate) /\ (Alternate' => Paired')
<1>1. /\ LastTells' <=> LastTells
      /\ Alternate' <=> Alternate
      /\ Held' = Held
  BY DEF book, LastTells, Alternate, Held
<1>2. Paired' <=> Paired
  BY <1>1 DEF book, Paired, TripOf
<1> QED
  BY <1>1, <1>2 DEF TripInv

LEMMA TickTrips ==
  ASSUME TripInv, NEW p \in Price, NEW d, Tick(p, d) PROVE TripInv'
<1>1. FlagInv' /\ Types /\ Types' /\ LastTells /\ (Alternate => Paired)
  BY TickFlag DEF TripInv, FlagInv, DayInv
<1>2. strategy'.kind = strategy.kind
  <2>1. OfKind(strategy, strategy.kind) /\ strategy.kind \in StrategyKind
    BY DEF TripInv, FlagInv, KindInv, OfKind
  <2>2. PICK answer \in OnTick(strategy, p) : strategy' = answer.next
    BY DEF Tick
  <2>3. OfKind(answer.next, strategy.kind)
    BY <2>1, AnswersOfKind
  <2> QED
    BY <2>2, <2>3 DEF OfKind
<1>3. strategy'.kind \in Flagged /\ PricesSell => Alternate'
  BY <1>2, FlaggedAlternate
<1>4. LastTells' /\ (Alternate' => Paired')
  <2>1. CASE Buy(p)
    BY <1>1, <2>1, BuyTrips, LastTellsNext
  <2>2. CASE Sell(p)
    BY <1>1, <2>2, SellTrips, LastTellsNext
  <2>3. CASE UNCHANGED book
    BY <2>3, BookStaysPaired
  <2> QED
    BY <2>1, <2>2, <2>3, TickFollows DEF Follows
<1> QED
  BY <1>1, <1>3, <1>4 DEF TripInv, PricesSell

LEMMA NextTrips == TripInv /\ [Next]_vars => TripInv'
<1> SUFFICES ASSUME TripInv, [Next]_vars PROVE TripInv'
  OBVIOUS
<1>1. CASE StartRun
  BY <1>1, StartTrips
<1>2. CASE FinishRun \/ UNCHANGED vars
  <2>1. UNCHANGED book /\ strategy' = strategy
    BY <1>2 DEF FinishRun, vars
  <2>2. FlagInv'
    BY NextFlag DEF TripInv
  <2>3. LastTells' /\ (Alternate' <=> Alternate) /\ (Alternate' => Paired')
    BY <2>1, BookStaysPaired
  <2> QED
    BY <2>1, <2>2, <2>3 DEF TripInv, PricesSell
<1>3. CASE \E p \in Price, d \in IF date = 0 THEN {1} ELSE {date, date + 1} : Tick(p, d)
  BY <1>3, TickTrips
<1> QED
  BY <1>1, <1>2, <1>3 DEF Next

LEMMA RoundTripsAre ==
  ASSUME Types, LastTells, Paired
  PROVE  /\ RoundTrips = {2 * k : k \in 1..Len(gains)}
         /\ \A k \in 1..Len(gains) : TripPnl(2 * k) = gains[k]
         /\ DOMAIN gains = 1..Len(gains) /\ Len(gains) \in Nat
<1> DEFINE m == Len(gains)
<1>1. /\ DOMAIN trades = 1..Len(trades) /\ DOMAIN gains = 1..m /\ m \in Nat
      /\ Held \in {0, 1}
  BY HeldIs DEF Types
<1>2. /\ Len(trades) = 2 * m + Held
      /\ \A k \in 1..m : TripOf(k)
  BY DEF Paired
<1> HIDE DEF m
<1>3. ASSUME NEW k \in 1..m PROVE 2 * k \in RoundTrips
  <2>1. 2 * k \in DOMAIN trades /\ 2 * k > 1
    BY <1>1, <1>2
  <2> QED
    BY <1>2, <2>1 DEF TripOf, RoundTrips
<1>4. ASSUME NEW n \in RoundTrips PROVE \E k \in 1..m : n = 2 * k
  <2>1. n \in 1..Len(trades) /\ n > 1 /\ trades[n].side = "sell"
    BY <1>1 DEF RoundTrips
  <2>2. PICK j \in Int : n = 2 * j \/ n = 2 * j - 1
    <3>1. n = 2 * (n \div 2) \/ n = 2 * ((n \div 2) + 1) - 1
      BY <1>1, <1>2, <2>1
    <3>2. n \div 2 \in Int /\ (n \div 2) + 1 \in Int
      BY <1>1, <1>2, <2>1
    <3> QED
      BY <3>1, <3>2
  <2>3. CASE n = 2 * j
    <3>1. j \in 1..m
      BY <1>1, <1>2, <2>1, <2>3
    <3> QED
      BY <2>3, <3>1
  <2>4. CASE n = 2 * j - 1
    <3>1. CASE j \in 1..m
      BY <1>2, <2>1, <2>4, <3>1 DEF TripOf
    <3>2. CASE j \notin 1..m
      <4>1. n = Len(trades) /\ Held = 1
        BY <1>1, <1>2, <2>1, <2>4, <3>2
      <4>2. pos.qty > 0 /\ LastTells /\ trades # <<>>
        BY <1>1, <2>1, <4>1, HeldIs
      <4> QED
        BY <4>1, <4>2, <2>1 DEF LastTells
    <3> QED
      BY <3>1, <3>2
  <2> QED
    BY <2>2, <2>3, <2>4
<1>5. ASSUME NEW k \in 1..m PROVE TripPnl(2 * k) = gains[k]
  BY <1>2 DEF TripOf, TripPnl
<1> QED
  BY <1>1, <1>3, <1>4, <1>5 DEF m

LEMMA DoubledAsMany ==
  ASSUME NEW m \in Nat, NEW G \in SUBSET (1..m)
  PROVE  Cardinality({2 * k : k \in G}) = Cardinality(G)
<1> DEFINE D == {2 * k : k \in G}
           f == [k \in G |-> 2 * k]
<1>1. IsFiniteSet(G)
  <2>1. IsFiniteSet(1..m)
    BY FS_Interval
  <2> QED
    BY <2>1, FS_Subset
<1>2. f \in Bijection(G, D)
  <2>1. f \in [G -> D] /\ \A k \in G : f[k] = 2 * k /\ k \in Int
    OBVIOUS
  <2>2. \A j, k \in G : f[j] = f[k] => j = k
    BY <2>1
  <2>3. \A x \in D : \E k \in G : f[k] = x
    BY <2>1
  <2> QED
    BY <2>1, <2>2, <2>3 DEF Bijection, Injection, Surjection, IsInjective
<1>3. ExistsBijection(G, D)
  BY <1>2 DEF ExistsBijection
<1> QED
  BY <1>1, <1>3, FS_Bijection

\* As long as no price is so low that its slippage takes all of it, or the strategy
\* never adds to a position, the trades counted as winning and as losing are as many
\* as the round trips that made and that lost money.
THEOREM WinsCountGains == Spec => []WinsAreGains
<1>1. ASSUME TripInv PROVE WinsAreGains
  <2> SUFFICES ASSUME Alternate
      PROVE  /\ WinningTrades = Cardinality({k \in DOMAIN gains : gains[k] > 0})
             /\ LosingTrades = Cardinality({k \in DOMAIN gains : gains[k] < 0})
    <3>1. (\/ /\ strategy.kind \in {"turtle", "bollinger"}
              /\ \A p \in Price : SellPrice(p) > 0
           \/ \A n \in DOMAIN trades \ {1} : trades[n].side # trades[n - 1].side)
          => Alternate
      <4>1. CASE /\ strategy.kind \in {"turtle", "bollinger"}
                 /\ \A p \in Price : SellPrice(p) > 0
        BY <1>1, <4>1 DEF TripInv, Flagged, PricesSell
      <4>2. CASE \A n \in DOMAIN trades \ {1} : trades[n].side # trades[n - 1].side
        BY <4>2 DEF Alternate, TakeTurns
      <4> QED
        BY <4>1, <4>2
    <3> QED
      BY <3>1 DEF WinsAreGains
  <2> DEFINE won == {k \in DOMAIN gains : gains[k] > 0}
             lost == {k \in DOMAIN gains : gains[k] < 0}
  <2>1. /\ RoundTrips = {2 * k : k \in 1..Len(gains)}
        /\ \A k \in 1..Len(gains) : TripPnl(2 * k) = gains[k]
        /\ DOMAIN gains = 1..Len(gains) /\ Len(gains) \in Nat
    BY <1>1, RoundTripsAre DEF TripInv, FlagInv, DayInv
  <2>2. {n \in RoundTrips : TripPnl(n) > 0} = {2 * k : k \in won}
    BY <2>1
  <2>3. {n \in RoundTrips : TripPnl(n) < 0} = {2 * k : k \in lost}
    BY <2>1
  <2>4. won \in SUBSET (1..Len(gains)) /\ lost \in SUBSET (1..Len(gains))
    BY <2>1
  <2> HIDE DEF won, lost
  <2>5. /\ Cardinality({2 * k : k \in won}) = Cardinality(won)
        /\ Cardinality({2 * k : k \in lost}) = Cardinality(lost)
    BY <2>1, <2>4, DoubledAsMany
  <2> QED
    BY <2>2, <2>3, <2>5 DEF WinningTrades, LosingTrades, won, lost
<1> QED
  BY <1>1, InitTrips, NextTrips, PTL DEF Spec
=============================================================================
