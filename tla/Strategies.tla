------------------------------ MODULE Strategies ------------------------------
(***************************************************************************)
(* The strategies of internal/strategy: what OnTick makes of a strategy's  *)
(* state and a price, and the signal it gives.  Floating-point values are  *)
(* exact fractions <<numerator, denominator>> here, and a standard         *)
(* deviation is compared by its square.  The strategy "any" gives any      *)
(* signal: it stands for MACD, which is not modelled, and for a strategy a *)
(* user writes.                                                            *)
(***************************************************************************)
EXTENDS Integers, Sequences, FiniteSets, Functions

CONSTANTS FastPeriod, SlowPeriod,           \* MACrossoverConfig
          RSIPeriod, Oversold, Overbought,  \* RSIConfig
          BandPeriod, StdDevTimes,          \* BollingerConfig
          EntryPeriod, ExitPeriod,          \* TurtleConfig
          GridCount, BasePrice, GridSpacing \* GridConfig

ASSUME PeriodAssumption ==
  {FastPeriod, SlowPeriod, RSIPeriod, BandPeriod, EntryPeriod, ExitPeriod} \subseteq Nat \ {0}

StrategyKind == {"any", "ma_crossover", "rsi", "bollinger", "turtle", "grid"}
Signal == {"none", "buy", "sell"}

Sum(f) == FoldFunction(+, 0, f)
Less(a, b) == a[1] * b[2] < b[1] * a[2]
Leq(a, b) == ~ Less(b, a)
Positive(a) == Less(<<0, 1>>, a)

\* The last n prices.
Last(prices, n) == SubSeq(prices, Len(prices) - n + 1, Len(prices))
InWindow(prices, n) == {prices[k] : k \in (Len(prices) - n + 1)..Len(prices)}

sma(prices, n) == IF Len(prices) < n THEN <<0, 1>> ELSE <<Sum(Last(prices, n)), n>>
maxPrice(prices, n) ==
  IF Len(prices) < n THEN 0
  ELSE CHOOSE p \in InWindow(prices, n) : \A q \in InWindow(prices, n) : q <= p
minPrice(prices, n) ==
  IF Len(prices) < n THEN 0
  ELSE CHOOSE p \in InWindow(prices, n) : \A q \in InWindow(prices, n) : p <= q

Seen(s, p) == [s EXCEPT !.prices = Append(@, p)]
Answer(s, signal) == [next |-> s, signal |-> signal]

-----------------------------------------------------------------------------
\* The fast average crosses the slow one.
MACrossover(s) ==
  LET fast == sma(s.prices, FastPeriod)
      slow == sma(s.prices, SlowPeriod)
      known == Positive(s.prevFast) /\ Positive(s.prevSlow)
  IN  IF Len(s.prices) < SlowPeriod + 1 THEN Answer(s, "none")
      ELSE Answer([s EXCEPT !.prevFast = fast, !.prevSlow = slow],
             IF known /\ Leq(s.prevFast, s.prevSlow) /\ Less(slow, fast) THEN "buy"
             ELSE IF known /\ Leq(s.prevSlow, s.prevFast) /\ Less(fast, slow) THEN "sell"
             ELSE "none")

\* The relative strength: a hundred times the gains over gains and losses.
RelativeStrength(prices) ==
  LET change(k) == prices[k] - prices[k - 1]
      days == (Len(prices) - RSIPeriod + 1)..Len(prices)
      gains == Sum([k \in days |-> IF change(k) > 0 THEN change(k) ELSE 0])
      losses == Sum([k \in days |-> IF change(k) < 0 THEN -change(k) ELSE 0])
  IN  IF losses = 0 THEN <<100, 1>> ELSE <<100 * gains, gains + losses>>

\* The relative strength falls below one limit or rises above the other.
RSI(s) ==
  LET rsi == RelativeStrength(s.prices)
      low == <<Oversold, 1>>
      high == <<Overbought, 1>>
  IN  IF Len(s.prices) < RSIPeriod + 1 THEN Answer(s, "none")
      ELSE Answer([s EXCEPT !.prevRSI = rsi],
             IF Less(rsi, low) /\ Leq(low, s.prevRSI) THEN "buy"
             ELSE IF Less(high, rsi) /\ Leq(s.prevRSI, high) THEN "sell"
             ELSE "none")

\* The price is beyond StdDevTimes deviations from the mean of the window.
OutOfBand(prices) ==
  LET window == Last(prices, BandPeriod)
      sum == Sum(window)
      squares == Sum([k \in DOMAIN window |-> window[k] * window[k]])
      off == BandPeriod * prices[Len(prices)] - sum
  IN  off * off > StdDevTimes * StdDevTimes * (BandPeriod * squares - sum * sum)

\* Buy below the lower band; sell above the upper one, or at a loss below the mean.
Bollinger(s) ==
  LET price == s.prices[Len(s.prices)]
      mid == sma(s.prices, BandPeriod)
      below == Less(<<price, 1>>, mid)
      above == Less(mid, <<price, 1>>)
  IN  IF Len(s.prices) < BandPeriod THEN Answer(s, "none")
      ELSE IF ~ s.hasPosition /\ below /\ OutOfBand(s.prices)
      THEN Answer([s EXCEPT !.hasPosition = TRUE, !.entryPrice = price], "buy")
      ELSE IF s.hasPosition /\ \/ above /\ OutOfBand(s.prices)
                               \/ below /\ s.entryPrice > price
      THEN Answer([s EXCEPT !.hasPosition = FALSE], "sell")
      ELSE Answer(s, "none")

\* Buy above the highest price of the entry window; sell at the trailing stop.
Turtle(s) ==
  LET price == s.prices[Len(s.prices)]
      high == maxPrice(s.prices, EntryPeriod)
      low == minPrice(s.prices, ExitPeriod)
      seen == [s EXCEPT !.prevHigh = high, !.prevLow = low]
      stop == IF price > s.trailingStop THEN low ELSE s.trailingStop
  IN  IF Len(s.prices) < EntryPeriod THEN Answer(seen, "none")
      ELSE IF ~ s.hasPosition
      THEN IF price > s.prevHigh /\ s.prevHigh > 0
           THEN Answer([seen EXCEPT !.hasPosition = TRUE, !.trailingStop = low], "buy")
           ELSE Answer(seen, "none")
      ELSE IF price <= stop \/ price < s.prevLow
           THEN Answer([seen EXCEPT !.hasPosition = FALSE, !.trailingStop = stop], "sell")
           ELSE Answer([seen EXCEPT !.trailingStop = stop], "none")

\* The price of a level of the grid, levels counted from 0.
GridPrice(i) == (BasePrice * (100 + (i - GridCount \div 2) * GridSpacing)) \div 100

GridLevel(p) ==
  LET below == {i \in 0..(GridCount - 1) : p >= GridPrice(i)}
  IN  IF below = {} THEN 0 ELSE CHOOSE i \in below : \A j \in below : j <= i

\* Buy at every level the price falls to; sell at one it rises to.
Grid(s) ==
  LET level == GridLevel(s.prices[Len(s.prices)])
      at == [s EXCEPT !.currentLevel = level]
  IN  IF GridCount = 0 THEN Answer(s, "none")
      ELSE IF level < s.currentLevel
      THEN Answer([at EXCEPT !.positionQty = @ + 1], "buy")
      ELSE IF level > s.currentLevel /\ s.positionQty > 0
      THEN Answer([at EXCEPT !.positionQty = @ - 1], "sell")
      ELSE Answer(at, "none")

-----------------------------------------------------------------------------
\* OnInit
Fresh(kind) ==
  CASE kind = "any" -> [kind |-> kind]
    [] kind = "ma_crossover" ->
         [kind |-> kind, prices |-> <<>>, prevFast |-> <<0, 1>>, prevSlow |-> <<0, 1>>]
    [] kind = "rsi" -> [kind |-> kind, prices |-> <<>>, prevRSI |-> <<0, 1>>]
    [] kind = "bollinger" ->
         [kind |-> kind, prices |-> <<>>, hasPosition |-> FALSE, entryPrice |-> 0]
    [] kind = "turtle" ->
         [kind |-> kind, prices |-> <<>>, hasPosition |-> FALSE, trailingStop |-> 0,
          prevHigh |-> 0, prevLow |-> 0]
    [] kind = "grid" ->
         [kind |-> kind, prices |-> <<>>, positionQty |-> 0,
          currentLevel |-> IF GridCount = 0 THEN 0 ELSE GridLevel(BasePrice)]

\* What OnTick may answer.
OnTick(s, p) ==
  CASE s.kind = "any" -> {Answer(s, signal) : signal \in Signal}
    [] s.kind = "ma_crossover" -> {MACrossover(Seen(s, p))}
    [] s.kind = "rsi" -> {RSI(Seen(s, p))}
    [] s.kind = "bollinger" -> {Bollinger(Seen(s, p))}
    [] s.kind = "turtle" -> {Turtle(Seen(s, p))}
    [] s.kind = "grid" -> {Grid(Seen(s, p))}
=============================================================================
