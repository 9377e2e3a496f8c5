--------------------------- MODULE LiveEngineProofs ---------------------------
(***************************************************************************)
(* Proofs about LiveEngine, for all prices, strategies, limits and bounds, *)
(* and whatever the exchange fills.                                        *)
(***************************************************************************)
EXTENDS LiveEngine, TLAPS

(***************************************************************************)
(* The inductive invariant.                                                *)
(***************************************************************************)

\* Between the check of a sale and the position manager the position does not
\* move: there is one dispatch goroutine.
CoveredSale ==
  pc \in {"exchange", "fill", "position"} /\ cur.side = "sell" => cur.qty <= pos.qty

\* The same of a purchase and the limit of the position.
RoomForPurchase ==
  pc \in {"exchange", "fill", "position"} /\ cur.side = "buy" /\ MaxPositionValue > 0 =>
    CalcValue(pos.qty + cur.qty, cur.price) <= MaxPositionValue

FillWithinOrder ==
  pc \in {"fill", "position", "balance"} => 0 < fill.qty /\ fill.qty <= cur.qty

\* The gain is on its way from one ledger to the other.
GainUnderway == pc \in {"balance", "record"} => daily + fill.gain = pos.realized - fees

LossBreaks == DailyLossLimit > 0 /\ daily < -DailyLossLimit => broken

\* What the types of the steps need.
Shape ==
  /\ pc # "idle" => tick \in Price
  /\ pc \in {"exchange", "fill"} => cur.id \in Id
  /\ \A i \in Id : order[i].filled <= order[i].qty

IInv ==
  /\ TypeOK
  /\ Shape
  /\ NeverShort
  /\ CoveredSale
  /\ RoomForPurchase
  /\ FillWithinOrder
  /\ PositionCapped
  /\ LedgersAgree
  /\ GainUnderway
  /\ LossBreaks

-----------------------------------------------------------------------------
(***************************************************************************)
(* Arithmetic.                                                             *)
(***************************************************************************)

LEMMA DivInt == ASSUME NEW a \in Int, NEW d \in Nat \ {0} PROVE a \div d \in Int
BY SMT

LEMMA DivNat == ASSUME NEW a \in Nat, NEW d \in Nat \ {0} PROVE a \div d \in Nat
BY SMT

LEMMA DivMonotone ==
  ASSUME NEW a \in Int, NEW b \in Int, NEW d \in Nat \ {0}, a <= b
  PROVE  a \div d <= b \div d
BY SMT

LEMMA ProductInt == ASSUME NEW a \in Int, NEW b \in Int PROVE a * b \in Int
BY SMT

LEMMA ProductNat == ASSUME NEW a \in Nat, NEW b \in Nat PROVE a * b \in Nat
BY SMT

LEMMA ProductMonotone ==
  ASSUME NEW a \in Int, NEW b \in Int, NEW p \in Nat, a <= b
  PROVE  a * p <= b * p
BY SMT

\* A value is a natural number, and grows with the quantity.
LEMMA CalcValueNat ==
  ASSUME NEW q \in Nat, NEW p \in Nat PROVE CalcValue(q, p) \in Nat
BY ProductNat, DivNat, ScaleAssumption DEF CalcValue, MulDiv

LEMMA CalcValueMonotone ==
  ASSUME NEW a \in Int, NEW b \in Int, NEW p \in Nat, a <= b
  PROVE  CalcValue(a, p) <= CalcValue(b, p)
<1>1. a * p \in Int /\ b * p \in Int /\ a * p <= b * p  BY ProductMonotone, ProductInt
<1>. QED  BY <1>1, DivMonotone, ScaleAssumption DEF CalcValue, MulDiv

LEMMA CalcValueInt ==
  ASSUME NEW q \in Int, NEW p \in Int PROVE CalcValue(q, p) \in Int
BY ProductInt, DivInt, ScaleAssumption DEF CalcValue, MulDiv

LEMMA CalcQuantityInt ==
  ASSUME NEW v \in Int, NEW p \in Nat \ {0} PROVE CalcQuantity(v, p) \in Int
BY ProductInt, DivInt, ScaleAssumption DEF CalcQuantity, MulDiv

LEMMA FeeNat == ASSUME NEW v \in Nat PROVE Fee(v) \in Nat
<1>1. v * FeeBps \in Nat  BY ProductNat, FeeAssumption
<1>. QED  BY <1>1, DivNat DEF Fee

LEMMA WrapInt == ASSUME NEW n \in Int PROVE Wrap(n) \in Int
<1>1. 2 * MaxInt \in Nat \ {0}  BY MaxIntAssumption
<1>2. (n + MaxInt) % (2 * MaxInt) \in Int  BY <1>1, MaxIntAssumption
<1>. QED  BY <1>2, MaxIntAssumption DEF Wrap

LEMMA QuotientInt ==
  ASSUME NEW n \in Int, NEW d \in Nat \ {0} PROVE Quotient(n, d) \in Int
<1>1. n \div d \in Int /\ (-n) \div d \in Int  BY DivInt
<1>. QED  BY <1>1 DEF Quotient

-----------------------------------------------------------------------------
(***************************************************************************)
(* What a trade does to a position that is not short.                      *)
(***************************************************************************)

PositionType == [qty : Int, avg : Int, realized : Int]

LEMMA MeanInt ==
  ASSUME NEW q1 \in Nat, NEW q2 \in Nat \ {0}, NEW p1 \in Int, NEW p2 \in Int
  PROVE  Mean(q1, p1, q2, p2) \in Int
<1>1. q1 * p1 \in Int /\ q2 * p2 \in Int  BY ProductInt
<1>2. q1 + q2 \in Nat \ {0} /\ q1 * p1 + q2 * p2 \in Int  BY <1>1
<1>3. (q1 * p1 + q2 * p2) \div (q1 + q2) \in Int  BY <1>2, DivInt
<1>. QED  BY <1>3 DEF Mean

LEMMA BoughtLong ==
  ASSUME NEW x \in PositionType, x.qty >= 0, NEW q \in Nat \ {0}, NEW p \in Int
  PROVE  /\ Bought(x, q, p) \in PositionType
         /\ Bought(x, q, p).qty = x.qty + q
<1>1. x.qty \in Nat /\ x.avg \in Int /\ x.realized \in Int  BY DEF PositionType
<1>2. Mean(x.qty, x.avg, q, p) \in Int  BY <1>1, MeanInt
<1>3. Bought(x, q, p) =
        [qty |-> x.qty + q, avg |-> Mean(x.qty, x.avg, q, p), realized |-> x.realized]
  BY <1>1 DEF Bought, PositionType
<1>. QED  BY <1>1, <1>2, <1>3 DEF PositionType

LEMMA SoldLong ==
  ASSUME NEW x \in PositionType, NEW q \in Nat \ {0}, NEW p \in Int, q <= x.qty
  PROVE  /\ Sold(x, q, p) \in PositionType
         /\ Sold(x, q, p).qty = x.qty - q
<1>1. x.qty \in Int /\ x.avg \in Int /\ x.realized \in Int  BY DEF PositionType
<1>2. q * (p - x.avg) \in Int  BY <1>1, ProductInt
<1>3. MulDiv(q, p - x.avg, Scale) \in Int  BY <1>2, DivInt, ScaleAssumption DEF MulDiv
<1>4. x.qty > 0  BY <1>1
<1>. QED  BY <1>1, <1>3, <1>4 DEF Sold, PositionType

-----------------------------------------------------------------------------
(***************************************************************************)
(* The invariant holds initially and every step keeps it.                  *)
(***************************************************************************)

LEMMA InitInvariant == Init => IInv
<1>. SUFFICES ASSUME Init PROVE IInv
  OBVIOUS
<1>1. order \in [Id -> Order] /\ \A i \in Id : order[i].filled <= order[i].qty
  BY DEF Init, Order, NoOrder, Kind, Side, Status
<1>2. cur \in [id : Id \cup {0}, side : Side, qty : Nat, price : Nat]
  BY DEF Init, Nothing, Side
<1>3. fill \in [qty : Nat, value : Nat, fee : Nat, gain : Int]
  BY DEF Init, NoFill
<1>4. pos \in [qty : Int, avg : Int, realized : Int]
  BY DEF Init, NoPosition
<1>5. broken \in BOOLEAN
  BY Zenon DEF Init
<1>6. TypeOK
  BY <1>1, <1>2, <1>3, <1>4, <1>5, BalanceAssumption, BoundsAssumption DEF Init, TypeOK, Pc
<1>. QED
  BY <1>1, <1>6, LimitsAssumption
  DEF Init, IInv, Shape, NeverShort, CoveredSale, RoomForPurchase, FillWithinOrder,
      PositionCapped, LedgersAgree, GainUnderway, LossBreaks, NoPosition

\* Steps of the loops that call nothing.
LEMMA LoopStep ==
  ASSUME IInv,
         \/ \E p \in Price : TakeTick(p)
         \/ \E s \in Strategy : Pass(s)
         \/ SignalsDone
         \/ StopsDone
  PROVE  IInv'
<1>. USE DEF ledgers, loopVars, history
<1>1. CASE \E p \in Price : TakeTick(p)
  <2>1. PICK p \in Price : TakeTick(p)  BY <1>1
  <2>2. TypeOK'
    BY <2>1, BoundsAssumption DEF IInv, TypeOK, TakeTick, Pc
  <2>. QED
    BY <2>1, <2>2
    DEF TakeTick, IInv, Shape, NeverShort, CoveredSale, RoomForPurchase, FillWithinOrder,
        PositionCapped, LedgersAgree, GainUnderway, LossBreaks
<1>2. CASE \E s \in Strategy : Pass(s)
  <2>1. PICK s \in Strategy : Pass(s)  BY <1>2
  <2>2. TypeOK'
    BY <2>1 DEF IInv, TypeOK, Pass, Asked
  <2>. QED
    BY <2>1, <2>2
    DEF Pass, IInv, Shape, NeverShort, CoveredSale, RoomForPurchase, FillWithinOrder,
        PositionCapped, LedgersAgree, GainUnderway, LossBreaks
<1>3. CASE SignalsDone
  <2>1. hit' \subseteq Id
    BY <1>3, BoundsAssumption DEF SignalsDone, IInv, TypeOK, Id
  <2>2. TypeOK'
    BY <1>3, <2>1 DEF IInv, TypeOK, SignalsDone, Pc
  <2>. QED
    BY <1>3, <2>1, <2>2
    DEF SignalsDone, IInv, Shape, NeverShort, CoveredSale, RoomForPurchase, FillWithinOrder,
        PositionCapped, LedgersAgree, GainUnderway, LossBreaks
<1>4. CASE StopsDone
  <2>2. TypeOK'
    BY <1>4 DEF IInv, TypeOK, StopsDone, Pc
  <2>. QED
    BY <1>4, <2>2
    DEF StopsDone, IInv, Shape, NeverShort, CoveredSale, RoomForPurchase, FillWithinOrder,
        PositionCapped, LedgersAgree, GainUnderway, LossBreaks
<1>. QED
  BY <1>1, <1>2, <1>3, <1>4

LEMMA SignalStep ==
  ASSUME IInv, NEW s \in Strategy, NEW side \in Side, Signal(s, side)
  PROVE  IInv'
<1>. USE DEF ledgers, loopVars, history
<1>1. tick \in Nat \ {0} /\ pos.qty \in Int /\ balance \in Int
  BY PriceAssumption DEF IInv, TypeOK, Shape, Signal
<1>2. balance \div 10 \in Int
  BY <1>1, DivInt
<1>3. OrderQuantity(side) \in Int
  BY <1>1, <1>2, CalcQuantityInt DEF OrderQuantity
<1>4. OrderQuantity(side) \in Nat
  BY <1>3 DEF Signal
<1>5. cur' \in [id : Id \cup {0}, side : Side, qty : Nat, price : Nat]
  BY <1>1, <1>4 DEF Signal, Process
<1>6. TypeOK'
  BY <1>5 DEF IInv, TypeOK, Signal, Asked, Process, Pc
<1>. QED
  BY <1>6
  DEF Signal, Process, IInv, Shape, NeverShort, CoveredSale, RoomForPurchase, FillWithinOrder,
      PositionCapped, LedgersAgree, GainUnderway, LossBreaks

LEMMA FireStopStep ==
  ASSUME IInv, NEW i \in Id, FireStop(i)
  PROVE  IInv'
<1>. USE DEF ledgers, loopVars, history
<1>1. tick \in Nat \ {0} /\ order[i] \in Order /\ order[i].filled <= order[i].qty
  BY PriceAssumption DEF IInv, TypeOK, Shape, FireStop
<1>2. cur' \in [id : Id \cup {0}, side : Side, qty : Nat, price : Nat]
  BY <1>1 DEF FireStop, Process, Order
<1>3. StopStatus(i) \in Status
  BY <1>1 DEF StopStatus, Status, Order
<1>4. order' = [order EXCEPT ![i] = [order[i] EXCEPT !.status = StopStatus(i)]]
  BY DEF FireStop
<1>5. order' \in [Id -> Order] /\ \A j \in Id : order'[j].filled <= order'[j].qty
  BY <1>1, <1>3, <1>4 DEF IInv, TypeOK, Shape, Order
<1>6. fires' \in [Id -> Nat]
  <2>1. fires \in [Id -> Nat]
    BY DEF IInv, TypeOK
  <2>2. (IF order[i].status = "pending" THEN fires[i] ELSE fires[i] + 1) \in Nat
    BY <2>1
  <2>. QED
    BY <2>1, <2>2 DEF FireStop
<1>7. TypeOK'
  BY <1>2, <1>5, <1>6 DEF IInv, TypeOK, FireStop, Process, Pc
<1>. QED
  BY <1>5, <1>7
  DEF FireStop, Process, IInv, Shape, NeverShort, CoveredSale, RoomForPurchase, FillWithinOrder,
      PositionCapped, LedgersAgree, GainUnderway, LossBreaks

LEMMA RefuseStep == ASSUME IInv, Refuse \/ NoTrades PROVE IInv'
<1>. USE DEF ledgers, loopVars, history
<1>1. cur' \in [id : Id \cup {0}, side : Side, qty : Nat, price : Nat]
  BY DEF Refuse, NoTrades, Return, Nothing, Side
<1>2. fill' \in [qty : Nat, value : Nat, fee : Nat, gain : Int]
  BY DEF Refuse, NoTrades, Return, NoFill
<1>3. TypeOK'
  BY <1>1, <1>2 DEF IInv, TypeOK, Refuse, NoTrades, Return, Pc
<1>4. pc \in {"check", "exchange"} /\ pc' \in {"signals", "stops"}
  BY DEF IInv, TypeOK, Refuse, NoTrades, Return
<1>. QED
  BY <1>3, <1>4
  DEF Refuse, NoTrades, Return, IInv, Shape, NeverShort, CoveredSale, RoomForPurchase,
      FillWithinOrder, PositionCapped, LedgersAgree, GainUnderway, LossBreaks

LEMMA AcceptStep == ASSUME IInv, Accept PROVE IInv'
<1>. USE DEF ledgers, loopVars, history
<1>1. cur \in [id : Id \cup {0}, side : Side, qty : Nat, price : Nat]
  BY DEF IInv, TypeOK
<1>2. created + 1 \in Id /\ created' \in 0..MaxOrders
  <2>1. created \in 0..MaxOrders  BY DEF IInv, TypeOK
  <2>2. created < MaxOrders /\ created' = created + 1  BY DEF Accept
  <2>. QED  BY <2>1, <2>2, BoundsAssumption DEF Id
<1>3. cur' = [cur EXCEPT !.id = created + 1]
  BY DEF Accept
<1>4. /\ cur' \in [id : Id \cup {0}, side : Side, qty : Nat, price : Nat]
      /\ cur'.id \in Id
      /\ cur'.side = cur.side /\ cur'.qty = cur.qty /\ cur'.price = cur.price
  BY <1>1, <1>2, <1>3
<1>. DEFINE o == [kind |-> "market", side |-> cur.side, qty |-> cur.qty, filled |-> 0,
                 status |-> "open", stop |-> 0]
<1>6. o \in Order /\ o.filled <= o.qty /\ o.status = "open"
  BY <1>1 DEF Order, Kind, Status
<1>7. order' = [order EXCEPT ![created + 1] = o]
  BY DEF Accept
<1>. HIDE DEF o
<1>8. order' \in [Id -> Order] /\ \A i \in Id : order'[i].filled <= order'[i].qty
  BY <1>2, <1>6, <1>7 DEF IInv, TypeOK, Shape
<1>10. TypeOK'
  BY <1>2, <1>4, <1>8 DEF IInv, TypeOK, Accept, Pc
<1>11. CoveredSale'
  BY <1>4 DEF CoveredSale, Accept, Affordable, Side
<1>12. RoomForPurchase'
  <2>1. cur.side = "buy" /\ MaxPositionValue > 0 =>
          CalcValue((IF pos.qty < 0 THEN 0 ELSE pos.qty) + cur.qty, cur.price) <= MaxPositionValue
    BY DEF Accept, WithinLimits
  <2>2. (IF pos.qty < 0 THEN 0 ELSE pos.qty) = pos.qty
    BY DEF IInv, TypeOK, NeverShort
  <2>3. pos' = pos
    BY DEF Accept
  <2>. QED
    BY <1>4, <2>1, <2>2, <2>3 DEF RoomForPurchase
<1>. QED
  BY <1>4, <1>8, <1>10, <1>11, <1>12
  DEF Accept, IInv, Shape, NeverShort, FillWithinOrder, PositionCapped, LedgersAgree,
      GainUnderway, LossBreaks

LEMMA TradesStep ==
  ASSUME IInv, NEW q1 \in 0..cur.qty, NEW q2 \in 0..cur.qty,
         NEW p1 \in Price, NEW p2 \in Price, Trades(q1, p1, q2, p2)
  PROVE  IInv'
<1>. USE DEF ledgers, loopVars, history
<1>1. cur.qty \in Nat
  BY DEF IInv, TypeOK
<1>2. q1 \in Nat /\ q2 \in Nat /\ p1 \in Nat /\ p2 \in Nat
  BY <1>1, PriceAssumption
<1>3. CalcValue(q1, p1) \in Nat /\ CalcValue(q2, p2) \in Nat
  BY <1>2, CalcValueNat
<1>4. Fee(CalcValue(q1, p1)) \in Nat /\ Fee(CalcValue(q2, p2)) \in Nat
  BY <1>3, FeeNat
<1>5. /\ fill' \in [qty : Nat, value : Nat, fee : Nat, gain : Int]
      /\ 0 < fill'.qty /\ fill'.qty <= cur.qty
  BY <1>1, <1>2, <1>3, <1>4 DEF Trades
<1>6. net' \in Int
  BY <1>2 DEF Trades, IInv, TypeOK
<1>7. TypeOK'
  BY <1>5, <1>6 DEF IInv, TypeOK, Trades, Pc
<1>. QED
  BY <1>5, <1>7
  DEF Trades, IInv, Shape, NeverShort, CoveredSale, RoomForPurchase,
      FillWithinOrder, PositionCapped, LedgersAgree, GainUnderway, LossBreaks

LEMMA UpdateOrderFillStep == ASSUME IInv, UpdateOrderFill PROVE IInv'
<1>. USE DEF ledgers, loopVars, history
<1>1. CASE order' = order /\ Return
  <2>1. cur' \in [id : Id \cup {0}, side : Side, qty : Nat, price : Nat]
    BY <1>1 DEF Return, Nothing, Side
  <2>2. fill' \in [qty : Nat, value : Nat, fee : Nat, gain : Int]
    BY <1>1 DEF Return, NoFill
  <2>3. TypeOK'
    BY <1>1, <2>1, <2>2 DEF IInv, TypeOK, UpdateOrderFill, Return, Pc
  <2>4. pc = "fill" /\ pc' \in {"signals", "stops"}
    BY <1>1 DEF IInv, TypeOK, UpdateOrderFill, Return
  <2>. QED
    BY <1>1, <2>3, <2>4
    DEF UpdateOrderFill, Return, IInv, Shape, NeverShort, CoveredSale, RoomForPurchase,
        FillWithinOrder, PositionCapped, LedgersAgree, GainUnderway, LossBreaks
<1>2. ASSUME ~ (order' = order /\ Return) PROVE IInv'
  <2>. DEFINE o == order[cur.id]
              sum == o.filled + TotalFilledQty
              capped == IF sum > o.qty THEN o.qty ELSE sum
              new == [o EXCEPT !.filled = capped,
                               !.status = IF capped = o.qty THEN "filled"
                                          ELSE IF capped > 0 THEN "partial" ELSE @]
  <2>1. /\ o.status \in {"open", "partial", "pending"}
        /\ order' = [order EXCEPT ![cur.id] = new]
        /\ pc' = "position" /\ UNCHANGED <<cur, fill>>
    BY <1>2 DEF UpdateOrderFill
  <2>2. cur.id \in Id /\ o \in Order /\ o.filled <= o.qty /\ TotalFilledQty \in Nat
    BY DEF IInv, TypeOK, Shape, UpdateOrderFill, TotalFilledQty
  <2>3. capped \in Nat /\ capped <= o.qty
    BY <2>2 DEF Order
  <2>. HIDE DEF capped
  <2>4. new.filled = capped /\ new.qty = o.qty /\ new.status \in {"filled", "partial", o.status}
    BY <2>2 DEF Order
  <2>5. new \in Order /\ new.status # "cancelled"
    BY <2>1, <2>2, <2>3, <2>4 DEF Order, Status
  <2>. HIDE DEF new
  <2>6. order' \in [Id -> Order] /\ \A i \in Id : order'[i].filled <= order'[i].qty
    BY <2>1, <2>2, <2>3, <2>4, <2>5 DEF IInv, TypeOK, Shape
  <2>8. TypeOK'
    BY <2>1, <2>6 DEF IInv, TypeOK, UpdateOrderFill, Pc
  <2>. QED
    BY <2>1, <2>6, <2>8
    DEF UpdateOrderFill, IInv, Shape, NeverShort, CoveredSale, RoomForPurchase,
        FillWithinOrder, PositionCapped, LedgersAgree, GainUnderway, LossBreaks
<1>. QED
  BY <1>1, <1>2

LEMMA AvgPriceInt == ASSUME IInv, pc \in {"position", "balance"} PROVE AvgPrice \in Int
<1>1. fill.value \in Nat /\ fill.qty \in Nat \ {0}
  BY DEF IInv, TypeOK, FillWithinOrder
<1>2. fill.value * Scale \in Int
  BY <1>1, ProductInt, ScaleAssumption
<1>. QED
  BY <1>1, <1>2, WrapInt, QuotientInt DEF AvgPrice, TotalFilledQty

\* The trades of an order move the position by what was filled, and leave it
\* long and within its limit.
LEMMA TradedHolds ==
  ASSUME IInv, pc = "position"
  PROVE  LET new == Traded(pos, fill.qty, AvgPrice, cur.side)
         IN  /\ new \in PositionType
             /\ new.qty >= 0
             /\ cur.side = "buy" /\ MaxPositionValue > 0 =>
                  CalcValue(new.qty, cur.price) <= MaxPositionValue
<1>. DEFINE new == Traded(pos, fill.qty, AvgPrice, cur.side)
<1>1. /\ pos \in PositionType /\ pos.qty \in Int /\ pos.qty >= 0
      /\ fill.qty \in Nat \ {0} /\ cur.qty \in Nat /\ cur.price \in Nat
      /\ cur.side \in Side /\ fill.qty <= cur.qty
  BY DEF IInv, TypeOK, NeverShort, FillWithinOrder, PositionType
<1>2. AvgPrice \in Int
  BY AvgPriceInt
<1>3. CASE cur.side = "buy"
  <2>1. new = Bought(pos, fill.qty, AvgPrice)
    BY <1>3 DEF Traded
  <2>2. new \in PositionType /\ new.qty = pos.qty + fill.qty
    BY <1>1, <1>2, <2>1, BoughtLong
  <2>. HIDE DEF new
  <2>3. CalcValue(new.qty, cur.price) <= CalcValue(pos.qty + cur.qty, cur.price)
    BY <1>1, <2>2, CalcValueMonotone
  <2>4. MaxPositionValue > 0 => CalcValue(pos.qty + cur.qty, cur.price) <= MaxPositionValue
    BY <1>3 DEF IInv, RoomForPurchase
  <2>5. /\ CalcValue(new.qty, cur.price) \in Int
        /\ CalcValue(pos.qty + cur.qty, cur.price) \in Int
    <3>1. new.qty \in Int /\ pos.qty + cur.qty \in Int /\ cur.price \in Int
      BY <1>1, <2>2
    <3>. QED
      BY <3>1, CalcValueInt
  <2>6. MaxPositionValue > 0 => CalcValue(new.qty, cur.price) <= MaxPositionValue
    BY <2>3, <2>4, <2>5, LimitsAssumption
  <2>7. new.qty >= 0
    BY <1>1, <2>2
  <2>. QED
    BY <2>2, <2>6, <2>7 DEF new
<1>4. CASE cur.side = "sell"
  <2>1. new = Sold(pos, fill.qty, AvgPrice)
    BY <1>4 DEF Traded
  <2>2. fill.qty <= pos.qty
    BY <1>1, <1>4 DEF IInv, CoveredSale
  <2>3. new \in PositionType /\ new.qty = pos.qty - fill.qty
    BY <1>1, <1>2, <2>1, <2>2, SoldLong
  <2>4. new.qty >= 0
    BY <1>1, <2>2, <2>3
  <2>. QED
    BY <1>4, <2>3, <2>4
<1>. QED
  BY <1>1, <1>3, <1>4 DEF Side

LEMMA AddPositionStep == ASSUME IInv, AddPosition PROVE IInv'
<1>. USE DEF ledgers, loopVars, history
<1>1. CASE pos' = pos /\ Return
  <2>1. cur' \in [id : Id \cup {0}, side : Side, qty : Nat, price : Nat]
    BY <1>1 DEF Return, Nothing, Side
  <2>2. fill' \in [qty : Nat, value : Nat, fee : Nat, gain : Int]
    BY <1>1 DEF Return, NoFill
  <2>3. TypeOK'
    BY <1>1, <2>1, <2>2 DEF IInv, TypeOK, AddPosition, Return, Pc
  <2>4. pc = "position" /\ pc' \in {"signals", "stops"}
    BY <1>1 DEF IInv, TypeOK, AddPosition, Return
  <2>. QED
    BY <1>1, <2>3, <2>4
    DEF AddPosition, Return, IInv, Shape, NeverShort, CoveredSale, RoomForPurchase,
        FillWithinOrder, PositionCapped, LedgersAgree, GainUnderway, LossBreaks
<1>2. ASSUME ~ (pos' = pos /\ Return) PROVE IInv'
  <2>1. /\ pos' = Traded(pos, fill.qty, AvgPrice, cur.side)
        /\ fill' = [fill EXCEPT !.gain = pos'.realized - pos.realized]
        /\ pc = "position" /\ pc' = "balance" /\ cur' = cur
        /\ UNCHANGED <<balance, daily, broken, order, created, loopVars, back, history, ticks>>
    BY <1>2 DEF AddPosition, TotalFilledQty
  <2>2. /\ pos' \in PositionType /\ pos'.qty >= 0
        /\ cur.side = "buy" /\ MaxPositionValue > 0 =>
             CalcValue(pos'.qty, cur.price) <= MaxPositionValue
    BY <2>1, TradedHolds
  <2>3. pos'.realized \in Int /\ pos.realized \in Int
    BY <2>2 DEF PositionType, IInv, TypeOK
  <2>4. /\ fill' \in [qty : Nat, value : Nat, fee : Nat, gain : Int]
        /\ fill'.gain = pos'.realized - pos.realized
    BY <2>1, <2>3 DEF IInv, TypeOK
  <2>5. TypeOK'
    BY <2>1, <2>2, <2>4 DEF IInv, TypeOK, PositionType, Pc
  <2>6. PositionCapped'
    BY <2>1, <2>2 DEF PositionCapped
  <2>7. GainUnderway'
    <3>1. daily = pos.realized - fees /\ daily \in Int /\ fees \in Int
      BY <2>1 DEF IInv, LedgersAgree, TypeOK
    <3>. QED
      BY <2>1, <2>3, <2>4, <3>1 DEF GainUnderway
  <2>. QED
    BY <2>1, <2>2, <2>5, <2>6, <2>7
    DEF IInv, Shape, NeverShort, CoveredSale, RoomForPurchase,
        FillWithinOrder, LedgersAgree, LossBreaks
<1>. QED
  BY <1>1, <1>2

LEMMA UpdateBalanceStep == ASSUME IInv, UpdateBalance PROVE IInv'
<1>. USE DEF ledgers, loopVars, history
<1>1. AvgPrice \in Int /\ fill.qty \in Int /\ fill.fee \in Int /\ balance \in Int
  BY AvgPriceInt DEF UpdateBalance, IInv, TypeOK
<1>2. CalcValue(fill.qty, AvgPrice) \in Int
  BY <1>1, CalcValueInt
<1>3. Paid(cur.side, CalcValue(fill.qty, AvgPrice), fill.fee) \in Int
  BY <1>1, <1>2 DEF Paid
<1>4. balance' \in Int
  BY <1>1, <1>3 DEF UpdateBalance, TotalFilledQty
<1>5. TypeOK'
  BY <1>4 DEF IInv, TypeOK, UpdateBalance, Pc
<1>. QED
  BY <1>5
  DEF UpdateBalance, IInv, Shape, NeverShort, CoveredSale, RoomForPurchase,
      FillWithinOrder, PositionCapped, LedgersAgree, GainUnderway, LossBreaks

LEMMA RecordPnLStep == ASSUME IInv, RecordPnL PROVE IInv'
<1>. USE DEF ledgers, loopVars, history
<1>1. /\ daily \in Int /\ fees \in Int /\ pos.realized \in Int
      /\ fill.gain \in Int /\ fill.fee \in Int
      /\ daily + fill.gain = pos.realized - fees
  BY DEF RecordPnL, IInv, TypeOK, GainUnderway
<1>2. /\ daily' = daily + (fill.gain - fill.fee)
      /\ fees' = fees + fill.fee
      /\ pos' = pos
  BY DEF RecordPnL, Gain
<1>3. daily' \in Int /\ fees' \in Int /\ daily' = pos'.realized - fees'
  BY <1>1, <1>2
<1>4. broken' \in BOOLEAN
  BY Zenon DEF RecordPnL
<1>5. LossBreaks'
  BY <1>3 DEF RecordPnL, LossBreaks
<1>6. cur' \in [id : Id \cup {0}, side : Side, qty : Nat, price : Nat]
  BY DEF RecordPnL, Return, Nothing, Side
<1>7. fill' \in [qty : Nat, value : Nat, fee : Nat, gain : Int]
  BY DEF RecordPnL, Return, NoFill
<1>8. TypeOK'
  BY <1>3, <1>4, <1>6, <1>7 DEF IInv, TypeOK, RecordPnL, Return, Pc
<1>9. pc = "record" /\ pc' \in {"signals", "stops"}
  BY DEF IInv, TypeOK, RecordPnL, Return
<1>. QED
  BY <1>3, <1>5, <1>8, <1>9
  DEF RecordPnL, Return, IInv, Shape, NeverShort, CoveredSale, RoomForPurchase,
      FillWithinOrder, PositionCapped, LedgersAgree, GainUnderway

LEMMA CreateStopStep ==
  ASSUME IInv, NEW kind \in Kind \ {"market"}, NEW side \in Side,
         NEW q \in StopQty, NEW p \in Price, CreateStop(kind, side, q, p)
  PROVE  IInv'
<1>. USE DEF ledgers, loopVars, history
<1>. DEFINE o == [kind |-> kind, side |-> side, qty |-> q, filled |-> 0,
                 status |-> "pending", stop |-> p]
<1>1. created + 1 \in Id /\ created' \in 0..MaxOrders
  <2>1. created \in 0..MaxOrders  BY DEF IInv, TypeOK
  <2>2. created < MaxOrders /\ created' = created + 1  BY DEF CreateStop
  <2>. QED  BY <2>1, <2>2, BoundsAssumption DEF Id
<1>2. o \in Order /\ o.filled <= o.qty /\ o.status = "pending"
  BY StopQtyAssumption, PriceAssumption DEF Order, Status
<1>3. order' = [order EXCEPT ![created + 1] = o]
  BY DEF CreateStop
<1>. HIDE DEF o
<1>4. order' \in [Id -> Order] /\ \A i \in Id : order'[i].filled <= order'[i].qty
  BY <1>1, <1>2, <1>3 DEF IInv, TypeOK, Shape
<1>6. TypeOK'
  BY <1>1, <1>4 DEF IInv, TypeOK, CreateStop
<1>. QED
  BY <1>4, <1>6
  DEF CreateStop, IInv, Shape, NeverShort, CoveredSale, RoomForPurchase,
      FillWithinOrder, PositionCapped, LedgersAgree, GainUnderway, LossBreaks

LEMMA OpenStopStep == ASSUME IInv, NEW i \in Id, OpenStop(i) \/ CancelStop(i) PROVE IInv'
<1>. USE DEF ledgers, loopVars, history
<1>1. PICK st \in Status : order' = [order EXCEPT ![i] = [order[i] EXCEPT !.status = st]]
  BY DEF OpenStop, CancelStop, StopStatus, Status
<1>2. order' \in [Id -> Order] /\ \A j \in Id : order'[j].filled <= order'[j].qty
  BY <1>1 DEF IInv, TypeOK, Shape, Order, Status
<1>3. late' \subseteq Id
  BY DEF OpenStop, CancelStop, IInv, TypeOK
<1>4. /\ UNCHANGED <<ledgers, created, loopVars, pc, back, cur, fill, net, fees, ticks>>
      /\ fires' = fires
  BY DEF OpenStop, CancelStop
<1>5. TypeOK'
  BY <1>2, <1>3, <1>4 DEF IInv, TypeOK
<1>. QED
  BY <1>2, <1>4, <1>5
  DEF IInv, Shape, NeverShort, CoveredSale, RoomForPurchase,
      FillWithinOrder, PositionCapped, LedgersAgree, GainUnderway, LossBreaks

LEMMA StutterStep == ASSUME IInv, UNCHANGED vars PROVE IInv'
BY DEF vars, ledgers, loopVars, history, IInv, TypeOK, Shape, NeverShort, CoveredSale,
       RoomForPurchase, FillWithinOrder, PositionCapped, LedgersAgree, GainUnderway,
       LossBreaks

-----------------------------------------------------------------------------
(***************************************************************************)
(* The theorems.                                                           *)
(***************************************************************************)

\* The invariant holds in every state the engine reaches.
THEOREM LiveInvariance == Spec => []IInv
<1>1. Init => IInv
  BY InitInvariant
<1>2. ASSUME IInv, [Next]_vars PROVE IInv'
  <2>1. CASE \E p \in Price : TakeTick(p)
    BY <1>2, <2>1, LoopStep
  <2>2. CASE Dispatch
    <3>1. CASE (\E s \in Strategy : Pass(s)) \/ SignalsDone \/ StopsDone
      BY <1>2, <3>1, LoopStep
    <3>2. CASE \E s \in Strategy, side \in Side : Signal(s, side)
      BY <1>2, <3>2, SignalStep
    <3>3. CASE \E i \in Id : FireStop(i)
      BY <1>2, <3>3, FireStopStep
    <3>4. CASE Refuse \/ NoTrades
      BY <1>2, <3>4, RefuseStep
    <3>5. CASE Accept
      BY <1>2, <3>5, AcceptStep
    <3>6. CASE \E q1, q2 \in 0..cur.qty, p1, p2 \in Price : Trades(q1, p1, q2, p2)
      BY <1>2, <3>6, TradesStep
    <3>7. CASE UpdateOrderFill
      BY <1>2, <3>7, UpdateOrderFillStep
    <3>8. CASE AddPosition
      BY <1>2, <3>8, AddPositionStep
    <3>9. CASE UpdateBalance
      BY <1>2, <3>9, UpdateBalanceStep
    <3>10. CASE RecordPnL
      BY <1>2, <3>10, RecordPnLStep
    <3>. QED
      BY <2>2, <3>1, <3>2, <3>3, <3>4, <3>5, <3>6, <3>7, <3>8, <3>9, <3>10 DEF Dispatch
  <2>3. CASE \E kind \in Kind \ {"market"}, side \in Side, q \in StopQty, p \in Price :
               CreateStop(kind, side, q, p)
    BY <1>2, <2>3, CreateStopStep
  <2>4. CASE \E i \in Id : OpenStop(i) \/ CancelStop(i)
    BY <1>2, <2>4, OpenStopStep
  <2>5. CASE UNCHANGED vars
    BY <1>2, <2>5, StutterStep
  <2>. QED
    BY <1>2, <2>1, <2>2, <2>3, <2>4, <2>5 DEF Next
<1>. QED
  BY <1>1, <1>2, PTL DEF Spec

\* The state of the engine keeps its types.
THEOREM LiveTypeCorrect == Spec => []TypeOK
<1>1. IInv => TypeOK
  BY DEF IInv
<1>. QED
  BY <1>1, LiveInvariance, PTL

\* The engine never sells what it does not hold, for any strategies, any stop
\* orders and any fills.
THEOREM StaysLong == Spec => []NeverShort
<1>1. IInv => NeverShort
  BY DEF IInv
<1>. QED
  BY <1>1, LiveInvariance, PTL

\* The risk manager's result and the position manager's profit agree whenever
\* processOrder is not between them.
THEOREM LedgersStayAgreed == Spec => []LedgersAgree
<1>1. IInv => LedgersAgree
  BY DEF IInv
<1>. QED
  BY <1>1, LiveInvariance, PTL

\* A purchase never leaves a position beyond its limit, at the price it was
\* checked at.
THEOREM PositionStaysCapped == Spec => []PositionCapped
<1>1. IInv => PositionCapped
  BY DEF IInv
<1>. QED
  BY <1>1, LiveInvariance, PTL

\* With the loss beyond its limit no order is accepted any more.
THEOREM LossStops == Spec => LossStopsTrading
<1>1. ASSUME IInv, [Next]_vars PROVE [pc = "check" /\ pc' = "exchange" =>
         ~ (DailyLossLimit > 0 /\ daily < -DailyLossLimit)]_vars
  <2>. SUFFICES ASSUME Next, pc = "check", pc' = "exchange"
                PROVE  ~ broken
    BY <1>1 DEF IInv, LossBreaks
  <2>1. Accept
    BY <1>1 DEF Next, Dispatch, TakeTick, Pass, Signal, SignalsDone, FireStop, StopsDone,
            Refuse, NoTrades, Trades, UpdateOrderFill, AddPosition, UpdateBalance, RecordPnL,
            CreateStop, OpenStop, CancelStop, Return, IInv, TypeOK
  <2>. QED
    BY <2>1 DEF Accept, WithinLimits
<1>. QED
  BY <1>1, LiveInvariance, PTL DEF Spec, LossStopsTrading

-----------------------------------------------------------------------------
(***************************************************************************)
(* Stop orders, and what their owners and the dispatch goroutine know of   *)
(* them.                                                                   *)
(***************************************************************************)

\* A stop order that is not cancelled has not fired since it was opened; one that is
\* cancelled and yet in hit was cancelled there, and has not fired either.
StopKnown(i) ==
  /\ order[i].kind # "market" =>
       /\ order[i].status \in {"pending", "open", "cancelled"}
       /\ order[i].status # "cancelled" => fires[i] = 0
  /\ i \in hit =>
       /\ order[i].kind # "market"
       /\ order[i].status = "cancelled" => i \in late /\ fires[i] = 0

\* The order processOrder works on is none of them.
MarketUnderway ==
  pc \in {"exchange", "fill"} => cur.id \in 1..created /\ order[cur.id].kind = "market"

StopInv ==
  /\ IInv
  /\ hit \subseteq 1..created
  /\ \A i \in Id : i > created => fires[i] = 0
  /\ MarketUnderway
  /\ \A i \in Id : StopKnown(i)

LEMMA InitStops == Init => StopInv
<1>. SUFFICES ASSUME Init PROVE StopInv
  OBVIOUS
<1>1. IInv
  BY InitInvariant
<1>. QED
  BY <1>1 DEF Init, StopInv, MarketUnderway, StopKnown, NoOrder

\* Steps that leave the orders and the loop over the stop orders alone.
LEMMA QuietStops ==
  ASSUME StopInv, IInv', UNCHANGED <<hit, created, order, fires, late>>,
         pc' \in {"exchange", "fill"} => pc \in {"exchange", "fill"} /\ cur' = cur
  PROVE  StopInv'
<1>1. \A i \in Id : StopKnown(i)'
  BY DEF StopInv, StopKnown
<1>2. MarketUnderway'
  BY DEF StopInv, MarketUnderway
<1>. QED
  BY <1>1, <1>2 DEF StopInv

LEMMA SignalsDoneStops == ASSUME StopInv, IInv', SignalsDone PROVE StopInv'
<1>1. /\ UNCHANGED <<created, order, fires, late>> /\ pc' = "stops"
      /\ hit' = {i \in 1..created : Waiting(i) /\ Reached(order[i], tick)}
  BY DEF SignalsDone, history
<1>2. \A i \in Id : StopKnown(i)'
  BY <1>1 DEF StopInv, StopKnown, Waiting
<1>. QED
  BY <1>1, <1>2 DEF StopInv, MarketUnderway

LEMMA FireStopStops == ASSUME StopInv, IInv', NEW i \in Id, FireStop(i) PROVE StopInv'
<1>1. /\ i \in hit /\ hit' = hit \ {i} /\ pc' = "check" /\ UNCHANGED <<created, late>>
      /\ order' = [order EXCEPT ![i].status = StopStatus(i)]
      /\ fires' = [fires EXCEPT ![i] = IF order[i].status = "pending" THEN @ ELSE @ + 1]
  BY DEF FireStop, Process
<1>2. order \in [Id -> Order] /\ fires \in [Id -> Nat] /\ created \in 0..MaxOrders
  BY DEF StopInv, IInv, TypeOK
<1>3. /\ \A j \in Id : j # i => order'[j] = order[j] /\ fires'[j] = fires[j]
      /\ order'[i].kind = order[i].kind /\ order'[i].status = StopStatus(i)
      /\ order[i].status = "pending" => fires'[i] = fires[i]
  BY <1>1, <1>2 DEF Order
<1>4. StopKnown(i)'
  BY <1>1, <1>3 DEF StopInv, StopKnown, StopStatus
<1>5. \A j \in Id : j # i => StopKnown(j)'
  BY <1>1, <1>3 DEF StopInv, StopKnown
<1>6. \A j \in Id : j > created' => fires'[j] = 0
  BY <1>1, <1>2, <1>3 DEF StopInv
<1>. QED
  BY <1>1, <1>4, <1>5, <1>6 DEF StopInv, MarketUnderway

\* An order of a new id: a market order, or a stop order still pending.
LEMMA NewOrderStops ==
  ASSUME StopInv, IInv', created < MaxOrders, created' = created + 1,
         UNCHANGED <<hit, fires, late>>,
         NEW o, order' = [order EXCEPT ![created + 1] = o],
         o.kind = "market" \/ o.status = "pending",
         pc' \in {"exchange", "fill"} =>
           \/ pc \in {"exchange", "fill"} /\ cur' = cur
           \/ cur'.id = created + 1 /\ o.kind = "market"
  PROVE  StopInv'
<1>1. /\ order \in [Id -> Order] /\ created \in 0..MaxOrders /\ MaxOrders \in Nat
  BY BoundsAssumption DEF StopInv, IInv, TypeOK
<1>2. PICK n \in Id : n = created + 1 /\ n \notin hit
  BY <1>1 DEF StopInv, Id
<1>3. order'[n] = o /\ \A i \in Id : i # n => order'[i] = order[i]
  BY <1>1, <1>2
<1>4. fires[n] = 0
  BY <1>1, <1>2 DEF StopInv
<1>5. StopKnown(n)'
  BY <1>2, <1>3, <1>4 DEF StopKnown
<1>6. \A i \in Id : i # n => StopKnown(i)'
  BY <1>3 DEF StopInv, StopKnown
<1>7. MarketUnderway'
  <2>1. CASE pc \in {"exchange", "fill"} /\ cur' = cur
    BY <1>1, <1>2, <1>3, <2>1 DEF StopInv, MarketUnderway, Id
  <2>2. CASE pc' \in {"exchange", "fill"} /\ cur'.id = created + 1 /\ o.kind = "market"
    BY <1>1, <1>2, <1>3, <2>2 DEF MarketUnderway
  <2>3. CASE pc' \notin {"exchange", "fill"}
    BY <2>3 DEF MarketUnderway
  <2>. QED
    BY <2>1, <2>2, <2>3
<1>8. hit' \subseteq 1..created' /\ \A i \in Id : i > created' => fires'[i] = 0
  BY <1>1 DEF StopInv, Id
<1>. QED
  BY <1>5, <1>6, <1>7, <1>8 DEF StopInv

LEMMA FillStops == ASSUME StopInv, IInv', UpdateOrderFill PROVE StopInv'
<1>1. /\ pc = "fill" /\ pc' \in {"position", "signals", "stops"}
      /\ UNCHANGED <<created, hit, fires, late>>
  BY DEF UpdateOrderFill, Return, loopVars, history, StopInv, IInv, TypeOK
<1>2. PICK n \in Id : n = cur.id /\ n \notin hit /\ order[n].kind = "market"
  BY <1>1 DEF StopInv, IInv, Shape, MarketUnderway, StopKnown
<1>3. (\A i \in Id : i # n => order'[i] = order[i]) /\ order'[n].kind = "market"
  <2>1. CASE order' = order
    BY <1>2, <2>1
  <2>2. ASSUME NEW c, NEW st,
               order' = [order EXCEPT ![n] = [order[n] EXCEPT !.filled = c, !.status = st]]
        PROVE  (\A i \in Id : i # n => order'[i] = order[i]) /\ order'[n].kind = "market"
    BY <1>2, <2>2 DEF StopInv, IInv, TypeOK, Order
  <2>. DEFINE o == order[n]
              sum == o.filled + TotalFilledQty
              capped == IF sum > o.qty THEN o.qty ELSE sum
              st == IF capped = o.qty THEN "filled" ELSE IF capped > 0 THEN "partial" ELSE o.status
  <2>3. \/ order' = order
        \/ order' = [order EXCEPT ![n] = [order[n] EXCEPT !.filled = capped, !.status = st]]
    BY <1>2 DEF UpdateOrderFill
  <2>. HIDE DEF capped, st
  <2>. QED
    BY <2>1, <2>2, <2>3
<1>4. StopKnown(n)'
  BY <1>1, <1>2, <1>3 DEF StopKnown
<1>5. \A i \in Id : i # n => StopKnown(i)'
  BY <1>1, <1>3 DEF StopInv, StopKnown
<1>6. /\ hit' \subseteq 1..created' /\ \A i \in Id : i > created' => fires'[i] = 0
  BY <1>1 DEF StopInv
<1>. QED
  BY <1>1, <1>4, <1>5, <1>6 DEF StopInv, MarketUnderway

LEMMA OwnerStops ==
  ASSUME StopInv, IInv', NEW i \in Id, OpenStop(i) \/ CancelStop(i) PROVE StopInv'
<1>1. /\ order[i].kind # "market" /\ order[i].status \in {"pending", "open"}
      /\ UNCHANGED <<created, hit, fires, pc, cur>>
  BY DEF OpenStop, CancelStop, loopVars, history
<1>2. PICK st : /\ order' = [order EXCEPT ![i].status = st]
                /\ \/ st = "open" /\ late' = late
                   \/ st = "cancelled" /\ late' = IF i \in hit THEN late \cup {i} ELSE late
  BY DEF OpenStop, CancelStop, StopStatus, history
<1>3. /\ \A j \in Id : j # i => order'[j] = order[j]
      /\ \A j \in Id : order'[j].kind = order[j].kind
      /\ order'[i].status = st
  BY <1>2 DEF StopInv, IInv, TypeOK, Order
<1>4. StopKnown(i)'
  BY <1>1, <1>2, <1>3 DEF StopInv, StopKnown
<1>5. \A j \in Id : j # i => StopKnown(j)'
  BY <1>1, <1>2, <1>3 DEF StopInv, StopKnown
<1>6. MarketUnderway'
  BY <1>1, <1>3 DEF StopInv, IInv, Shape, MarketUnderway
<1>. QED
  BY <1>1, <1>4, <1>5, <1>6 DEF StopInv

THEOREM StopInvariance == Spec => []StopInv
<1>1. Init => StopInv
  BY InitStops
<1>2. ASSUME StopInv, IInv', [Next]_vars PROVE StopInv'
  <2>. USE DEF loopVars, history
  <2>0. pc \in Pc /\ back \in {"signals", "stops"}
    BY <1>2 DEF StopInv, IInv, TypeOK
  <2>1. CASE \/ \E p \in Price : TakeTick(p)
             \/ \E s \in Strategy : Pass(s)
             \/ \E s \in Strategy, side \in Side : Signal(s, side)
             \/ StopsDone
    <3>1. UNCHANGED <<hit, created, order, fires, late>> /\ pc' \notin {"exchange", "fill"}
      BY <2>1 DEF TakeTick, Pass, Signal, Process, StopsDone
    <3>. QED
      BY <1>2, <3>1, QuietStops
  <2>2. CASE Refuse \/ NoTrades \/ AddPosition \/ UpdateBalance \/ RecordPnL
    <3>1. UNCHANGED <<hit, created, order, fires, late>> /\ pc' \notin {"exchange", "fill"}
      BY <2>0, <2>2 DEF Refuse, NoTrades, AddPosition, UpdateBalance, RecordPnL, Return
    <3>. QED
      BY <1>2, <3>1, QuietStops
  <2>3. ASSUME NEW q1, NEW q2, NEW p1, NEW p2, Trades(q1, p1, q2, p2) PROVE StopInv'
    <3>1. UNCHANGED <<hit, created, order, fires, late, cur>> /\ pc \in {"exchange", "fill"}
      BY <2>3 DEF Trades
    <3>. QED
      BY <1>2, <3>1, QuietStops
  <2>4. CASE UNCHANGED vars
    <3>1. UNCHANGED <<hit, created, order, fires, late, pc, cur>>
      BY <2>4 DEF vars
    <3>. QED
      BY <1>2, <3>1, QuietStops
  <2>5. CASE Accept
    <3>. DEFINE o == [kind |-> "market", side |-> cur.side, qty |-> cur.qty, filled |-> 0,
                     status |-> "open", stop |-> 0]
    <3>1. /\ created < MaxOrders /\ created' = created + 1 /\ UNCHANGED <<hit, fires, late>>
          /\ order' = [order EXCEPT ![created + 1] = o] /\ o.kind = "market"
      BY <2>5 DEF Accept
    <3>2. cur'.id = created + 1
      BY <1>2, <2>5 DEF Accept, StopInv, IInv, TypeOK
    <3>. HIDE DEF o
    <3>. QED
      BY <1>2, <3>1, <3>2, NewOrderStops
  <2>6. ASSUME NEW kind \in Kind \ {"market"}, NEW side \in Side, NEW q \in StopQty,
               NEW p \in Price, CreateStop(kind, side, q, p)
        PROVE  StopInv'
    <3>. DEFINE o == [kind |-> kind, side |-> side, qty |-> q, filled |-> 0,
                     status |-> "pending", stop |-> p]
    <3>1. /\ created < MaxOrders /\ created' = created + 1 /\ UNCHANGED <<hit, fires, late, pc, cur>>
          /\ order' = [order EXCEPT ![created + 1] = o] /\ o.status = "pending"
      BY <2>6 DEF CreateStop
    <3>. HIDE DEF o
    <3>. QED
      BY <1>2, <3>1, NewOrderStops
  <2>7. CASE Dispatch
    BY <1>2, <2>1, <2>2, <2>3, <2>5, <2>7, SignalsDoneStops, FireStopStops, FillStops DEF Dispatch
  <2>. QED
    BY <1>2, <2>1, <2>4, <2>6, <2>7, OwnerStops DEF Next
<1>. QED
  BY <1>1, <1>2, LiveInvariance, PTL DEF Spec

\* An opened stop order becomes a market order once at most, and a cancelled one only
\* when its owner came after checkStopOrders had copied it.
THEOREM StopsFireOnce == Spec => StopFiresOnce
<1>1. ASSUME StopInv, [Next]_vars
      PROVE  [\A i \in Id : fires'[i] > fires[i] =>
                fires[i] = 0 /\ (order[i].status = "cancelled" => i \in late)]_vars
  <2>1. ASSUME NEW i \in Id, FireStop(i), NEW j \in Id, fires'[j] > fires[j]
        PROVE  fires[j] = 0 /\ (order[j].status = "cancelled" => j \in late)
    <3>1. fires \in [Id -> Nat] /\ i \in hit /\ StopKnown(i)
      BY <1>1, <2>1 DEF FireStop, StopInv, IInv, TypeOK
    <3>2. fires' = [fires EXCEPT ![i] = IF order[i].status = "pending" THEN @ ELSE @ + 1]
      BY <2>1 DEF FireStop
    <3>3. j = i
      BY <2>1, <3>1, <3>2
    <3>. QED
      BY <3>1, <3>3 DEF StopKnown
  <2>2. CASE fires' = fires
    <3>1. \A i \in Id : fires[i] \in Nat
      BY <1>1 DEF StopInv, IInv, TypeOK
    <3>. QED
      BY <2>2, <3>1
  <2>3. (\E i \in Id : FireStop(i)) \/ fires' = fires
    BY <1>1 DEF Next, Dispatch, TakeTick, Pass, Signal, SignalsDone, StopsDone,
            Refuse, Accept, NoTrades, Trades, UpdateOrderFill, AddPosition, UpdateBalance,
            RecordPnL, CreateStop, OpenStop, CancelStop, vars, history
  <2>. QED
    BY <2>1, <2>2, <2>3
<1>. QED
  BY <1>1, StopInvariance, PTL DEF Spec, StopFiresOnce

-----------------------------------------------------------------------------
(***************************************************************************)
(* The position and the trades.                                            *)
(***************************************************************************)

\* The mean price of a fill fits 64 bits before its division and is not rounded away:
\* the value of the fill is less than some hundred dollars, and at least one unit for
\* each whole coin of its quantity or part of one, which it is at any price of a
\* dollar or more.
FillFits ==
  pc = "position" => fill.qty <= fill.value * Scale /\ fill.value * Scale < MaxInt

\* What was bought less what was sold in the trades of the order underway.
Signed(qty) == IF cur.side = "buy" THEN qty ELSE -qty

\* Only stop orders are cancelled by their owners.
InHand(o) == o.kind = "market" /\ o.status = "open"

MatchInv ==
  /\ IInv
  /\ pc \in {"idle", "signals", "stops", "check", "exchange", "balance", "record"} =>
       pos.qty = net
  /\ pc \in {"fill", "position"} => net = pos.qty + Signed(fill.qty)
  /\ pc \in {"exchange", "fill"} => cur.id \in 1..created /\ InHand(order[cur.id])

LEMMA WrapFits == ASSUME NEW n \in Nat, n < MaxInt PROVE Wrap(n) = n
<1> DEFINE m == 2 * MaxInt
           k == n + MaxInt
<1>1. MaxInt \in Nat \ {0} /\ m \in Nat \ {0} /\ k \in Nat /\ k < m
  BY MaxIntAssumption
<1>2. k % m = k
  <2> HIDE DEF m, k
  <2> QED
    BY <1>1
<1>3. Wrap(n) = (k % m) - MaxInt
  BY DEF Wrap
<1> QED
  BY <1>1, <1>2, <1>3

\* A fill that fits has a mean price above zero.
LEMMA FittingPrice ==
  ASSUME IInv, FillFits, pc = "position" PROVE AvgPrice > 0
<1> DEFINE v == fill.value * Scale
           q == fill.qty
<1>1. q \in Nat \ {0} /\ v \in Nat /\ q <= v /\ v < MaxInt
  <2>1. fill.value \in Nat /\ fill.qty \in Nat \ {0}
    BY DEF IInv, TypeOK, FillWithinOrder
  <2>2. v \in Nat
    BY <2>1, ProductNat, ScaleAssumption
  <2> QED
    BY <2>1, <2>2 DEF FillFits
<1>2. AvgPrice = Quotient(Wrap(v), q)
  BY DEF AvgPrice, TotalFilledQty
<1> HIDE DEF v, q
<1>3. Wrap(v) = v
  BY <1>1, WrapFits
<1>4. AvgPrice = v \div q
  BY <1>1, <1>2, <1>3 DEF Quotient
<1>5. v \div q >= q \div q
  BY <1>1, DivMonotone
<1>6. q \div q = 1 /\ v \div q \in Int
  BY <1>1
<1> QED
  BY <1>4, <1>5, <1>6

LEMMA InitMatch == Init => MatchInv
<1> SUFFICES ASSUME Init PROVE MatchInv
  OBVIOUS
<1>1. pc = "idle" /\ pos.qty = 0 /\ net = 0
  BY DEF Init, NoPosition
<1> QED
  BY <1>1, InitInvariant DEF MatchInv

\* Steps after which no order is underway and the position and the trades are as before.
LEMMA QuietMatch ==
  ASSUME MatchInv, IInv', UNCHANGED <<pos, net>>,
         pc \in {"idle", "signals", "stops", "check", "exchange", "balance", "record"},
         pc' \in {"idle", "signals", "stops", "check", "balance", "record"}
  PROVE  MatchInv'
<1>1. pos.qty = net
  BY DEF MatchInv
<1> QED
  BY <1>1 DEF MatchInv

LEMMA AcceptMatch == ASSUME MatchInv, IInv', Accept PROVE MatchInv'
<1>1. /\ pc = "check" /\ pc' = "exchange" /\ UNCHANGED <<pos, net>>
      /\ created < MaxOrders /\ created' = created + 1
      /\ cur' = [cur EXCEPT !.id = created + 1]
      /\ order' = [order EXCEPT ![created + 1] =
                     [kind |-> "market", side |-> cur.side, qty |-> cur.qty, filled |-> 0,
                      status |-> "open", stop |-> 0]]
  BY DEF Accept, ledgers, history
<1>2. /\ created \in 0..MaxOrders /\ order \in [Id -> Order]
      /\ cur \in [id : Id \cup {0}, side : Side, qty : Nat, price : Nat]
  BY DEF MatchInv, IInv, TypeOK
<1>3. created + 1 \in Id /\ created + 1 \in 1..created'
  BY <1>1, <1>2, BoundsAssumption DEF Id
<1>4. cur'.id = created + 1
  BY <1>1, <1>2
<1>5. InHand(order'[created + 1])
  BY <1>1, <1>2, <1>3 DEF InHand
<1>6. pos'.qty = net'
  BY <1>1 DEF MatchInv
<1> QED
  BY <1>1, <1>3, <1>4, <1>5, <1>6 DEF MatchInv

LEMMA TradesMatch ==
  ASSUME MatchInv, IInv', NEW q1 \in 0..cur.qty, NEW q2 \in 0..cur.qty,
         NEW p1 \in Price, NEW p2 \in Price, Trades(q1, p1, q2, p2)
  PROVE  MatchInv'
<1>1. /\ pc = "exchange" /\ pc' = "fill" /\ UNCHANGED <<pos, cur, created, order>>
      /\ fill'.qty = q1 + q2
      /\ net' = IF cur.side = "buy" THEN net + q1 + q2 ELSE net - (q1 + q2)
  BY DEF Trades, ledgers
<1>2. cur.qty \in Nat /\ net \in Int /\ pos.qty \in Int /\ pos.qty = net
  BY <1>1 DEF MatchInv, IInv, TypeOK
<1>3. q1 \in Nat /\ q2 \in Nat
  BY <1>2
<1>4. net' = pos'.qty + Signed(fill.qty)'
  BY <1>1, <1>2, <1>3 DEF Signed
<1>5. cur.id \in 1..created /\ InHand(order[cur.id])
  BY <1>1 DEF MatchInv
<1> QED
  BY <1>1, <1>4, <1>5 DEF MatchInv

LEMMA FillMatch == ASSUME MatchInv, IInv', UpdateOrderFill PROVE MatchInv'
<1>1. pc = "fill" /\ UNCHANGED <<pos, net>>
  BY DEF UpdateOrderFill, ledgers, history
<1>2. order[cur.id].status = "open"
  BY <1>1 DEF MatchInv, InHand
<1>3. pc' = "position" /\ UNCHANGED <<cur, fill>>
  BY <1>2 DEF UpdateOrderFill
<1>4. net' = pos'.qty + Signed(fill.qty)'
  BY <1>1, <1>3 DEF MatchInv, Signed
<1> QED
  BY <1>3, <1>4 DEF MatchInv

\* AddPosition accepts what fits, and moves the position by what was filled.
LEMMA PositionMatch == ASSUME MatchInv, IInv', FillFits, AddPosition PROVE MatchInv'
<1>1. pc = "position" /\ net' = net /\ net = pos.qty + Signed(fill.qty)
  BY DEF AddPosition, history, MatchInv
<1>2. /\ pos \in PositionType /\ pos.qty \in Int /\ pos.qty >= 0
      /\ fill.qty \in Nat \ {0} /\ cur.side \in {"buy", "sell"}
      /\ (cur.side = "sell" => fill.qty <= pos.qty)
  BY <1>1 DEF MatchInv, IInv, TypeOK, NeverShort, FillWithinOrder, CoveredSale, Side,
              PositionType
<1>3. AvgPrice > 0 /\ AvgPrice \in Int
  BY <1>1, FittingPrice, AvgPriceInt DEF MatchInv
<1>4. ~ Refused(pos, fill.qty, AvgPrice, cur.side)
  BY <1>2, <1>3 DEF Refused
<1>5. pos' = Traded(pos, fill.qty, AvgPrice, cur.side) /\ pc' = "balance"
  BY <1>4 DEF AddPosition, TotalFilledQty
<1>6. pos'.qty = pos.qty + Signed(fill.qty)
  <2>1. CASE cur.side = "buy"
    BY <1>2, <1>3, <1>5, <2>1, BoughtLong DEF Traded, Signed
  <2>2. CASE cur.side = "sell"
    <3>1. pos' = Sold(pos, fill.qty, AvgPrice)
      BY <1>5, <2>2 DEF Traded
    <3>2. pos'.qty = pos.qty - fill.qty
      BY <1>2, <1>3, <2>2, <3>1, SoldLong
    <3> QED
      BY <1>2, <2>2, <3>2 DEF Signed
  <2> QED
    BY <1>2, <2>1, <2>2
<1> QED
  BY <1>1, <1>5, <1>6 DEF MatchInv

\* A stop order that is created, opened or cancelled is not the market order underway.
LEMMA StopsMatch ==
  ASSUME MatchInv, IInv', UNCHANGED <<pos, net, pc, cur, fill>>,
         created <= created', created' \in Nat,
         \A i \in 1..created : InHand(order[i]) => order'[i] = order[i]
  PROVE  MatchInv'
<1>1. created \in Nat
  BY DEF MatchInv, IInv, TypeOK
<1>2. pc \in {"exchange", "fill"} => cur.id \in 1..created' /\ InHand(order'[cur.id])
  BY <1>1 DEF MatchInv
<1>3. Signed(fill.qty)' = Signed(fill.qty)
  BY DEF Signed
<1> QED
  BY <1>2, <1>3 DEF MatchInv

\* As long as the mean price of every fill fits, what the trades bought less what they
\* sold is in the position whenever processOrder is done with an order.
THEOREM TradesReachPosition == Spec /\ []FillFits => []PositionMatchesTrades
<1>1. Init => MatchInv
  BY InitMatch
<1>2. ASSUME MatchInv, IInv', FillFits, [Next]_vars PROVE MatchInv'
  <2> USE DEF ledgers, loopVars, history
  <2>0. pc \in Pc /\ pc' \in Pc /\ back \in {"signals", "stops"}
    BY <1>2 DEF MatchInv, IInv, TypeOK
  <2>1. CASE \/ \E p \in Price : TakeTick(p)
             \/ \E s \in Strategy : Pass(s)
             \/ \E s \in Strategy, side \in Side : Signal(s, side)
             \/ SignalsDone \/ (\E i \in Id : FireStop(i)) \/ StopsDone
    <3>1. /\ UNCHANGED <<pos, net>>
          /\ pc \in {"idle", "signals", "stops"} /\ pc' \in {"idle", "signals", "stops", "check"}
      BY <2>1, Zenon DEF TakeTick, Pass, Signal, SignalsDone, FireStop, StopsDone, Process
    <3> QED
      BY <1>2, <3>1, QuietMatch
  <2>2. CASE Refuse \/ NoTrades \/ UpdateBalance \/ RecordPnL
    <3>1. /\ UNCHANGED <<pos, net>>
          /\ pc \in {"check", "exchange", "balance", "record"}
          /\ pc' \in {"signals", "stops", "record"}
      BY <2>0, <2>2 DEF Refuse, NoTrades, UpdateBalance, RecordPnL, Return
    <3> QED
      BY <1>2, <3>1, QuietMatch
  <2>3. CASE Accept
    BY <1>2, <2>3, AcceptMatch
  <2>4. CASE \E q1, q2 \in 0..cur.qty, p1, p2 \in Price : Trades(q1, p1, q2, p2)
    BY <1>2, <2>4, TradesMatch
  <2>5. CASE UpdateOrderFill
    BY <1>2, <2>5, FillMatch
  <2>6. CASE AddPosition
    BY <1>2, <2>6, PositionMatch
  <2>7. ASSUME NEW kind \in Kind \ {"market"}, NEW side \in Side, NEW q \in StopQty,
               NEW p \in Price, CreateStop(kind, side, q, p)
        PROVE  MatchInv'
    <3>1. /\ UNCHANGED <<pos, net, pc, cur, fill>> /\ created' = created + 1
          /\ order' = [order EXCEPT ![created + 1] =
                         [kind |-> kind, side |-> side, qty |-> q, filled |-> 0,
                          status |-> "pending", stop |-> p]]
      BY <2>7 DEF CreateStop
    <3>2. created \in 0..MaxOrders /\ order \in [Id -> Order] /\ MaxOrders \in Nat
      BY <1>2, BoundsAssumption DEF MatchInv, IInv, TypeOK
    <3>3. \A i \in 1..created : order'[i] = order[i]
      BY <3>1, <3>2 DEF Id
    <3>4. created <= created' /\ created' \in Nat
      BY <3>1, <3>2
    <3> QED
      BY <1>2, <3>1, <3>3, <3>4, StopsMatch
  <2>8. ASSUME NEW i \in Id, OpenStop(i) \/ CancelStop(i) PROVE MatchInv'
    <3>1. /\ UNCHANGED <<pos, net, pc, cur, fill, created>> /\ order[i].kind # "market"
          /\ \E st : order' = [order EXCEPT ![i].status = st]
      BY <2>8 DEF OpenStop, CancelStop
    <3>2. created \in 0..MaxOrders /\ order \in [Id -> Order] /\ MaxOrders \in Nat
      BY <1>2, BoundsAssumption DEF MatchInv, IInv, TypeOK
    <3>3. \A j \in 1..created : InHand(order[j]) => order'[j] = order[j]
      BY <3>1, <3>2 DEF Id, InHand
    <3>4. created <= created' /\ created' \in Nat
      BY <3>1, <3>2
    <3> QED
      BY <1>2, <3>1, <3>3, <3>4, StopsMatch
  <2>9. CASE UNCHANGED vars
    <3>1. /\ UNCHANGED <<pos, net, pc, cur, fill, created, order>>
      BY <2>9 DEF vars
    <3>2. created <= created' /\ created' \in Nat
      BY <1>2, <3>1 DEF MatchInv, IInv, TypeOK
    <3> QED
      BY <1>2, <3>1, <3>2, StopsMatch
  <2>10. CASE Dispatch
    <3>1. CASE \/ \E s \in Strategy : Pass(s)
               \/ \E s \in Strategy, side \in Side : Signal(s, side)
      BY <2>1, <3>1
    <3>2. CASE SignalsDone \/ (\E i \in Id : FireStop(i)) \/ StopsDone
      BY <2>1, <3>2
    <3>3. CASE Refuse \/ NoTrades \/ UpdateBalance \/ RecordPnL
      BY <2>2, <3>3
    <3> QED
      BY <2>10, <2>3, <2>4, <2>5, <2>6, <3>1, <3>2, <3>3 DEF Dispatch
  <2>11. CASE Next
    BY <2>1, <2>7, <2>8, <2>10, <2>11, Zenon DEF Next
  <2> QED
    BY <1>2, <2>9, <2>11, Zenon
<1>3. MatchInv => PositionMatchesTrades
  BY DEF MatchInv, PositionMatchesTrades
<1>4. Spec => []IInv
  BY LiveInvariance
<1> QED
  BY <1>1, <1>2, <1>3, <1>4, PTL DEF Spec
=============================================================================
