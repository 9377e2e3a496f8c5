------------------------------ MODULE OrderBook ------------------------------
(***************************************************************************)
(* The order book and the matching engine of internal/market: two trees of *)
(* price levels, a FIFO list of orders and a running total on each level,  *)
(* and the map from order ids to their list elements.                      *)
(*                                                                         *)
(* Every exported method runs under the book's one mutex.  AddOrder and    *)
(* CancelOrder are one step each.  ProcessOrder is a loop: Submit takes    *)
(* the mutex, Fill and SkipExhausted are its iterations, Finish ends it    *)
(* and gives the mutex back; taker is the order that holds it.             *)
(*                                                                         *)
(* The red-black trees appear as the set of prices they hold (levels); the *)
(* module RBTree shows that find, first and the in-order walk of the code  *)
(* agree with that set.                                                    *)
(***************************************************************************)
EXTENDS Integers, Sequences, Functions

CONSTANTS Price,      \* the prices in play
          SubmitQty,  \* quantities handed to ProcessOrder
          AddQty,     \* quantities handed to AddOrder, which does not check them
          MaxOrders   \* bound: orders that reach the book

ASSUME PriceAssumption == Price \subseteq Nat
ASSUME SubmitQtyAssumption == SubmitQty \subseteq Nat \ {0}
ASSUME AddQtyAssumption == AddQty \subseteq Nat
ASSUME MaxOrdersAssumption == MaxOrders \in Nat

VARIABLES order,     \* the fields of each order that never change
          filled,    \* FilledQty of each order
          status,    \* Status of each order
          arrived,   \* how many orders have reached the book; an id is a place in this order
          levels,    \* the prices that have a node in each tree
          queue,     \* the list of orders on each level, oldest first
          total,     \* totalQty of each level
          orderMap,  \* the ids the order map knows
          taker,     \* the order ProcessOrder is matching, None when the mutex is free
          trades     \* the trades of the call in progress

vars == <<order, filled, status, arrived, levels, queue, total, orderMap, taker, trades>>

book == <<levels, queue, total, orderMap>>

Id == 1..MaxOrders
None == 0
Side == {"buy", "sell"}
Kind == {"market", "limit"}   \* stop-loss and take-profit orders take the limit path
Status == {"pending", "open", "filled", "partial", "cancelled", "rejected"}
Order == [side : Side, kind : Kind, price : Nat, qty : Nat]
Zero == [side |-> "buy", kind |-> "limit", price |-> 0, qty |-> 0]

Opposite(s) == IF s = "buy" THEN "sell" ELSE "buy"
Remaining(i) == order[i].qty - filled[i]

Init ==
  /\ order = [i \in Id |-> Zero]
  /\ filled = [i \in Id |-> 0]
  /\ status = [i \in Id |-> "pending"]
  /\ arrived = 0
  /\ levels = [s \in Side |-> {}]
  /\ queue = [s \in Side |-> [p \in Price |-> <<>>]]
  /\ total = [s \in Side |-> [p \in Price |-> 0]]
  /\ orderMap = {}
  /\ taker = None
  /\ trades = <<>>

-----------------------------------------------------------------------------
(***************************************************************************)
(* The levels.                                                             *)
(***************************************************************************)

\* compare(a, b) <= 0 in the tree of side s: bids descend, asks ascend.
NotAfter(s, a, b) == IF s = "buy" THEN a >= b ELSE a <= b

\* Mutant of IsFirst: both trees ascend, as if desc were ignored.
IsFirstAscending(s, p) == p \in levels[s] /\ \A r \in levels[s] : p <= r

\* p is the price of first(): the leftmost node of the tree of side s.
IsFirst(s, p) == p \in levels[s] /\ \A r \in levels[s] : NotAfter(s, p, r)

\* The order m that peekFrontOrder(s) returns, on the level p.
IsFront(s, p, m) == IsFirst(s, p) /\ queue[s][p] # <<>> /\ m = Head(queue[s][p])

\* Mutant of PushBack: a resting order counts with its whole quantity.
PushBackWhole(i, o, remaining) ==
  LET known == o.price \in levels[o.side]
  IN  /\ levels' = [levels EXCEPT ![o.side] = @ \cup {o.price}]
      /\ queue' = [queue EXCEPT ![o.side][o.price] = Append(IF known THEN @ ELSE <<>>, i)]
      /\ total' = [total EXCEPT ![o.side][o.price] = (IF known THEN @ ELSE 0) + o.qty]
      /\ orderMap' = orderMap \cup {i}

\* AddOrder and addOrderToBook: the level is made when it is missing.
PushBack(i, o, remaining) ==
  LET known == o.price \in levels[o.side]
  IN  /\ levels' = [levels EXCEPT ![o.side] = @ \cup {o.price}]
      /\ queue' = [queue EXCEPT ![o.side][o.price] = Append(IF known THEN @ ELSE <<>>, i)]
      /\ total' = [total EXCEPT ![o.side][o.price] = (IF known THEN @ ELSE 0) + remaining]
      /\ orderMap' = orderMap \cup {i}

\* The list without its k-th element.
Without(q, k) == [j \in 1..(Len(q) - 1) |-> IF j < k THEN q[j] ELSE q[j + 1]]

\* Mutant of Pruned: an emptied level stays in its tree.
PrunedNever(s, p, rest) == levels[s]

\* remove() of a level whose list has become empty.
Pruned(s, p, rest) == IF rest = <<>> THEN levels[s] \ {p} ELSE levels[s]

\* delete(orderMap, id)
Forget(i) == orderMap \ {i}

\* The k-th order leaves the level p, which goes when it was the last one;
\* less is what the level's total loses on the way.
Unlink(s, p, k, less) ==
  LET rest == Without(queue[s][p], k)
  IN  /\ queue' = [queue EXCEPT ![s][p] = rest]
      /\ total' = [total EXCEPT ![s][p] = @ - less]
      /\ levels' = [levels EXCEPT ![s] = Pruned(s, p, rest)]
      /\ orderMap' = Forget(queue[s][p][k])

-----------------------------------------------------------------------------
(***************************************************************************)
(* The matching engine.                                                    *)
(***************************************************************************)

Opp == Opposite(order[taker].side)

\* Mutant of CanMatch: an equal price does not match.
CanMatchStrict(m) ==
  \/ order[taker].kind = "market"
  \/ ~ NotAfter(order[taker].side, order[m].price, order[taker].price)

\* The limit price lets the taker trade with the maker m; a market order
\* trades at any price.
CanMatch(m) ==
  \/ order[taker].kind = "market"
  \/ NotAfter(order[taker].side, order[taker].price, order[m].price)

\* makerRemaining <= 0
Exhausted(m) == Remaining(m) <= 0

\* Mutant of CreateTrade: the trade reports all the maker had.
CreateTradeOfMaker(m, q) == [price |-> order[m].price, qty |-> Remaining(m)]

\* createTrade: at the maker's price.
CreateTrade(m, q) == [price |-> order[m].price, qty |-> q]

\* tradeQty: the smaller remainder.
TradeQty(m) == IF Remaining(m) < Remaining(taker) THEN Remaining(m) ELSE Remaining(taker)

\* What an order is when it reaches the book.
Arrive(o, st) ==
  /\ arrived < MaxOrders
  /\ arrived' = arrived + 1
  /\ order' = [order EXCEPT ![arrived + 1] = o]
  /\ status' = [status EXCEPT ![arrived + 1] = st]

\* ProcessOrder takes the mutex.
Submit(o) ==
  /\ taker = None
  /\ o.qty > 0
  /\ Arrive(o, "open")
  /\ taker' = arrived + 1
  /\ UNCHANGED <<filled, book, trades>>

\* One iteration that trades: reduceOrderQty, the maker's status, the pop of
\* a maker that is done, the taker's FilledQty.
Fill ==
  /\ taker # None
  /\ Remaining(taker) > 0
  /\ \E p \in Price, m \in Id :
       /\ IsFront(Opp, p, m)
       /\ CanMatch(m)
       /\ ~ Exhausted(m)
       /\ LET q == TradeQty(m)
              reduced == IF m \in orderMap THEN q ELSE 0
              done == Remaining(m) = reduced
          IN  /\ filled' = [filled EXCEPT ![m] = @ + reduced, ![taker] = @ + q]
              /\ status' = [status EXCEPT ![m] = IF done THEN "filled" ELSE "partial"]
              /\ trades' = Append(trades, CreateTrade(m, q))
              /\ IF done
                 THEN Unlink(Opp, p, 1, reduced)
                 ELSE /\ total' = [total EXCEPT ![Opp][p] = @ - reduced]
                      /\ UNCHANGED <<levels, queue, orderMap>>
  /\ UNCHANGED <<order, arrived, taker>>

\* One iteration that only pops a maker with nothing left.
SkipExhausted ==
  /\ taker # None
  /\ Remaining(taker) > 0
  /\ \E p \in Price, m \in Id :
       /\ IsFront(Opp, p, m)
       /\ CanMatch(m)
       /\ Exhausted(m)
       /\ Unlink(Opp, p, 1, Remaining(m))
  /\ UNCHANGED <<order, filled, status, arrived, taker, trades>>

\* The loop is over: nothing left to trade, or no maker it may trade with.
LoopEnds ==
  \/ Remaining(taker) <= 0
  \/ ~ \E p \in Price, m \in Id : IsFront(Opp, p, m) /\ CanMatch(m)

\* The end of matchMarketOrder: what is left of the order is dropped.
FinishMarket ==
  /\ taker # None /\ order[taker].kind = "market"
  /\ LoopEnds
  /\ status' = [status EXCEPT ![taker] =
                  IF Remaining(taker) <= 0 THEN "filled"
                  ELSE IF filled[taker] > 0 THEN "partial" ELSE "rejected"]
  /\ taker' = None
  /\ trades' = <<>>
  /\ UNCHANGED <<order, filled, arrived, book>>

\* The end of matchLimitOrder: what is left of the order rests in the book.
FinishLimit ==
  /\ taker # None /\ order[taker].kind = "limit"
  /\ LoopEnds
  /\ IF Remaining(taker) <= 0
     THEN /\ status' = [status EXCEPT ![taker] = "filled"]
          /\ UNCHANGED book
     ELSE /\ status' = [status EXCEPT ![taker] = "open"]
          /\ PushBack(taker, order[taker], Remaining(taker))
  /\ taker' = None
  /\ trades' = <<>>
  /\ UNCHANGED <<order, filled, arrived>>

-----------------------------------------------------------------------------
(***************************************************************************)
(* The other writers of the book.                                          *)
(***************************************************************************)

\* AddOrder: the order rests at once, whatever stands on the other side.
AddOrder(o) ==
  /\ taker = None
  /\ Arrive(o, "open")
  /\ PushBack(arrived + 1, o, o.qty)
  /\ UNCHANGED <<filled, taker, trades>>

\* CancelOrder: of an id the map does not know it changes nothing.
CancelOrder(i) ==
  /\ taker = None
  /\ LET s == order[i].side
         p == order[i].price
     IN  IF i \in orderMap /\ p \in levels[s]
         THEN /\ \E k \in 1..Len(queue[s][p]) :
                   queue[s][p][k] = i /\ Unlink(s, p, k, Remaining(i))
              /\ status' = [status EXCEPT ![i] = "cancelled"]
         ELSE /\ orderMap' = Forget(i)
              /\ UNCHANGED <<levels, queue, total, status>>
  /\ UNCHANGED <<order, filled, arrived, taker, trades>>

Limit(s, p, q) == [side |-> s, kind |-> "limit", price |-> p, qty |-> q]
Market(s, q) == [side |-> s, kind |-> "market", price |-> 0, qty |-> q]

Loop == Fill \/ SkipExhausted \/ FinishMarket \/ FinishLimit

Next ==
  \/ \E s \in Side, q \in SubmitQty : Submit(Market(s, q))
  \/ \E s \in Side, p \in Price, q \in SubmitQty : Submit(Limit(s, p, q))
  \/ \E s \in Side, p \in Price, q \in AddQty : AddOrder(Limit(s, p, q))
  \/ \E i \in Id : CancelOrder(i)
  \/ Loop

\* The goroutine in ProcessOrder holds the mutex and is scheduled: its loop
\* goes on.  Nobody has to submit, add or cancel.
Spec == Init /\ [][Next]_vars /\ WF_vars(Loop)

-----------------------------------------------------------------------------
(***************************************************************************)
(* Properties.                                                             *)
(***************************************************************************)

TypeOK ==
  /\ order \in [Id -> Order]
  /\ filled \in [Id -> Nat]
  /\ status \in [Id -> Status]
  /\ arrived \in 0..MaxOrders
  /\ levels \in [Side -> SUBSET Price]
  /\ queue \in [Side -> [Price -> Seq(Id)]]
  /\ total \in [Side -> [Price -> Int]]
  /\ orderMap \subseteq Id
  /\ taker \in Id \cup {None}
  /\ trades \in Seq([price : Nat, qty : Nat \ {0}])

Members(q) == {q[k] : k \in 1..Len(q)}
Increasing(q) == \A j, k \in 1..Len(q) : j < k => q[j] < q[k]

\* No level of either tree is empty: remove() follows the last Remove of a list.
NoEmptyLevel == \A s \in Side : \A p \in levels[s] : queue[s][p] # <<>>

\* A list holds orders of its own side and price that the map knows, each
\* once and the oldest first.
ListsInOrder ==
  \A s \in Side : \A p \in levels[s] :
    /\ \A i \in Members(queue[s][p]) :
         i \in orderMap /\ order[i].side = s /\ order[i].price = p
    /\ Increasing(queue[s][p])

\* Every order the map knows has arrived and is listed on its own level.
MapListed ==
  \A i \in orderMap :
    /\ i \in 1..arrived
    /\ order[i].kind = "limit"
    /\ order[i].price \in levels[order[i].side]
    /\ i \in Members(queue[order[i].side][order[i].price])

\* Trees, lists and map describe the same resting orders after every method:
\* the code keeps the three by hand in AddOrder, CancelOrder, popFrontOrder
\* and addOrderToBook.  The taker is not among them.
BookConsistent ==
  /\ NoEmptyLevel
  /\ ListsInOrder
  /\ MapListed
  /\ taker \notin orderMap

SumOf(f) == FoldFunction(LAMBDA a, b : a + b, 0, f)

\* totalQty of a level, which AddOrder, reduceOrderQty, popFrontOrder and
\* CancelOrder update by hand, is what its orders have left.
LevelTotals ==
  \A s \in Side : \A p \in levels[s] :
    total[s][p] = SumOf([k \in 1..Len(queue[s][p]) |-> Remaining(queue[s][p][k])])

\* What bought orders have filled is what sold orders have filled, and the
\* trades of the call in progress account for the whole fill of its taker.
FillsBalance ==
  /\ SumOf([i \in {j \in Id : order[j].side = "buy"} |-> filled[i]])
       = SumOf([i \in {j \in Id : order[j].side = "sell"} |-> filled[i]])
  /\ taker # None =>
       filled[taker] = SumOf([k \in DOMAIN trades |-> trades[k].qty])

\* No order is filled beyond its quantity, and the final statuses tell how
\* much of it was.
NoOverfill ==
  \A i \in Id :
    /\ filled[i] \in 0..order[i].qty
    /\ status[i] = "filled" => filled[i] = order[i].qty
    /\ status[i] = "rejected" => filled[i] = 0
    /\ status[i] = "partial" => 0 < filled[i] /\ filled[i] < order[i].qty

\* An order that comes to rest through ProcessOrder leaves no order on the
\* other side that it could have traded with.
RestsUncrossed ==
  [][(taker # None /\ taker' = None /\ taker \in orderMap') =>
       \A p \in levels'[Opp] :
         ~ NotAfter(order[taker].side, order[taker].price, p)]_vars

\* An order that is filled, cancelled or rejected, or a market order that was
\* partly filled and left, never fills again, never changes its status and
\* never comes back to the book.
Over(i) ==
  /\ i # taker
  /\ \/ status[i] \in {"filled", "cancelled", "rejected"}
     \/ status[i] = "partial" /\ order[i].kind = "market"

OverIsFinal ==
  [][\A i \in Id : Over(i) =>
       /\ status'[i] = status[i]
       /\ filled'[i] = filled[i]
       /\ i \notin orderMap']_vars

\* The levels, lists and map give every trade to the order with the best
\* price and, at that price, the earliest arrival.
Promise == INSTANCE Exchange WITH live <- orderMap
PriceTimePriority == Promise!Safety
=============================================================================
