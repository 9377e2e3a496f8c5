------------------------------ MODULE Exchange -------------------------------
(***************************************************************************)
(* What the order book promises, without levels, lists, totals or maps: a  *)
(* set of live orders, and a taker that always trades with the live order  *)
(* of the other side that has the best price and, at that price, arrived   *)
(* first.  OrderBook implements this with live <- orderMap.                *)
(***************************************************************************)
EXTENDS Integers

CONSTANTS Price, SubmitQty, AddQty, MaxOrders

VARIABLES order,    \* the fields of each order that never change
          filled,   \* how much of each order has traded
          arrived,  \* how many orders there are; ids are in order of arrival
          live,     \* the orders that rest in the book
          taker     \* the order being matched, None when there is none

vars == <<order, filled, arrived, live, taker>>

Id == 1..MaxOrders
None == 0
Side == {"buy", "sell"}

Init ==
  /\ order = [i \in Id |-> [side |-> "buy", kind |-> "limit", price |-> 0, qty |-> 0]]
  /\ filled = [i \in Id |-> 0]
  /\ arrived = 0
  /\ live = {}
  /\ taker = None

Remaining(i) == order[i].qty - filled[i]

\* A buyer's price is better the higher it is, a seller's the lower.
NoWorse(s, a, b) == IF s = "buy" THEN a >= b ELSE a <= b

\* i comes before j, an order of the same side: price first, then time.
Before(i, j) ==
  \/ order[i].price # order[j].price /\ NoWorse(order[i].side, order[i].price, order[j].price)
  \/ order[i].price = order[j].price /\ i < j

\* m is next in line for the taker.
NextInLine(m) ==
  /\ m \in live
  /\ order[m].side # order[taker].side
  /\ \A j \in live : order[j].side = order[m].side => j = m \/ Before(m, j)

Acceptable(m) ==
  \/ order[taker].kind = "market"
  \/ NoWorse(order[taker].side, order[taker].price, order[m].price)

Arrive(o) ==
  /\ arrived < MaxOrders
  /\ arrived' = arrived + 1
  /\ order' = [order EXCEPT ![arrived + 1] = o]
  /\ UNCHANGED filled

Submit(o) ==
  /\ taker = None
  /\ Arrive(o)
  /\ taker' = arrived + 1
  /\ UNCHANGED live

Place(o) ==
  /\ taker = None
  /\ Arrive(o)
  /\ live' = live \cup {arrived + 1}
  /\ UNCHANGED taker

Cancel(i) ==
  /\ taker = None
  /\ i \in live
  /\ live' = live \ {i}
  /\ UNCHANGED <<order, filled, arrived, taker>>

\* The taker trades with the order next in line as much as both allow, or
\* sends it away when it has nothing left.
Match ==
  /\ taker # None /\ Remaining(taker) > 0
  /\ \E m \in live :
       /\ NextInLine(m) /\ Acceptable(m)
       /\ LET q == IF Remaining(m) < Remaining(taker) THEN Remaining(m) ELSE Remaining(taker)
          IN  /\ filled' = [filled EXCEPT ![m] = @ + q, ![taker] = @ + q]
              /\ live' = IF Remaining(m) = q THEN live \ {m} ELSE live
  /\ UNCHANGED <<order, arrived, taker>>

\* Nothing more to trade: a limit order that is not filled joins the book.
Rest ==
  /\ taker # None
  /\ Remaining(taker) = 0 \/ ~ \E m \in live : NextInLine(m) /\ Acceptable(m)
  /\ live' = IF order[taker].kind = "limit" /\ Remaining(taker) > 0
             THEN live \cup {taker} ELSE live
  /\ taker' = None
  /\ UNCHANGED <<order, filled, arrived>>

Limit(s, p, q) == [side |-> s, kind |-> "limit", price |-> p, qty |-> q]
Market(s, q) == [side |-> s, kind |-> "market", price |-> 0, qty |-> q]

Next ==
  \/ \E s \in Side, q \in SubmitQty : Submit(Market(s, q))
  \/ \E s \in Side, p \in Price, q \in SubmitQty : Submit(Limit(s, p, q))
  \/ \E s \in Side, p \in Price, q \in AddQty : Place(Limit(s, p, q))
  \/ \E i \in Id : Cancel(i)
  \/ Match
  \/ Rest

Safety == Init /\ [][Next]_vars

Spec == Safety /\ WF_vars(Match \/ Rest)
=============================================================================
