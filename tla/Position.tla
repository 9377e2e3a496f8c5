------------------------------- MODULE Position -------------------------------
(***************************************************************************)
(* The arithmetic of money: CalcValue and CalcQuantity of pkg/types, and   *)
(* what AddPosition of internal/position does to one symbol's position.    *)
(* Amounts are integers; MulDiv divides big integers, and the division by  *)
(* a positive divisor rounds down, as \div does.                           *)
(***************************************************************************)
EXTENDS Integers

CONSTANT Scale   \* SatoshiScale: the units of one coin

ASSUME ScaleAssumption == Scale \in Nat \ {0}

MulDiv(a, b, d) == (a * b) \div d
CalcValue(qty, price) == MulDiv(qty, price, Scale)
CalcQuantity(value, price) == MulDiv(value, Scale, price)

\* No entry for the symbol counts as an empty one everywhere it is read.
NoPosition == [qty |-> 0, avg |-> 0, realized |-> 0]

\* The mean price of q1 at p1 and q2 at p2, rounded down.
Mean(q1, p1, q2, p2) == (q1 * p1 + q2 * p2) \div (q1 + q2)

\* Mutant of Cover: the gain of a short is counted as that of a long.
CoverReversed(pos, qty, price) == MulDiv(qty, price - pos.avg, Scale)

\* The gain of buying back qty of a short position.
Cover(pos, qty, price) == MulDiv(qty, pos.avg - price, Scale)

\* Mutant of Bought: a position that turns long keeps the short's price.
BoughtStale(pos, qty, price) ==
  IF pos.qty >= 0
  THEN [pos EXCEPT !.qty = @ + qty, !.avg = Mean(pos.qty, @, qty, price)]
  ELSE LET covered == IF qty > -pos.qty THEN -pos.qty ELSE qty
       IN  [qty |-> pos.qty + qty, avg |-> pos.avg,
            realized |-> pos.realized + Cover(pos, covered, price)]

\* handleBuy: a long position grows, a short one is covered and may turn long.
Bought(pos, qty, price) ==
  IF pos.qty >= 0
  THEN [pos EXCEPT !.qty = @ + qty, !.avg = Mean(pos.qty, @, qty, price)]
  ELSE LET covered == IF qty > -pos.qty THEN -pos.qty ELSE qty
       IN  [qty |-> pos.qty + qty,
            avg |-> IF qty > covered THEN price ELSE pos.avg,
            realized |-> pos.realized + Cover(pos, covered, price)]

\* handleSell: a long position shrinks, any other becomes shorter.
Sold(pos, qty, price) ==
  IF pos.qty > 0
  THEN [qty |-> pos.qty - qty,
        avg |-> IF qty = pos.qty THEN 0 ELSE pos.avg,
        realized |-> pos.realized + MulDiv(qty, price - pos.avg, Scale)]
  ELSE [pos EXCEPT !.qty = @ - qty, !.avg = Mean(-pos.qty, @, qty, price)]

\* The errors of AddPosition: a long position cannot be sold short in one go.
Refused(pos, qty, price, side) ==
  \/ qty <= 0
  \/ price <= 0
  \/ side = "sell" /\ pos.qty > 0 /\ qty > pos.qty

Traded(pos, qty, price, side) ==
  IF side = "buy" THEN Bought(pos, qty, price) ELSE Sold(pos, qty, price)
=============================================================================
