--------------------------- MODULE PositionManager ---------------------------
(***************************************************************************)
(* The position manager in any use the interface allows: any sequence of   *)
(* calls of AddPosition for one symbol, long and short, and of Reset.  The *)
(* history variables keep the books a second time, in exact arithmetic.    *)
(* Report makes the calls, one for each trade.                             *)
(***************************************************************************)
EXTENDS Position

CONSTANTS Price,    \* prices of trades, 0 among them: the code refuses it
          Qty,      \* quantities of trades, 0 among them
          MaxQty,   \* bound: the size of a position
          MaxCalls  \* bound: calls

ASSUME PriceAssumption == Price \subseteq Nat
ASSUME QtyAssumption == Qty \subseteq Nat
ASSUME BoundAssumption == MaxQty \in Nat /\ MaxCalls \in Nat

VARIABLES pos,      \* the position
          cash,     \* history: what sales brought less what purchases cost, times Scale
          rounding, \* history: how far pos may be off, times Scale
          low, high,\* history: the range of the prices since the position was flat
          calls     \* bounded counter

vars == <<pos, cash, rounding, low, high, calls>>

Side == {"buy", "sell"}
Abs(n) == IF n < 0 THEN -n ELSE n

Init ==
  /\ pos = NoPosition
  /\ cash = 0
  /\ rounding = 0
  /\ low = 0 /\ high = 0
  /\ calls = 0

\* What AddPosition does with a trade it accepts.  The trade opens a position,
\* also where it turns a short one round; it extends one; or it closes some.
AddPosition(q, p, side) ==
  /\ calls < MaxCalls
  /\ ~ Refused(pos, q, p, side)
  /\ LET new == Traded(pos, q, p, side)
         opens == new.qty # 0 /\ new.qty * pos.qty <= 0
         extends == Abs(new.qty) > Abs(pos.qty)
     IN  /\ Abs(new.qty) <= MaxQty
         /\ pos' = new
         /\ rounding' = rounding + (IF opens \/ extends THEN Abs(new.qty) ELSE 0)
                                 + (IF side = "buy" /\ pos.qty >= 0 THEN 0 ELSE Scale)
         /\ low' = IF opens \/ (extends /\ p < low) THEN p ELSE low
         /\ high' = IF opens \/ (extends /\ p > high) THEN p ELSE high
  /\ cash' = IF side = "buy" THEN cash - q * p ELSE cash + q * p
  /\ calls' = calls + 1

\* What it does with one it refuses.
RefusePosition(q, p, side) ==
  /\ Refused(pos, q, p, side)
  /\ UNCHANGED vars

\* Reset forgets every position, its profit with it.
Reset ==
  /\ calls < MaxCalls /\ calls' = calls + 1
  /\ pos' = NoPosition
  /\ cash' = 0 /\ rounding' = 0
  /\ low' = 0 /\ high' = 0

-----------------------------------------------------------------------------
(***************************************************************************)
(* Properties.                                                             *)
(***************************************************************************)

\* The average price of a position lies between the lowest and the highest
\* price it was built at since it was last flat or on the other side.
AvgInRange == pos.qty # 0 => low <= pos.avg /\ pos.avg <= high

\* Realized profit and the open position account for all the money that
\* changed hands, up to what the divisions round away: nothing is lost or
\* counted twice over any sequence of purchases, sales, covers and turns.
MoneyAccountedFor ==
  Abs(pos.realized * Scale - (cash + pos.qty * pos.avg)) <= rounding
=============================================================================
