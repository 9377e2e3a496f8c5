----------------------------- MODULE ReportProofs -----------------------------
(***************************************************************************)
(* Proofs about the position manager, and about the two computations of    *)
(* the report that match sales with purchases first in, first out, for any *)
(* scale, prices and quantities and any number of trades.                  *)
(***************************************************************************)
EXTENDS Report, SequenceTheorems, Sums

-----------------------------------------------------------------------------
(***************************************************************************)
(* Multiplication and division.                                            *)
(***************************************************************************)

\* What a division rounds away.
LEMMA DivRounds ==
  ASSUME NEW n \in Int, NEW d \in Nat \ {0}
  PROVE  /\ n \div d \in Int
         /\ \E r \in 0..(d - 1) : d * (n \div d) = n - r
<1>1. n \div d \in Int /\ n % d \in 0..(d - 1) /\ n = d * (n \div d) + (n % d)
  OBVIOUS
<1> DEFINE q == n \div d
           r == n % d
           m == d * q
<1>2. q \in Int /\ r \in 0..(d - 1) /\ m \in Int /\ n = m + r
  BY <1>1
<1> HIDE DEF q, r, m
<1>3. m = n - r
  BY <1>2
<1> QED
  BY <1>2, <1>3 DEF m, q

LEMMA TimesIsMonotone ==
  ASSUME NEW a \in Int, NEW b \in Int, NEW n \in Nat, a <= b
  PROVE  n * a <= n * b
<1>1. n * (b - a) >= 0
  <2> DEFINE c == b - a
  <2>1. c \in Nat
    OBVIOUS
  <2> HIDE DEF c
  <2> QED
    BY <2>1 DEF c
<1> QED
  BY <1>1

\* A product of one sign or the other.
LEMMA SignOfProduct ==
  ASSUME NEW a \in Int, NEW b \in Int
  PROVE  /\ a > 0 /\ b > 0 => a * b > 0
         /\ a < 0 /\ b < 0 => a * b > 0
         /\ a >= 0 /\ b <= 0 => a * b <= 0
         /\ a <= 0 /\ b >= 0 => a * b <= 0
  OBVIOUS

\* A quotient lies between two numbers when the dividend lies between their multiples.
LEMMA DivBetween ==
  ASSUME NEW n \in Int, NEW d \in Nat \ {0}, NEW a \in Int, NEW b \in Int,
         d * a <= n, n <= d * b
  PROVE  a <= n \div d /\ n \div d <= b
<1> DEFINE q == n \div d
<1>1. q \in Int /\ \E r \in 0..(d - 1) : d * q = n - r
  BY DivRounds
<1> HIDE DEF q
<1>2. PICK r \in 0..(d - 1) : d * q = n - r
  BY <1>1
<1>3. ASSUME a > q PROVE FALSE
  <2>1. d * (q + 1) <= d * a
    BY <1>1, <1>3, TimesIsMonotone
  <2>2. d * (q + 1) = d * q + d
    BY <1>1
  <2> QED
    BY <1>1, <1>2, <2>1, <2>2
<1>4. ASSUME q > b PROVE FALSE
  <2>1. d * (b + 1) <= d * q
    BY <1>1, <1>4, TimesIsMonotone
  <2>2. d * (b + 1) = d * b + d
    OBVIOUS
  <2> QED
    BY <1>1, <1>2, <2>1, <2>2
<1> QED
  BY <1>1, <1>3, <1>4 DEF q

-----------------------------------------------------------------------------
(***************************************************************************)
(* The arithmetic of positions.                                            *)
(***************************************************************************)

LEMMA MeanTotals ==
  ASSUME NEW q1 \in Nat, NEW p1 \in Int, NEW q2 \in Nat \ {0}, NEW p2 \in Int,
         NEW q, q = q1 + q2
  PROVE  /\ Mean(q1, p1, q2, p2) \in Int
         /\ \E r \in 0..(q - 1) : q * Mean(q1, p1, q2, p2) = q1 * p1 + q2 * p2 - r
<1> DEFINE n == q1 * p1 + q2 * p2
           d == q1 + q2
<1>1. n \in Int /\ d \in Nat \ {0}
  OBVIOUS
<1>2. Mean(q1, p1, q2, p2) = n \div d
  BY DEF Mean
<1> HIDE DEF n, d
<1>3. n \div d \in Int /\ \E r \in 0..(d - 1) : d * (n \div d) = n - r
  BY <1>1, DivRounds
<1> QED
  BY <1>2, <1>3 DEF n, d

LEMMA MeanBetween ==
  ASSUME NEW q1 \in Nat, NEW p1 \in Int, NEW q2 \in Nat \ {0}, NEW p2 \in Int,
         NEW lo \in Int, NEW hi \in Int,
         q1 > 0 => lo <= p1 /\ p1 <= hi, lo <= p2, p2 <= hi
  PROVE  lo <= Mean(q1, p1, q2, p2) /\ Mean(q1, p1, q2, p2) <= hi
<1> DEFINE n == q1 * p1 + q2 * p2
           d == q1 + q2
<1>1. n \in Int /\ d \in Nat \ {0}
  OBVIOUS
<1>2. q2 * lo <= q2 * p2 /\ q2 * p2 <= q2 * hi
  BY TimesIsMonotone
<1>3. q1 * lo <= q1 * p1 /\ q1 * p1 <= q1 * hi
  <2>1. CASE q1 = 0
    BY <2>1
  <2>2. CASE q1 > 0
    BY <2>2, TimesIsMonotone
  <2> QED
    BY <2>1, <2>2
<1>4. d * lo = q1 * lo + q2 * lo /\ d * hi = q1 * hi + q2 * hi
  OBVIOUS
<1>5. d * lo <= n /\ n <= d * hi
  <2> DEFINE a == q1 * lo
             b == q2 * lo
             x == q1 * p1
             y == q2 * p2
             u == q1 * hi
             v == q2 * hi
  <2>1. a \in Int /\ b \in Int /\ x \in Int /\ y \in Int /\ u \in Int /\ v \in Int
    OBVIOUS
  <2>2. a <= x /\ b <= y /\ x <= u /\ y <= v
    BY <1>2, <1>3
  <2> HIDE DEF a, b, x, y, u, v
  <2>3. a + b <= x + y /\ x + y <= u + v
    BY <2>1, <2>2
  <2> QED
    BY <1>4, <2>3 DEF a, b, x, y, u, v
<1> HIDE DEF n, d
<1>6. lo <= n \div d /\ n \div d <= hi
  BY <1>1, <1>5, DivBetween
<1> QED
  BY <1>6 DEF Mean, n, d

\* What the profit of c units at a difference x in price rounds away.
LEMMA ProfitRounds ==
  ASSUME NEW c \in Int, NEW x \in Int
  PROVE  /\ MulDiv(c, x, Scale) \in Int
         /\ \E r \in 0..(Scale - 1) : MulDiv(c, x, Scale) * Scale = c * x - r
<1> DEFINE n == c * x
<1>1. n \in Int /\ Scale \in Nat \ {0}
  BY ScaleAssumption
<1> HIDE DEF n
<1>2. n \div Scale \in Int /\ \E r \in 0..(Scale - 1) : Scale * (n \div Scale) = n - r
  BY <1>1, DivRounds
<1>3. Scale * (n \div Scale) = (n \div Scale) * Scale
  BY <1>1, <1>2
<1> QED
  BY <1>2, <1>3 DEF MulDiv, n

-----------------------------------------------------------------------------
(***************************************************************************)
(* The position manager.                                                   *)
(***************************************************************************)

PositionRecord == [qty : Int, avg : Int, realized : Int]

PositionTypes ==
  /\ pos \in PositionRecord
  /\ cash \in Int /\ rounding \in Nat /\ low \in Int /\ high \in Int

\* How far the books are apart.
Deviation == pos.realized * Scale - (cash + pos.qty * pos.avg)

PositionInv ==
  /\ PositionTypes
  /\ AvgInRange
  /\ Abs(Deviation) <= rounding

LEMMA PositionFields ==
  ASSUME PositionTypes
  PROVE  /\ pos.qty \in Int /\ pos.avg \in Int /\ pos.realized \in Int
         /\ pos.realized * Scale \in Int /\ pos.qty * pos.avg \in Int
         /\ Deviation \in Int /\ Scale \in Nat \ {0}
<1>1. pos.qty \in Int /\ pos.avg \in Int /\ pos.realized \in Int /\ cash \in Int
  BY DEF PositionTypes, PositionRecord
<1>2. Scale \in Nat \ {0}
  BY ScaleAssumption
<1>3. pos.realized * Scale \in Int /\ pos.qty * pos.avg \in Int
  BY <1>1, <1>2
<1> QED
  BY <1>1, <1>2, <1>3 DEF Deviation

\* A trade the position manager accepts.
Accepted(q, p, side) == AddPosition(q, p, side) /\ q \in Qty /\ p \in Price /\ side \in Side

LEMMA AcceptedTrade ==
  ASSUME NEW q, NEW p, NEW side, Accepted(q, p, side), PositionTypes
  PROVE  /\ q \in Nat \ {0} /\ p \in Nat \ {0} /\ side \in {"buy", "sell"}
         /\ side = "sell" /\ pos.qty > 0 => q <= pos.qty
         /\ pos' = Traded(pos, q, p, side)
         /\ cash' = IF side = "buy" THEN cash - q * p ELSE cash + q * p
<1>1. ~ Refused(pos, q, p, side) /\ q \in Nat /\ p \in Nat /\ pos.qty \in Int
  BY PriceAssumption, QtyAssumption, PositionFields DEF Accepted, AddPosition
<1>2. q > 0 /\ p > 0 /\ ~ (side = "sell" /\ pos.qty > 0 /\ q > pos.qty)
  BY <1>1 DEF Refused
<1> QED
  BY <1>1, <1>2 DEF Accepted, AddPosition, Side

\* What the history variables make of a trade that leads to the quantity n.
LEMMA HistoryOfTrade ==
  ASSUME NEW q, NEW p, NEW side, Accepted(q, p, side), PositionTypes,
         NEW n \in Int, pos'.qty = n
  PROVE  /\ LET opens == n # 0 /\ n * pos.qty <= 0
                extends == Abs(n) > Abs(pos.qty)
            IN  /\ rounding' = rounding + (IF opens \/ extends THEN Abs(n) ELSE 0)
                                 + (IF side = "buy" /\ pos.qty >= 0 THEN 0 ELSE Scale)
                /\ low' = IF opens \/ (extends /\ p < low) THEN p ELSE low
                /\ high' = IF opens \/ (extends /\ p > high) THEN p ELSE high
<1>1. pos' = Traded(pos, q, p, side)
  BY DEF Accepted, AddPosition
<1>2. Traded(pos, q, p, side).qty = n
  BY <1>1
<1> QED
  BY <1>2 DEF Accepted, AddPosition

LEMMA ApartBy ==
  ASSUME NEW d \in Int, NEW r \in Int, NEW m \in Nat, NEW n \in Nat,
         Abs(d) <= m, Abs(r) <= n - m
  PROVE  Abs(d + r) <= n
  BY DEF Abs

\* The books are no further apart than the rounding allows, after a step that moves
\* them apart by no more than it adds.
LEMMA DeviationGrows ==
  ASSUME PositionInv, NEW r \in Int, Deviation' = Deviation + r,
         rounding' \in Nat, Abs(r) <= rounding' - rounding
  PROVE  Abs(Deviation') <= rounding'
<1>1. Deviation \in Int /\ rounding \in Nat /\ Abs(Deviation) <= rounding
  BY PositionFields DEF PositionInv, PositionTypes
<1>2. Abs(Deviation + r) <= rounding'
  BY <1>1, ApartBy
<1> QED
  BY <1>2

\* A purchase that adds to a long position, or opens one.
LEMMA GrowKeeps ==
  ASSUME PositionInv, NEW q, NEW p, Accepted(q, p, "buy"), pos.qty >= 0
  PROVE  PositionInv'
<1> DEFINE Q == pos.qty
           A == pos.avg
           R == pos.realized
           n == Q + q
           M == Mean(Q, A, q, p)
<1>1. /\ Q \in Nat /\ A \in Int /\ R \in Int /\ PositionTypes /\ cash \in Int
      /\ R * Scale \in Int /\ Q * A \in Int /\ Scale \in Nat \ {0}
  BY PositionFields DEF PositionInv, PositionTypes
<1>2. /\ q \in Nat \ {0} /\ p \in Nat \ {0} /\ cash' = cash - q * p
      /\ pos' = [pos EXCEPT !.qty = n, !.avg = M] /\ pos \in PositionRecord
  <2>1. /\ q \in Nat \ {0} /\ p \in Nat \ {0} /\ cash' = cash - q * p
        /\ pos' = Bought(pos, q, p)
    BY <1>1, AcceptedTrade DEF Traded
  <2>2. Bought(pos, q, p) = [pos EXCEPT !.qty = n, !.avg = M]
    BY DEF Bought
  <2>3. pos \in PositionRecord
    BY <1>1 DEF PositionTypes
  <2> QED
    BY <2>1, <2>2, <2>3
<1>3. M \in Int /\ \E r \in 0..(n - 1) : n * M = Q * A + q * p - r
  <2>1. Q \in Nat /\ A \in Int /\ q \in Nat \ {0} /\ p \in Int /\ n = Q + q
    BY <1>1, <1>2
  <2> HIDE DEF Q, A, n, M
  <2>2. \A q0 : q0 = Q + q => /\ Mean(Q, A, q, p) \in Int
                             /\ \E r \in 0..(q0 - 1) : q0 * Mean(Q, A, q, p) = Q * A + q * p - r
    BY <2>1, MeanTotals
  <2>3. /\ Mean(Q, A, q, p) \in Int
        /\ \E r \in 0..(n - 1) : n * Mean(Q, A, q, p) = Q * A + q * p - r
    BY <2>1, <2>2, Zenon
  <2> QED
    BY <2>3 DEF M
<1>4. n \in Nat /\ n > Q /\ pos'.qty = n /\ pos'.avg = M /\ pos'.realized = R
  <2>1. n \in Nat /\ n > Q
    BY <1>1, <1>2
  <2> HIDE DEF n, M
  <2> QED
    BY <1>2, <2>1 DEF PositionRecord
<1>5. /\ rounding' = rounding + n
      /\ low' = IF Q = 0 \/ p < low THEN p ELSE low
      /\ high' = IF Q = 0 \/ p > high THEN p ELSE high
  <2> DEFINE opens == n # 0 /\ n * Q <= 0
             extends == Abs(n) > Abs(Q)
  <2>1. opens <=> Q = 0
    <3>1. n \in Int /\ n > 0 /\ Q \in Int /\ Q >= 0
      BY <1>1, <1>4
    <3> HIDE DEF n, Q
    <3>2. (Q > 0 => n * Q > 0) /\ (Q = 0 => n * Q = 0)
      BY <3>1, SignOfProduct
    <3> QED
      BY <3>1, <3>2
  <2>2. extends /\ Abs(n) = n
    BY <1>1, <1>4 DEF Abs
  <2>3. /\ rounding' = rounding + (IF opens \/ extends THEN Abs(n) ELSE 0) + 0
        /\ low' = IF opens \/ (extends /\ p < low) THEN p ELSE low
        /\ high' = IF opens \/ (extends /\ p > high) THEN p ELSE high
    BY <1>1, <1>4, HistoryOfTrade
  <2> HIDE DEF opens, extends
  <2>4. n \in Nat /\ rounding \in Nat
    BY <1>1, <1>4 DEF PositionTypes
  <2> QED
    BY <2>1, <2>2, <2>3, <2>4
<1>6. PositionTypes'
  <2>1. q * p \in Int
    BY <1>2
  <2> HIDE DEF Q, A, R, n, M
  <2>2. pos' \in PositionRecord
    <3>1. n \in Int /\ M \in Int
      BY <1>3, <1>4
    <3> QED
      BY <1>2, <3>1 DEF PositionRecord
  <2> QED
    BY <1>1, <1>2, <1>4, <1>5, <2>1, <2>2 DEF PositionTypes
<1>7. AvgInRange'
  <2>1. low' \in Int /\ high' \in Int /\ low \in Int /\ high \in Int
    BY <1>1, <1>6 DEF PositionTypes
  <2>2. low' <= p /\ p <= high' /\ p \in Int
    BY <1>2, <1>5, <2>1
  <2>3. Q > 0 => low' <= A /\ A <= high'
    BY <1>1, <1>2, <1>5, <2>1 DEF PositionInv, AvgInRange
  <2>4. low' <= M /\ M <= high'
    BY <1>1, <1>2, <2>1, <2>2, <2>3, MeanBetween
  <2> QED
    BY <1>4, <2>4 DEF AvgInRange
<1>8. Abs(Deviation') <= rounding'
  <2>1. PICK r \in 0..(n - 1) : n * M = Q * A + q * p - r
    BY <1>3
  <2>2. Deviation' = Deviation + r
    <3> DEFINE x == R * Scale
               y == Q * A
               z == q * p
               w == n * M
    <3>1. Deviation = x - (cash + y) /\ Deviation' = x - (cash' + w)
      BY <1>4 DEF Deviation
    <3>2. x \in Int /\ y \in Int /\ z \in Int /\ cash' = cash - z /\ w = y + z - r
      BY <1>1, <1>2, <2>1
    <3> HIDE DEF x, y, z, w
    <3> QED
      BY <1>1, <3>1, <3>2, <1>4
  <2>3. r \in Int /\ rounding' \in Nat /\ Abs(r) <= rounding' - rounding
    BY <1>1, <1>4, <1>5, <2>1 DEF Abs, PositionTypes
  <2> QED
    BY <2>2, <2>3, DeviationGrows
<1> QED
  BY <1>6, <1>7, <1>8 DEF PositionInv

\* A trade that closes some of a position, or all of it, and leaves no new one: c units
\* change hands at a difference x in price, and the books differ by the division only.
LEMMA CloseKeeps ==
  ASSUME PositionInv, NEW q, NEW p, NEW side, Accepted(q, p, side),
         NEW n \in Int, NEW a \in Int, NEW x \in Int,
         pos' = [qty |-> n, avg |-> a, realized |-> pos.realized + MulDiv(q, x, Scale)],
         n # 0 => a = pos.avg /\ n * pos.qty > 0, Abs(n) < Abs(pos.qty),
         ~ (side = "buy" /\ pos.qty >= 0),
         cash' + n * a = cash + pos.qty * pos.avg + q * x
  PROVE  PositionInv'
<1> DEFINE Q == pos.qty
           R == pos.realized
           g == MulDiv(q, x, Scale)
<1>1. /\ Q \in Int /\ R \in Int /\ PositionTypes /\ cash \in Int /\ rounding \in Nat
      /\ Scale \in Nat \ {0} /\ q \in Nat \ {0} /\ p \in Nat \ {0}
  BY PositionFields, AcceptedTrade DEF PositionInv, PositionTypes
<1>2. g \in Int /\ \E r \in 0..(Scale - 1) : g * Scale = q * x - r
  <2>1. q \in Int
    BY <1>1
  <2> QED
    BY <2>1, ProfitRounds, Zenon
<1> HIDE DEF g
<1>3. pos'.qty = n /\ pos'.avg = a /\ pos'.realized = R + g
  BY DEF g
<1>4. rounding' = rounding + Scale /\ low' = low /\ high' = high
  <2> DEFINE opens == n # 0 /\ n * Q <= 0
             extends == Abs(n) > Abs(Q)
  <2>1. ~ opens /\ ~ extends
    <3>1. ~ opens
      <4>1. n * Q \in Int
        BY <1>1
      <4> QED
        BY <4>1
    <3>2. ~ extends
      BY <1>1 DEF Abs
    <3> QED
      BY <3>1, <3>2
  <2>2. /\ rounding' = rounding + (IF opens \/ extends THEN Abs(n) ELSE 0) + Scale
        /\ low' = IF opens \/ (extends /\ p < low) THEN p ELSE low
        /\ high' = IF opens \/ (extends /\ p > high) THEN p ELSE high
    BY <1>1, <1>3, HistoryOfTrade
  <2> HIDE DEF opens, extends
  <2> QED
    BY <1>1, <2>1, <2>2
<1>5. cash' \in Int
  <2>1. q * p \in Int /\ cash' = IF side = "buy" THEN cash - q * p ELSE cash + q * p
    BY <1>1, AcceptedTrade
  <2> QED
    BY <1>1, <2>1
<1>6. PositionTypes'
  <2>1. R + g \in Int
    BY <1>1, <1>2
  <2>2. pos' \in PositionRecord
    BY <2>1 DEF PositionRecord, g
  <2> QED
    BY <1>1, <1>4, <1>5, <2>2 DEF PositionTypes
<1>7. AvgInRange'
  <2>1. Q # 0
    BY <1>1 DEF Abs
  <2>2. n # 0 => a = pos.avg
    OBVIOUS
  <2> QED
    BY <1>3, <1>4, <2>1, <2>2 DEF PositionInv, AvgInRange
<1>8. Abs(Deviation') <= rounding'
  <2>1. PICK r \in 0..(Scale - 1) : g * Scale = q * x - r
    BY <1>2
  <2>2. Deviation' = Deviation - r
    <3> DEFINE b == cash + Q * pos.avg
               k == R * Scale
               h == g * Scale
               z == q * x
    <3>1. Deviation = k - b
      BY DEF Deviation
    <3>2. Deviation' = (R + g) * Scale - (b + z)
      BY <1>3 DEF Deviation
    <3>3. (R + g) * Scale = k + h
      BY <1>1, <1>2
    <3>4. b \in Int /\ k \in Int /\ h \in Int /\ z \in Int /\ h = z - r
      BY <1>1, <1>2, <2>1, PositionFields
    <3> HIDE DEF b, k, h, z
    <3> QED
      BY <3>1, <3>2, <3>3, <3>4
  <2>3. Deviation \in Int /\ r \in Int /\ Deviation' = Deviation + (-r)
    BY <1>1, <2>1, <2>2, PositionFields
  <2>4. -r \in Int /\ rounding' \in Nat /\ Abs(-r) <= rounding' - rounding
    BY <1>1, <1>4, <2>1 DEF Abs
  <2> QED
    BY <2>3, <2>4, DeviationGrows
<1> QED
  BY <1>6, <1>7, <1>8 DEF PositionInv

\* A purchase that covers some of a short position, or all of it.
LEMMA CoverKeeps ==
  ASSUME PositionInv, NEW q, NEW p, Accepted(q, p, "buy"), pos.qty < 0, q <= -pos.qty
  PROVE  PositionInv'
<1> DEFINE Q == pos.qty
           A == pos.avg
           R == pos.realized
           n == Q + q
           x == A - p
<1>1. /\ Q \in Int /\ A \in Int /\ R \in Int /\ PositionTypes /\ cash \in Int
  BY PositionFields DEF PositionInv, PositionTypes
<1>2. /\ q \in Nat \ {0} /\ p \in Nat \ {0} /\ cash' = cash - q * p
      /\ pos' = Bought(pos, q, p)
  BY <1>1, AcceptedTrade DEF Traded
<1>3. pos' = [qty |-> n, avg |-> A, realized |-> R + MulDiv(q, x, Scale)]
  <2>1. ~ (q > -Q) /\ ~ (Q >= 0)
    BY <1>1, <1>2
  <2> QED
    BY <1>2, <2>1 DEF Bought, Cover
<1>4. n \in Int /\ x \in Int /\ Abs(n) < Abs(Q) /\ (n # 0 => n < 0)
  BY <1>1, <1>2 DEF Abs
<1>5. n # 0 => n * Q > 0
  <2> HIDE DEF n, Q
  <2> QED
    BY <1>1, <1>4, SignOfProduct DEF Q
<1>6. cash' + n * A = cash + Q * A + q * x
  BY <1>1, <1>2
<1>7. ~ ("buy" = "buy" /\ Q >= 0)
  BY <1>1
<1> HIDE DEF n, x, A, Q
<1> QED
  BY <1>1, <1>3, <1>4, <1>5, <1>6, <1>7, CloseKeeps DEF A, Q

\* A sale from a long position.
LEMMA ShrinkKeeps ==
  ASSUME PositionInv, NEW q, NEW p, Accepted(q, p, "sell"), pos.qty > 0
  PROVE  PositionInv'
<1> DEFINE Q == pos.qty
           A == pos.avg
           R == pos.realized
           n == Q - q
           a == IF q = Q THEN 0 ELSE A
           x == p - A
<1>1. /\ Q \in Int /\ A \in Int /\ R \in Int /\ PositionTypes /\ cash \in Int
  BY PositionFields DEF PositionInv, PositionTypes
<1>2. /\ q \in Nat \ {0} /\ p \in Nat \ {0} /\ cash' = cash + q * p /\ q <= Q
      /\ pos' = Sold(pos, q, p)
  BY <1>1, AcceptedTrade DEF Traded
<1>3. pos' = [qty |-> n, avg |-> a, realized |-> R + MulDiv(q, x, Scale)]
  BY <1>2 DEF Sold
<1>4. /\ n \in Int /\ x \in Int /\ a \in Int /\ Abs(n) < Abs(Q)
      /\ (n # 0 => n > 0 /\ a = A)
  BY <1>1, <1>2 DEF Abs
<1>5. n # 0 => n * Q > 0
  <2> HIDE DEF n, Q
  <2> QED
    BY <1>1, <1>4, SignOfProduct DEF Q
<1>6. cash' + n * a = cash + Q * A + q * x
  <2>1. CASE q = Q
    <3>1. n = 0 /\ a = 0
      BY <1>1, <2>1
    <3> HIDE DEF n, a
    <3> QED
      BY <1>1, <1>2, <2>1, <3>1
  <2>2. CASE q # Q
    BY <1>1, <1>2, <2>2
  <2> QED
    BY <2>1, <2>2
<1>7. ~ ("sell" = "buy" /\ Q >= 0)
  OBVIOUS
<1> HIDE DEF n, x, a, A, Q
<1> QED
  BY <1>1, <1>3, <1>4, <1>5, <1>6, <1>7, CloseKeeps DEF A, Q

\* A purchase that covers all of a short position and opens a long one.
LEMMA TurnKeeps ==
  ASSUME PositionInv, NEW q, NEW p, Accepted(q, p, "buy"), pos.qty < 0, q > -pos.qty
  PROVE  PositionInv'
<1> DEFINE Q == pos.qty
           A == pos.avg
           R == pos.realized
           n == Q + q
           c == -Q
           x == A - p
           g == MulDiv(c, x, Scale)
<1>1. /\ Q \in Int /\ A \in Int /\ R \in Int /\ PositionTypes /\ cash \in Int
      /\ rounding \in Nat /\ Scale \in Nat \ {0}
  BY PositionFields DEF PositionInv, PositionTypes
<1>2. /\ q \in Nat \ {0} /\ p \in Nat \ {0} /\ cash' = cash - q * p
      /\ pos' = Bought(pos, q, p)
  BY <1>1, AcceptedTrade DEF Traded
<1>3. pos' = [qty |-> n, avg |-> p, realized |-> R + g]
  <2>1. q > -Q /\ ~ (Q >= 0)
    BY <1>1, <1>2
  <2> QED
    BY <1>2, <2>1 DEF Bought, Cover
<1>4. n \in Nat \ {0} /\ c \in Int /\ x \in Int
  BY <1>1, <1>2
<1>5. g \in Int /\ \E r \in 0..(Scale - 1) : g * Scale = c * x - r
  BY <1>4, ProfitRounds
<1> HIDE DEF g
<1>6. pos'.qty = n /\ pos'.avg = p /\ pos'.realized = R + g
  BY <1>3
<1>7. rounding' = rounding + n + Scale /\ low' = p /\ high' = p
  <2> DEFINE opens == n # 0 /\ n * Q <= 0
             extends == Abs(n) > Abs(Q)
  <2>1. opens
    <3>1. n \in Int /\ n >= 0 /\ Q \in Int /\ Q <= 0 /\ n # 0
      BY <1>1, <1>4
    <3> HIDE DEF n, Q
    <3> QED
      BY <3>1, SignOfProduct
  <2>2. Abs(n) = n /\ ~ ("buy" = "buy" /\ Q >= 0)
    BY <1>1, <1>4 DEF Abs
  <2>3. /\ rounding' = rounding + (IF opens \/ extends THEN Abs(n) ELSE 0)
                         + (IF "buy" = "buy" /\ Q >= 0 THEN 0 ELSE Scale)
        /\ low' = IF opens \/ (extends /\ p < low) THEN p ELSE low
        /\ high' = IF opens \/ (extends /\ p > high) THEN p ELSE high
    BY <1>1, <1>4, <1>6, HistoryOfTrade
  <2> HIDE DEF opens, extends
  <2> QED
    BY <2>1, <2>2, <2>3
<1>8. PositionTypes'
  <2>1. q * p \in Int /\ R + g \in Int /\ n \in Int /\ p \in Int
    BY <1>1, <1>2, <1>4, <1>5
  <2> HIDE DEF n
  <2>2. pos' \in PositionRecord
    BY <1>3, <2>1 DEF PositionRecord
  <2> QED
    BY <1>1, <1>2, <1>4, <1>7, <2>1, <2>2 DEF PositionTypes
<1>9. AvgInRange'
  BY <1>2, <1>6, <1>7 DEF AvgInRange
<1>10. Abs(Deviation') <= rounding'
  <2>1. PICK r \in 0..(Scale - 1) : g * Scale = c * x - r
    BY <1>5
  <2>2. Deviation' = Deviation - r
    <3> DEFINE k == R * Scale
               h == g * Scale
               y == Q * A
               z == Q * p
    <3>1. Deviation = k - (cash + y)
      BY DEF Deviation
    <3>2. Deviation' = (R + g) * Scale - (cash' + n * p)
      BY <1>6 DEF Deviation
    <3>3. (R + g) * Scale = k + h /\ h = z - y - r
      BY <1>1, <1>2, <1>5, <2>1
    <3>4. cash' + n * p = cash + z
      BY <1>1, <1>2
    <3>5. k \in Int /\ h \in Int /\ y \in Int /\ z \in Int
      BY <1>1, <1>2, <1>5
    <3> HIDE DEF k, h, y, z, n
    <3> QED
      BY <1>1, <3>1, <3>2, <3>3, <3>4, <3>5
  <2>3. Deviation \in Int /\ r \in Int /\ Deviation' = Deviation + (-r)
    BY <1>1, <2>1, <2>2, PositionFields
  <2>4. -r \in Int /\ rounding' \in Nat /\ Abs(-r) <= rounding' - rounding
    BY <1>1, <1>4, <1>7, <2>1 DEF Abs
  <2> QED
    BY <2>3, <2>4, DeviationGrows
<1> QED
  BY <1>8, <1>9, <1>10 DEF PositionInv

\* A sale that adds to a short position, or opens one.
LEMMA ShortKeeps ==
  ASSUME PositionInv, NEW q, NEW p, Accepted(q, p, "sell"), pos.qty <= 0
  PROVE  PositionInv'
<1> DEFINE Q == pos.qty
           A == pos.avg
           R == pos.realized
           c == -Q
           m == c + q
           n == Q - q
           M == Mean(c, A, q, p)
<1>1. /\ Q \in Int /\ Q <= 0 /\ A \in Int /\ R \in Int /\ PositionTypes /\ cash \in Int
      /\ Scale \in Nat \ {0} /\ rounding \in Nat /\ pos \in PositionRecord
  BY PositionFields DEF PositionInv, PositionTypes
<1>2. /\ q \in Nat \ {0} /\ p \in Nat \ {0} /\ cash' = cash + q * p
      /\ pos' = Sold(pos, q, p)
  BY <1>1, AcceptedTrade DEF Traded
<1>3. pos' = [pos EXCEPT !.qty = n, !.avg = M]
  <2>1. ~ (Q > 0)
    BY <1>1
  <2> QED
    BY <1>2, <2>1 DEF Sold
<1>4. M \in Int /\ \E r \in 0..(m - 1) : m * M = c * A + q * p - r
  <2>1. c \in Nat /\ A \in Int /\ q \in Nat \ {0} /\ p \in Int /\ m = c + q
    BY <1>1, <1>2
  <2> HIDE DEF c, A, m, M
  <2>2. \A q0 : q0 = c + q => /\ Mean(c, A, q, p) \in Int
                             /\ \E r \in 0..(q0 - 1) : q0 * Mean(c, A, q, p) = c * A + q * p - r
    BY <2>1, MeanTotals
  <2>3. /\ Mean(c, A, q, p) \in Int
        /\ \E r \in 0..(m - 1) : m * Mean(c, A, q, p) = c * A + q * p - r
    BY <2>1, <2>2, Zenon
  <2> QED
    BY <2>3 DEF M
<1>5. n \in Int /\ n < Q /\ n < 0 /\ m = -n /\ m \in Nat /\ c \in Nat
  BY <1>1, <1>2
<1>6. pos'.qty = n /\ pos'.avg = M /\ pos'.realized = R
  <2> HIDE DEF n, M
  <2> QED
    BY <1>1, <1>3 DEF PositionRecord
<1>7. /\ rounding' = rounding + m + Scale
      /\ low' = IF Q = 0 \/ p < low THEN p ELSE low
      /\ high' = IF Q = 0 \/ p > high THEN p ELSE high
  <2> DEFINE opens == n # 0 /\ n * Q <= 0
             extends == Abs(n) > Abs(Q)
  <2>1. opens <=> Q = 0
    <3>1. n \in Int /\ n < 0 /\ Q \in Int /\ Q <= 0
      BY <1>1, <1>5
    <3> HIDE DEF n, Q
    <3>2. (Q < 0 => n * Q > 0) /\ (Q = 0 => n * Q = 0)
      BY <3>1, SignOfProduct
    <3> QED
      BY <3>1, <3>2
  <2>2. extends /\ Abs(n) = m
    BY <1>1, <1>5 DEF Abs
  <2>3. /\ rounding' = rounding + (IF opens \/ extends THEN Abs(n) ELSE 0) + Scale
        /\ low' = IF opens \/ (extends /\ p < low) THEN p ELSE low
        /\ high' = IF opens \/ (extends /\ p > high) THEN p ELSE high
    BY <1>1, <1>5, <1>6, HistoryOfTrade
  <2> HIDE DEF opens, extends
  <2> QED
    BY <2>1, <2>2, <2>3
<1>8. PositionTypes'
  <2>1. q * p \in Int /\ n \in Int /\ M \in Int
    BY <1>2, <1>4, <1>5
  <2> HIDE DEF n, M
  <2>2. pos' \in PositionRecord
    BY <1>1, <1>3, <2>1 DEF PositionRecord
  <2> QED
    BY <1>1, <1>2, <1>5, <1>7, <2>1, <2>2 DEF PositionTypes
<1>9. AvgInRange'
  <2>1. low' \in Int /\ high' \in Int /\ low \in Int /\ high \in Int
    BY <1>1, <1>8 DEF PositionTypes
  <2>2. low' <= p /\ p <= high' /\ p \in Int
    BY <1>2, <1>7, <2>1
  <2>3. c > 0 => low' <= A /\ A <= high'
    BY <1>1, <1>2, <1>7, <2>1 DEF PositionInv, AvgInRange
  <2>4. low' <= M /\ M <= high'
    BY <1>1, <1>2, <1>5, <2>1, <2>2, <2>3, MeanBetween
  <2> QED
    BY <1>6, <2>4 DEF AvgInRange
<1>10. Abs(Deviation') <= rounding'
  <2>1. PICK r \in 0..(m - 1) : m * M = c * A + q * p - r
    BY <1>4
  <2>2. Deviation' = Deviation - r
    <3> DEFINE x == R * Scale
               y == Q * A
               z == q * p
               w == n * M
    <3>1. Deviation = x - (cash + y) /\ Deviation' = x - (cash' + w)
      BY <1>6 DEF Deviation
    <3>2. x \in Int /\ y \in Int /\ z \in Int /\ cash' = cash + z
      BY <1>1, <1>2
    <3>3. w = y - z + r
      <4>1. w = -(m * M)
        BY <1>4, <1>5
      <4>2. c * A = -y
        BY <1>1
      <4> HIDE DEF w, y, z, m, c
      <4>3. y \in Int /\ z \in Int /\ r \in Int /\ m * M = -y + z - r
        BY <1>1, <1>2, <1>5, <2>1, <3>2, <4>2 DEF z
      <4> QED
        BY <4>1, <4>3
    <3> HIDE DEF x, y, z, w
    <3> QED
      BY <1>1, <3>1, <3>2, <3>3, <2>1, <1>5
  <2>3. Deviation \in Int /\ r \in Int /\ Deviation' = Deviation + (-r)
    BY <1>1, <1>5, <2>1, <2>2, PositionFields
  <2>4. -r \in Int /\ rounding' \in Nat /\ Abs(-r) <= rounding' - rounding
    BY <1>1, <1>5, <1>7, <2>1 DEF Abs
  <2> QED
    BY <2>3, <2>4, DeviationGrows
<1> QED
  BY <1>8, <1>9, <1>10 DEF PositionInv

LEMMA EmptyPosition ==
  ASSUME pos = NoPosition, cash = 0, rounding = 0, low = 0, high = 0
  PROVE  PositionInv
<1>1. PositionTypes /\ AvgInRange
  BY DEF PositionTypes, PositionRecord, NoPosition, AvgInRange
<1>2. Deviation = 0
  BY ScaleAssumption DEF Deviation, NoPosition
<1> QED
  BY <1>1, <1>2 DEF PositionInv, Abs

LEMMA PositionStays ==
  ASSUME PositionInv, UNCHANGED <<pos, cash, rounding, low, high>> PROVE PositionInv'
  BY DEF PositionInv, PositionTypes, AvgInRange, Deviation

LEMMA ExecuteKeeps ==
  ASSUME PositionInv, NEW t \in Trade, Execute(t) PROVE PositionInv'
<1> DEFINE q == t.qty
           p == t.price
<1>1. Accepted(q, p, t.side) /\ t.side \in {"buy", "sell"}
  BY DEF Execute, Trade, Accepted, Side
<1>2. pos.qty \in Int /\ q \in Int
  <2>1. PositionTypes
    BY DEF PositionInv
  <2> QED
    BY <1>1, <2>1, PositionFields, AcceptedTrade
<1> HIDE DEF q, p
<1>3. CASE t.side = "buy" /\ pos.qty >= 0
  BY <1>1, <1>3, GrowKeeps
<1>4. CASE t.side = "buy" /\ pos.qty < 0 /\ q <= -pos.qty
  BY <1>1, <1>4, CoverKeeps
<1>5. CASE t.side = "buy" /\ pos.qty < 0 /\ q > -pos.qty
  BY <1>1, <1>5, TurnKeeps
<1>6. CASE t.side = "sell" /\ pos.qty > 0
  BY <1>1, <1>6, ShrinkKeeps
<1>7. CASE t.side = "sell" /\ pos.qty <= 0
  BY <1>1, <1>7, ShortKeeps
<1> QED
  BY <1>1, <1>2, <1>3, <1>4, <1>5, <1>6, <1>7

LEMMA ResetKeeps == ASSUME Reset PROVE PositionInv'
<1>1. pos' = NoPosition /\ cash' = 0 /\ rounding' = 0 /\ low' = 0 /\ high' = 0
  BY DEF Reset
<1>2. PositionTypes' /\ AvgInRange'
  BY <1>1 DEF PositionTypes, PositionRecord, NoPosition, AvgInRange
<1>3. Deviation' = 0
  BY <1>1, ScaleAssumption DEF Deviation, NoPosition
<1> QED
  BY <1>1, <1>2, <1>3 DEF PositionInv, Abs

LEMMA NextPosition == PositionInv /\ [ReportNext]_allVars => PositionInv'
<1> SUFFICES ASSUME PositionInv, [ReportNext]_allVars PROVE PositionInv'
  OBVIOUS
<1>1. CASE AddTrade \/ UNCHANGED allVars \/ \E t \in Trade : Refuse(t)
  <2>1. UNCHANGED <<pos, cash, rounding, low, high>>
    BY <1>1 DEF AddTrade, allVars, vars, Refuse, RefusePosition
  <2> QED
    BY <2>1, PositionStays
<1>2. CASE ResetPositions
  BY <1>2, ResetKeeps DEF ResetPositions
<1>3. CASE \E t \in Trade : Execute(t)
  BY <1>3, ExecuteKeeps
<1> QED
  BY <1>1, <1>2, <1>3 DEF ReportNext

LEMMA InitPosition == ReportInit => PositionInv
  BY EmptyPosition DEF ReportInit, Init

\* Whatever is bought, sold short, covered and turned, the average price of a position
\* lies between the lowest and the highest price it was built at.
THEOREM AverageInRange == ReportSpec => []AvgInRange
<1>1. PositionInv => AvgInRange
  BY DEF PositionInv
<1> QED
  BY <1>1, InitPosition, NextPosition, PTL DEF ReportSpec

\* The realized profit and the open position account for all the money that changed
\* hands, up to one unit of the scale for each position closed and one of the quantity
\* for each one opened or added to.
THEOREM MoneyIsAccountedFor == ReportSpec => []MoneyAccountedFor
<1>1. PositionInv => MoneyAccountedFor
  BY DEF PositionInv, Deviation, MoneyAccountedFor
<1> QED
  BY <1>1, InitPosition, NextPosition, PTL DEF ReportSpec

-----------------------------------------------------------------------------
(***************************************************************************)
(* Lots.  A sale of q takes the first q units of them.                     *)
(***************************************************************************)

LotRecord == [qty : Nat \ {0}, price : Nat]
Lots == Seq(LotRecord)

\* What of the first a units is among the first q.
Within(q, a) == IF a <= q THEN a ELSE q

LEMMA SumIsSumOver == ASSUME NEW f PROVE Sum(f) = SumOver(f, DOMAIN f)
  BY DEF Sum, FoldFunction, SumOver

LEMMA LotFields ==
  ASSUME NEW L \in Lots
  PROVE  /\ Len(L) \in Nat /\ DOMAIN L = 1..Len(L)
         /\ \A k \in 1..Len(L) : /\ L[k] \in LotRecord
                                 /\ L[k].qty \in Nat \ {0} /\ L[k].price \in Nat
<1>1. Len(L) \in Nat /\ DOMAIN L = 1..Len(L) /\ \A k \in 1..Len(L) : L[k] \in LotRecord
  BY DEF Lots
<1>2. \A lot \in LotRecord : lot.qty \in Nat \ {0} /\ lot.price \in Nat
  BY DEF LotRecord
<1> QED
  BY <1>1, <1>2

LEMMA AheadSteps ==
  ASSUME NEW L \in Lots
  PROVE  /\ Ahead(L, 1) = 0
         /\ \A k \in 1..(Len(L) + 1) : Ahead(L, k) \in Nat
         /\ \A k \in 1..Len(L) : Ahead(L, k + 1) = Ahead(L, k) + L[k].qty
<1> DEFINE f(n) == [j \in 1..n |-> L[j].qty]
<1>1. \A n \in Nat : Ahead(L, n + 1) = SumOver(f(n), 1..n)
  <2> TAKE n \in Nat
  <2>1. (n + 1) - 1 = n
    OBVIOUS
  <2>2. Ahead(L, n + 1) = Sum(f(n)) /\ DOMAIN f(n) = 1..n
    BY <2>1 DEF Ahead
  <2> HIDE DEF f
  <2> QED
    BY <2>2, SumIsSumOver
<1>2. \A n \in 0..Len(L) : \A j \in 1..n : f(n)[j] = L[j].qty /\ f(n)[j] \in Nat
  BY LotFields
<1> HIDE DEF f
<1>3. Ahead(L, 1) = 0
  <2>1. 1..0 = {} /\ 0 + 1 = 1 /\ 0 \in Nat
    OBVIOUS
  <2> QED
    BY <1>1, <2>1, SumEmpty
<1>4. \A n \in 0..(Len(L) - 1) : Ahead(L, (n + 1) + 1) = Ahead(L, n + 1) + L[n + 1].qty
  <2> TAKE n \in 0..(Len(L) - 1)
  <2>0. Len(L) \in Nat
    BY LotFields
  <2>1. n \in Nat /\ n \in 0..Len(L) /\ n + 1 \in 0..Len(L) /\ n + 1 \in 1..(n + 1)
    BY <2>0
  <2> DEFINE a == f(n)
             b == f(n + 1)
  <2>2. (\A k \in 1..(n + 1) : b[k] \in Int) /\ \A k \in 1..n : a[k] = b[k]
    BY <1>2, <2>1
  <2>3. b[n + 1] = L[n + 1].qty
    BY <1>2, <2>1
  <2>4. Ahead(L, n + 1) = SumOver(a, 1..n) /\ Ahead(L, (n + 1) + 1) = SumOver(b, 1..(n + 1))
    BY <1>1, <2>1
  <2> HIDE DEF a, b
  <2>5. SumOver(b, 1..(n + 1)) = SumOver(a, 1..n) + b[n + 1]
    BY <2>1, <2>2, SumAppend
  <2> QED
    BY <2>3, <2>4, <2>5
<1>5. \A k \in 1..Len(L) : Ahead(L, k + 1) = Ahead(L, k) + L[k].qty
  <2> TAKE k \in 1..Len(L)
  <2>1. k - 1 \in 0..(Len(L) - 1) /\ (k - 1) + 1 = k
    BY LotFields
  <2> QED
    BY <1>4, <2>1
<1> DEFINE F == {n \in 0..Len(L) : Ahead(L, n + 1) \in Nat}
<1>6. 0 \in F
  BY <1>3, LotFields
<1>7. \A n \in 0..(Len(L) - 1) : n \in F => n + 1 \in F
  <2> TAKE n \in 0..(Len(L) - 1)
  <2>1. n + 1 \in 1..Len(L) /\ L[n + 1].qty \in Nat
    BY LotFields
  <2> QED
    BY <1>4, <2>1
<1> HIDE DEF F
<1>8. \A n \in 0..Len(L) : n \in F
  BY <1>6, <1>7, LotFields, IntervalInduction
<1>9. \A k \in 1..(Len(L) + 1) : Ahead(L, k) \in Nat
  <2> TAKE k \in 1..(Len(L) + 1)
  <2>1. k - 1 \in 0..Len(L) /\ (k - 1) + 1 = k
    BY LotFields
  <2> QED
    BY <1>8, <2>1 DEF F
<1> QED
  BY <1>3, <1>5, <1>9

LEMMA AheadGrows ==
  ASSUME NEW L \in Lots
  PROVE  \A i, j \in 1..(Len(L) + 1) : i < j => Ahead(L, i) < Ahead(L, j)
<1> DEFINE F == {n \in 0..Len(L) : \A i \in 1..n : Ahead(L, i) < Ahead(L, n + 1)}
<1>1. 0 \in F
  BY LotFields
<1>2. \A n \in 0..(Len(L) - 1) : n \in F => n + 1 \in F
  <2> SUFFICES ASSUME NEW n \in 0..(Len(L) - 1), \A i \in 1..n : Ahead(L, i) < Ahead(L, n + 1)
               PROVE  \A i \in 1..(n + 1) : Ahead(L, i) < Ahead(L, (n + 1) + 1)
    BY LotFields
  <2> TAKE i \in 1..(n + 1)
  <2>1. n + 1 \in 1..Len(L) /\ i \in 1..(Len(L) + 1) /\ n + 1 \in 1..(Len(L) + 1)
    BY LotFields
  <2>2. Ahead(L, (n + 1) + 1) = Ahead(L, n + 1) + L[n + 1].qty /\ L[n + 1].qty \in Nat \ {0}
    BY <2>1, AheadSteps, LotFields
  <2>3. Ahead(L, i) \in Nat /\ Ahead(L, n + 1) \in Nat
    BY <2>1, AheadSteps
  <2>4. i \in 1..n \/ i = n + 1
    OBVIOUS
  <2> QED
    BY <2>2, <2>3, <2>4
<1> HIDE DEF F
<1>3. \A n \in 0..Len(L) : n \in F
  BY <1>1, <1>2, LotFields, IntervalInduction
<1> TAKE i, j \in 1..(Len(L) + 1)
<1>4. j - 1 \in 0..Len(L) /\ (j - 1) + 1 = j /\ (i < j => i \in 1..(j - 1))
  BY LotFields
<1> QED
  BY <1>3, <1>4 DEF F

LEMMA TakenIs ==
  ASSUME NEW L \in Lots, NEW q \in Nat
  PROVE  /\ DOMAIN Taken(L, q) = 1..Len(L)
         /\ \A k \in 1..Len(L) :
              /\ Taken(L, q)[k] \in 0..L[k].qty
              /\ Within(q, Ahead(L, k + 1)) = Within(q, Ahead(L, k)) + Taken(L, q)[k]
              /\ Ahead(L, k + 1) <= q => Taken(L, q)[k] = L[k].qty
              /\ Ahead(L, k) <= q /\ q < Ahead(L, k + 1) => Taken(L, q)[k] = q - Ahead(L, k)
              /\ q < Ahead(L, k) => Taken(L, q)[k] = 0
<1>1. DOMAIN Taken(L, q) = 1..Len(L)
  BY LotFields DEF Taken
<1> SUFFICES ASSUME NEW k \in 1..Len(L)
             PROVE  /\ Taken(L, q)[k] \in 0..L[k].qty
                    /\ Within(q, Ahead(L, k + 1)) = Within(q, Ahead(L, k)) + Taken(L, q)[k]
                    /\ Ahead(L, k + 1) <= q => Taken(L, q)[k] = L[k].qty
                    /\ Ahead(L, k) <= q /\ q < Ahead(L, k + 1) => Taken(L, q)[k] = q - Ahead(L, k)
                    /\ q < Ahead(L, k) => Taken(L, q)[k] = 0
  BY <1>1
<1> DEFINE a == Ahead(L, k)
           b == Ahead(L, k + 1)
           w == L[k].qty
           t == Taken(L, q)[k]
<1>2. a \in Nat /\ b = a + w /\ w \in Nat \ {0}
  <2>1. k \in 1..(Len(L) + 1)
    BY LotFields
  <2> QED
    BY <2>1, AheadSteps, LotFields
<1>3. t = IF q - a <= 0 THEN 0 ELSE IF q - a < w THEN q - a ELSE w
  BY LotFields DEF Taken
<1> HIDE DEF a, b, w, t
<1>4. /\ t \in 0..w
      /\ Within(q, b) = Within(q, a) + t
      /\ b <= q => t = w
      /\ a <= q /\ q < b => t = q - a
      /\ q < a => t = 0
  BY <1>2, <1>3 DEF Within
<1> QED
  BY <1>4 DEF a, b, w, t

LEMMA GoneIs ==
  ASSUME NEW L \in Lots, NEW q \in Nat
  PROVE  /\ Gone(L, q) \in 0..Len(L)
         /\ \A k \in 1..Len(L) : k <= Gone(L, q) <=> Ahead(L, k + 1) <= q
<1> DEFINE Splits(g, m) == \A k \in 1..m : k <= g <=> Ahead(L, k + 1) <= q
           F == {m \in 0..Len(L) : \E g \in 0..m : Splits(g, m)}
<1>1. 0 \in F
  <2>1. 0 \in 0..Len(L) /\ 0 \in 0..0 /\ Splits(0, 0)
    BY LotFields
  <2> QED
    BY <2>1
<1>2. \A m \in 0..(Len(L) - 1) : m \in F => m + 1 \in F
  <2> SUFFICES ASSUME NEW m \in 0..(Len(L) - 1), m \in F PROVE m + 1 \in F
    OBVIOUS
  <2> PICK g \in 0..m : Splits(g, m)
    OBVIOUS
  <2> SUFFICES \E h \in 0..(m + 1) : Splits(h, m + 1)
    <3>1. m + 1 \in 0..Len(L)
      BY LotFields
    <3> QED
      BY <3>1
  <2>1. /\ m + 1 \in 1..Len(L) /\ m + 1 \in 1..(Len(L) + 1) /\ (m + 1) + 1 \in 1..(Len(L) + 1)
        /\ m \in Int /\ g \in Int
    BY LotFields
  <2>2. Ahead(L, m + 1) < Ahead(L, (m + 1) + 1)
    BY <2>1, AheadGrows
  <2>3. Ahead(L, m + 1) \in Nat /\ Ahead(L, (m + 1) + 1) \in Nat
    BY <2>1, AheadSteps
  <2>4. CASE Ahead(L, (m + 1) + 1) <= q
    <3>1. g = m
      <4>1. CASE m = 0
        BY <4>1
      <4>2. CASE m # 0
        <5>1. m \in 1..m /\ Ahead(L, m + 1) <= q
          BY <2>1, <2>2, <2>3, <2>4, <4>2
        <5>2. m <= g
          BY <5>1
        <5> QED
          BY <2>1, <5>2
      <4> QED
        BY <4>1, <4>2
    <3>2. Splits(m + 1, m + 1)
      <4> SUFFICES ASSUME NEW k \in 1..(m + 1) PROVE Ahead(L, k + 1) <= q
        OBVIOUS
      <4>1. k \in 1..m \/ k = m + 1
        BY <2>1
      <4>2. k \in 1..m => k <= g
        BY <3>1
      <4> QED
        BY <2>4, <4>1, <4>2
    <3>3. m + 1 \in 0..(m + 1)
      BY <2>1
    <3> QED
      BY <3>2, <3>3
  <2>5. CASE ~ (Ahead(L, (m + 1) + 1) <= q)
    <3>1. Splits(g, m + 1)
      <4> SUFFICES ASSUME NEW k \in 1..(m + 1) PROVE k <= g <=> Ahead(L, k + 1) <= q
        OBVIOUS
      <4>1. k \in 1..m \/ k = m + 1
        BY <2>1
      <4>2. k = m + 1 => ~ (k <= g)
        BY <2>1
      <4> QED
        BY <2>5, <4>1, <4>2
    <3>2. g \in 0..(m + 1)
      BY <2>1
    <3> QED
      BY <3>1, <3>2
  <2> QED
    BY <2>4, <2>5
<1> HIDE DEF F
<1>3. Len(L) \in F
  <2>1. \A m \in 0..Len(L) : m \in F
    BY <1>1, <1>2, LotFields, IntervalInduction
  <2> QED
    BY <2>1, LotFields
<1>4. \E g \in 0..Len(L) : Splits(g, Len(L))
  BY <1>3 DEF F
<1>5. Gone(L, q) = CHOOSE g \in 0..Len(L) : Splits(g, Len(L))
  BY LotFields DEF Gone
<1> HIDE DEF Splits
<1>6. Gone(L, q) \in 0..Len(L) /\ Splits(Gone(L, q), Len(L))
  BY <1>4, <1>5
<1> QED
  BY <1>6 DEF Splits

\* What a sale leaves: the lots behind those it takes whole, the first of them smaller.
LEMMA ConsumedIs ==
  ASSUME NEW L \in Lots, NEW q \in Nat, q <= Ahead(L, Len(L) + 1), NEW g, g = Gone(L, q),
         NEW M, M = Consumed(L, q)
  PROVE  /\ M \in Lots
         /\ g \in 0..Len(L) /\ Len(M) = Len(L) - g
         /\ \A j \in 1..Len(M) : /\ M[j].price = L[g + j].price
                                 /\ M[j].qty = L[g + j].qty - Taken(L, q)[g + j]
         /\ \A j \in 1..(Len(M) + 1) : Ahead(M, j) = IF j = 1 THEN 0 ELSE Ahead(L, g + j) - q
         /\ g < Len(L) => Ahead(L, g + 1) <= q /\ q < Ahead(L, g + 2)
         /\ g = Len(L) => Ahead(L, g + 1) = q
<1> DEFINE n == Len(L)
           t == Taken(L, q)
           rest == [k \in DOMAIN L |-> [L[k] EXCEPT !.qty = @ - t[k]]]
<1>1. n \in Nat /\ g \in 0..n /\ DOMAIN L = 1..n
  BY LotFields, GoneIs
<1>2. \A k \in 1..n : k <= g <=> Ahead(L, k + 1) <= q
  BY GoneIs
<1>3. /\ Ahead(L, 1) = 0
      /\ \A k \in 1..n : Ahead(L, k + 1) = Ahead(L, k) + L[k].qty
      /\ \A k \in 1..(n + 1) : Ahead(L, k) \in Nat
  BY AheadSteps
<1>4. \A k \in 1..n : /\ t[k] \in 0..L[k].qty
                      /\ Ahead(L, k + 1) <= q => t[k] = L[k].qty
                      /\ Ahead(L, k) <= q /\ q < Ahead(L, k + 1) => t[k] = q - Ahead(L, k)
                      /\ q < Ahead(L, k) => t[k] = 0
  BY TakenIs
<1>5. Ahead(L, g + 1) <= q
  <2>1. CASE g = 0
    <3>1. g + 1 = 1
      BY <2>1
    <3> QED
      BY <1>3, <3>1
  <2>2. CASE g # 0
    <3>1. g \in 1..n /\ g <= g
      BY <1>1, <2>2
    <3> QED
      BY <1>2, <3>1
  <2> QED
    BY <2>1, <2>2
<1>6. g < n => q < Ahead(L, g + 2)
  <2> SUFFICES ASSUME g < n PROVE q < Ahead(L, g + 2)
    OBVIOUS
  <2>1. g + 1 \in 1..n /\ ~ (g + 1 <= g) /\ (g + 1) + 1 = g + 2 /\ g + 2 \in 1..(n + 1)
    BY <1>1
  <2> QED
    BY <1>2, <1>3, <2>1
<1>7. g = n => Ahead(L, g + 1) = q
  <2>1. n + 1 \in 1..(n + 1)
    BY <1>1
  <2> QED
    BY <1>3, <1>5, <2>1
<1>8. \A k \in 1..n : L[k] \in LotRecord /\ L[k].qty \in Nat \ {0} /\ L[k].price \in Nat
  BY LotFields
<1> HIDE DEF t
<1>9. \A k \in 1..n : /\ rest[k].qty = L[k].qty - t[k]
                      /\ rest[k].price = L[k].price
                      /\ rest[k] = [qty |-> L[k].qty - t[k], price |-> L[k].price]
  BY <1>1, <1>8 DEF LotRecord
<1>10. \A k \in (g + 1)..n : L[k].qty - t[k] \in Nat \ {0}
  <2> TAKE k \in (g + 1)..n
  <2>1. k \in 1..n /\ k \in 1..(n + 1) /\ ~ (k <= g)
    BY <1>1
  <2>2. q < Ahead(L, k + 1) /\ Ahead(L, k + 1) = Ahead(L, k) + L[k].qty /\ Ahead(L, k) \in Nat
    <3>1. Ahead(L, k + 1) = Ahead(L, k) + L[k].qty /\ Ahead(L, k) \in Nat /\ L[k].qty \in Nat
      BY <1>3, <1>8, <2>1
    <3>2. ~ (Ahead(L, k + 1) <= q)
      BY <1>2, <2>1
    <3> QED
      BY <3>1, <3>2
  <2>3. L[k].qty \in Nat \ {0} /\ t[k] \in 0..L[k].qty
    BY <1>4, <1>8, <2>1
  <2>4. t[k] = 0 \/ t[k] = q - Ahead(L, k)
    BY <1>4, <2>1, <2>2
  <2> QED
    BY <2>2, <2>3, <2>4
<1>11. M = [j \in 1..(n - g) |-> rest[g + j]]
  <2>1. M = SubSeq(rest, g + 1, n)
    BY DEF Consumed, t
  <2>2. SubSeq(rest, g + 1, n) = [j \in 1..(n - (g + 1) + 1) |-> rest[(g + 1) + j - 1]]
    BY <1>1, SMTT(30) DEF SubSeq
  <2>3. n - (g + 1) + 1 = n - g /\ \A j \in 1..(n - g) : (g + 1) + j - 1 = g + j
    BY <1>1
  <2> HIDE DEF rest, n
  <2> QED
    BY <2>1, <2>2, <2>3
<1>12. \A j \in 1..(n - g) : /\ M[j].price = L[g + j].price
                            /\ M[j].qty = L[g + j].qty - t[g + j]
                            /\ M[j] \in LotRecord
  <2> TAKE j \in 1..(n - g)
  <2>1. g + j \in 1..n /\ g + j \in (g + 1)..n
    BY <1>1
  <2>2. M[j] = rest[g + j]
    BY <1>11
  <2> HIDE DEF rest, n
  <2>3. /\ M[j].price = L[g + j].price /\ M[j].qty = L[g + j].qty - t[g + j]
        /\ M[j] = [qty |-> L[g + j].qty - t[g + j], price |-> L[g + j].price]
    BY <1>9, <2>1, <2>2
  <2>4. L[g + j].qty - t[g + j] \in Nat \ {0} /\ L[g + j].price \in Nat
    BY <1>8, <1>10, <2>1
  <2> QED
    BY <2>3, <2>4 DEF LotRecord
<1>13. M \in Lots /\ Len(M) = n - g
  <2>1. n - g \in Nat
    BY <1>1
  <2> HIDE DEF rest, n
  <2>2. M \in Seq(LotRecord) /\ Len(M) = n - g
    BY <1>11, <1>12, <2>1
  <2> QED
    BY <2>2 DEF Lots
<1> DEFINE F == {m \in 0..(n - g) : Ahead(M, m + 1) = IF m = 0 THEN 0 ELSE Ahead(L, g + (m + 1)) - q}
<1>14. 0 \in F
  <2>1. Ahead(M, 0 + 1) = 0 /\ 0 \in 0..(n - g)
    BY <1>1, <1>13, AheadSteps
  <2> QED
    BY <2>1
<1>15. \A m \in 0..((n - g) - 1) : m \in F => m + 1 \in F
  <2> SUFFICES ASSUME NEW m \in 0..((n - g) - 1), m \in F PROVE m + 1 \in F
    OBVIOUS
  <2>0. n \in Int /\ g \in Int /\ m \in Nat
    BY <1>1
  <2> DEFINE k == g + (m + 1)
  <2>1. /\ m + 1 \in 1..(n - g) /\ m + 1 \in 0..(n - g) /\ k \in 1..n /\ k \in 1..(n + 1)
        /\ g + ((m + 1) + 1) = k + 1 /\ m + 1 # 0
    <3>1. m < n - g /\ g >= 0 /\ g <= n /\ n \in Nat
      BY <1>1
    <3> HIDE DEF n, rest, F
    <3> QED
      BY <2>0, <3>1
  <2>2. Ahead(M, (m + 1) + 1) = Ahead(M, m + 1) + M[m + 1].qty
    BY <1>13, <2>1, AheadSteps
  <2>3. M[m + 1].qty = L[k].qty - t[k] /\ L[k].qty \in Nat /\ t[k] \in Nat
    BY <1>4, <1>8, <1>12, <2>1
  <2>4. Ahead(L, k + 1) = Ahead(L, k) + L[k].qty /\ Ahead(L, k) \in Nat
    BY <1>3, <2>1
  <2>5. Ahead(M, m + 1) = IF m = 0 THEN 0 ELSE Ahead(L, k) - q
    OBVIOUS
  <2>6. Ahead(M, (m + 1) + 1) = Ahead(L, k + 1) - q
    <3>1. CASE m = 0
      <4>1. k = g + 1 /\ g < n /\ k + 1 = g + 2
        BY <2>0, <3>1
      <4> HIDE DEF k
      <4>2. t[k] = q - Ahead(L, k)
        BY <1>4, <1>5, <1>6, <2>1, <4>1
      <4> QED
        BY <2>2, <2>3, <2>4, <2>5, <3>1, <4>2
    <3>2. CASE m # 0
      <4>1. g + 2 <= k /\ g < n /\ g + 2 \in 1..(n + 1)
        BY <2>0, <1>1, <3>2
      <4> HIDE DEF k
      <4>2. q < Ahead(L, k)
        <5>1. Ahead(L, g + 2) <= Ahead(L, k) /\ Ahead(L, g + 2) \in Nat
          <6>1. CASE g + 2 = k
            BY <2>4, <6>1
          <6>2. CASE g + 2 < k
            BY <1>3, <2>1, <2>4, <4>1, <6>2, AheadGrows
          <6> QED
            BY <2>0, <2>1, <4>1, <6>1, <6>2
        <5> QED
          BY <1>6, <2>4, <4>1, <5>1
      <4>3. t[k] = 0
        BY <1>4, <2>1, <4>2
      <4> QED
        BY <2>2, <2>3, <2>4, <2>5, <3>2, <4>3
    <3> QED
      BY <3>1, <3>2
  <2> HIDE DEF k
  <2>7. Ahead(M, (m + 1) + 1) = IF m + 1 = 0 THEN 0 ELSE Ahead(L, g + ((m + 1) + 1)) - q
    BY <2>1, <2>6
  <2> QED
    BY <2>1, <2>7
<1> HIDE DEF F
<1>16. \A m \in 0..(n - g) : m \in F
  <2> DEFINE d == n - g
  <2>1. d \in Nat
    BY <1>1
  <2>2. 0 \in F /\ \A m \in 0..(d - 1) : m \in F => m + 1 \in F
    BY <1>14, <1>15
  <2> HIDE DEF d
  <2>3. \A m \in 0..d : m \in F
    BY <2>1, <2>2, IntervalInduction
  <2> QED
    BY <2>3 DEF d
<1>17. ASSUME NEW j \in 1..(Len(M) + 1)
       PROVE  Ahead(M, j) = IF j = 1 THEN 0 ELSE Ahead(L, g + j) - q
  <2>1. j - 1 \in 0..(n - g) /\ (j - 1) + 1 = j /\ (j = 1 <=> j - 1 = 0)
    BY <1>1, <1>13
  <2>2. Ahead(M, (j - 1) + 1) = IF j - 1 = 0 THEN 0 ELSE Ahead(L, g + ((j - 1) + 1)) - q
    BY <1>16, <2>1 DEF F
  <2> QED
    BY <2>1, <2>2
<1> QED
  BY <1>1, <1>5, <1>6, <1>7, <1>12, <1>13, <1>17 DEF t

\* While a sale does not use up the first lot, both ways of keeping the lots agree.
LEMMA TouchedIsConsumed ==
  ASSUME NEW L \in Lots, L # <<>>, NEW q \in Nat, q < L[1].qty
  PROVE  /\ Touched(L, q) = Consumed(L, q)
         /\ Consumed(L, q) # <<>> /\ Len(Consumed(L, q)) = Len(L)
         /\ Consumed(L, q)[1].qty = L[1].qty - q
<1> DEFINE n == Len(L)
           t == Taken(L, q)
<1>1. n \in Nat /\ DOMAIN L = 1..n /\ 1 \in 1..n /\ 1 \in 1..(n + 1)
  BY LotFields DEF Lots
<1>2. Ahead(L, 1) = 0 /\ Ahead(L, 2) = L[1].qty /\ L[1].qty \in Nat
  <2>1. Ahead(L, 1 + 1) = Ahead(L, 1) + L[1].qty /\ Ahead(L, 1) = 0
    BY <1>1, AheadSteps
  <2> QED
    BY <1>1, <2>1, LotFields
<1>3. \A k \in 2..(n + 1) : q < Ahead(L, k)
  <2> TAKE k \in 2..(n + 1)
  <2>1. Ahead(L, k) \in Nat /\ Ahead(L, 2) <= Ahead(L, k)
    <3>1. k = 2 \/ 2 < k
      OBVIOUS
    <3>2. 2 \in 1..(n + 1) /\ k \in 1..(n + 1)
      BY <1>1
    <3>3. Ahead(L, k) \in Nat
      BY <3>2, AheadSteps
    <3> QED
      BY <1>2, <3>1, <3>2, <3>3, AheadGrows
  <2> QED
    BY <1>2, <2>1
<1>4. Gone(L, q) = 0
  <2>1. Gone(L, q) \in 0..n /\ \A k \in 1..n : k <= Gone(L, q) <=> Ahead(L, k + 1) <= q
    BY GoneIs
  <2>2. ~ (Ahead(L, 1 + 1) <= q)
    BY <1>2
  <2> QED
    BY <1>1, <2>1, <2>2
<1>5. t[1] = q /\ \A k \in 1..n : t[k] < L[k].qty
  <2>1. t[1] = q
    <3>1. Ahead(L, 1) <= q /\ q < Ahead(L, 1 + 1)
      BY <1>2
    <3>2. t[1] = q - Ahead(L, 1)
      BY <1>1, <3>1, TakenIs
    <3> QED
      BY <1>2, <3>2
  <2>2. ASSUME NEW k \in 2..n PROVE t[k] = 0 /\ L[k].qty \in Nat \ {0}
    <3>1. k \in 1..n /\ q < Ahead(L, k)
      BY <1>1, <1>3
    <3> QED
      BY <3>1, TakenIs, LotFields
  <2>3. \A k \in 1..n : k = 1 \/ k \in 2..n
    BY <1>1
  <2> QED
    BY <2>1, <2>2, <2>3
<1> HIDE DEF t
<1>6. Touched(L, q) = [k \in 1..n |-> [L[k] EXCEPT !.qty = @ - t[k]]]
  <2>1. Touched(L, q) = [k \in DOMAIN L |-> IF t[k] < L[k].qty THEN [L[k] EXCEPT !.qty = @ - t[k]] ELSE L[k]]
    BY DEF Touched, t
  <2> QED
    BY <1>1, <1>5, <2>1
<1> DEFINE rest == [k \in 1..n |-> [L[k] EXCEPT !.qty = @ - t[k]]]
<1>7. Consumed(L, q) = rest
  <2>1. Consumed(L, q) = SubSeq(rest, 0 + 1, n)
    BY <1>1, <1>4 DEF Consumed, t
  <2>2. SubSeq(rest, 0 + 1, n) = [j \in 1..n |-> rest[j]]
    <3> HIDE DEF rest
    <3> QED
      BY <1>1 DEF SubSeq
  <2> QED
    BY <2>1, <2>2
<1>8. /\ Consumed(L, q)[1].qty = L[1].qty - q /\ Consumed(L, q) # <<>>
      /\ Len(Consumed(L, q)) = n
  <2>1. L[1] \in LotRecord
    BY <1>1, LotFields
  <2>2. rest[1] = [L[1] EXCEPT !.qty = @ - q]
    BY <1>1, <1>5
  <2>3. rest[1].qty = L[1].qty - q
    BY <2>1, <2>2 DEF LotRecord
  <2>4. DOMAIN rest = 1..n
    OBVIOUS
  <2> HIDE DEF rest
  <2> QED
    BY <1>1, <1>7, <2>3, <2>4
<1> QED
  BY <1>6, <1>7, <1>8

\* The lots after n trades come of those after n - 1.
LEMMA LotsAfterSteps ==
  ASSUME NEW ts, Len(ts) \in Nat, NEW c
  PROVE  /\ LotsAfter(ts, c)[0] = <<>>
         /\ \A n \in 1..Len(ts) :
              LotsAfter(ts, c)[n] = After(LotsAfter(ts, c)[n - 1], ts[n], c)
<1> DEFINE Body(m, f) == [n \in 0..m |-> IF n = 0 THEN <<>> ELSE After(f[n - 1], ts[n], c)]
           F == {m \in 0..Len(ts) : \E f : f = Body(m, f)}
<1>1. 0 \in F
  <2> DEFINE f == [n \in 0..0 |-> <<>>]
  <2>1. f = Body(0, f)
    OBVIOUS
  <2>2. 0 \in 0..Len(ts)
    OBVIOUS
  <2> HIDE DEF f, Body
  <2> QED
    BY <2>1, <2>2
<1>2. \A m \in 0..(Len(ts) - 1) : m \in F => m + 1 \in F
  <2> SUFFICES ASSUME NEW m \in 0..(Len(ts) - 1), NEW f, f = Body(m, f)
               PROVE  m + 1 \in F
    OBVIOUS
  <2> DEFINE g == [n \in 0..(m + 1) |-> IF n = m + 1 THEN After(f[m], ts[n], c) ELSE f[n]]
  <2>1. m \in Nat /\ m + 1 \in 0..Len(ts)
    OBVIOUS
  <2>2. \A n \in 0..m : f[n] = IF n = 0 THEN <<>> ELSE After(f[n - 1], ts[n], c)
    OBVIOUS
  <2>3. \A n \in 0..(m + 1) : g[n] = IF n = 0 THEN <<>> ELSE After(g[n - 1], ts[n], c)
    <3> TAKE n \in 0..(m + 1)
    <3>1. CASE n = m + 1
      <4>1. n # 0 /\ n - 1 = m /\ m \in 0..(m + 1) /\ m # m + 1
        BY <2>1, <3>1
      <4>2. g[n - 1] = f[m] /\ g[n] = After(f[m], ts[n], c)
        BY <3>1, <4>1
      <4> HIDE DEF g
      <4> QED
        BY <4>1, <4>2
    <3>2. CASE n # m + 1
      <4>1. n \in 0..m
        BY <2>1, <3>2
      <4>2. g[n] = f[n]
        BY <3>2
      <4>3. n # 0 => g[n - 1] = f[n - 1]
        <5>1. n # 0 => n - 1 \in 0..(m + 1) /\ n - 1 # m + 1
          BY <2>1, <4>1
        <5> QED
          BY <5>1
      <4> HIDE DEF g
      <4> QED
        BY <2>2, <4>1, <4>2, <4>3
    <3> QED
      BY <3>1, <3>2
  <2>4. g = Body(m + 1, g)
    <3> DEFINE h == Body(m + 1, g)
    <3>1. h = [n \in 0..(m + 1) |-> g[n]]
      BY <2>3
    <3>2. g = [n \in 0..(m + 1) |-> g[n]]
      OBVIOUS
    <3> QED
      BY <3>1, <3>2
  <2> HIDE DEF g, Body
  <2> QED
    BY <2>1, <2>4
<1> HIDE DEF F
<1>3. Len(ts) \in F
  <2>1. \A m \in 0..Len(ts) : m \in F
    BY <1>1, <1>2, IntervalInduction
  <2> QED
    BY <2>1
<1>4. \E f : f = Body(Len(ts), f)
  BY <1>3 DEF F
<1>5. LotsAfter(ts, c) = CHOOSE f : f = Body(Len(ts), f)
  BY DEF LotsAfter
<1> DEFINE lots == LotsAfter(ts, c)
<1>6. lots = Body(Len(ts), lots)
  <2> HIDE DEF Body
  <2> QED
    BY <1>4, <1>5
<1> HIDE DEF lots
<1>7. lots[0] = <<>> /\ \A n \in 1..Len(ts) : lots[n] = After(lots[n - 1], ts[n], c)
  BY <1>6
<1> QED
  BY <1>7 DEF lots

-----------------------------------------------------------------------------
(***************************************************************************)
(* The units bought and sold by the trades the report has.                 *)
(***************************************************************************)

TradeRecord == [side : Side, qty : Nat \ {0}, price : Nat \ {0}]

\* The position manager has refused every other trade.
Recorded == trades \in Seq(TradeRecord)

\* Nothing was sold that was not held.
Covered == \A n \in DOMAIN trades : Units("sell", n) <= Units("buy", n)

LEMMA TradeFields ==
  ASSUME Recorded
  PROVE  /\ Len(trades) \in Nat /\ DOMAIN trades = 1..Len(trades)
         /\ \A n \in 1..Len(trades) :
              /\ trades[n] \in TradeRecord /\ trades[n].side \in {"buy", "sell"}
              /\ trades[n].qty \in Nat \ {0} /\ trades[n].price \in Nat \ {0}
              /\ Lot(trades[n]) \in LotRecord
              /\ Lot(trades[n]).qty = trades[n].qty /\ Lot(trades[n]).price = trades[n].price
<1>1. /\ Len(trades) \in Nat /\ DOMAIN trades = 1..Len(trades)
      /\ \A n \in 1..Len(trades) : trades[n] \in TradeRecord
  BY DEF Recorded
<1>2. \A t \in TradeRecord : /\ t.side \in {"buy", "sell"}
                            /\ t.qty \in Nat \ {0} /\ t.price \in Nat \ {0}
  BY DEF TradeRecord, Side
<1>3. \A t \in TradeRecord : /\ Lot(t) \in LotRecord
                            /\ Lot(t).qty = t.qty /\ Lot(t).price = t.price
  BY <1>2 DEF Lot, LotRecord
<1> QED
  BY <1>1, <1>2, <1>3

LEMMA UnitsSteps ==
  ASSUME Recorded, NEW side
  PROVE  /\ Units(side, 0) = 0
         /\ \A n \in 0..Len(trades) : Units(side, n) \in Nat
         /\ \A n \in 1..Len(trades) :
              Units(side, n) = Units(side, n - 1)
                               + (IF trades[n].side = side THEN trades[n].qty ELSE 0)
<1> DEFINE f(n) == [k \in 1..n |-> IF trades[k].side = side THEN trades[k].qty ELSE 0]
           T == Len(trades)
<1>0. T \in Nat
  BY TradeFields
<1>1. \A n \in Nat : Units(side, n) = SumOver(f(n), 1..n)
  <2> TAKE n \in Nat
  <2>1. Units(side, n) = Sum(f(n)) /\ DOMAIN f(n) = 1..n
    BY DEF Units
  <2> HIDE DEF f
  <2> QED
    BY <2>1, SumIsSumOver
<1>2. \A n \in 0..T : \A k \in 1..n :
        /\ f(n)[k] = IF trades[k].side = side THEN trades[k].qty ELSE 0
        /\ f(n)[k] \in Nat
  BY TradeFields
<1> HIDE DEF f, T
<1>3. Units(side, 0) = 0
  <2>1. 1..0 = {} /\ 0 \in Nat
    OBVIOUS
  <2> QED
    BY <1>1, <2>1, SumEmpty
<1>4. \A n \in 0..(T - 1) : /\ Units(side, n + 1) = Units(side, n)
                              + (IF trades[n + 1].side = side THEN trades[n + 1].qty ELSE 0)
                           /\ (IF trades[n + 1].side = side THEN trades[n + 1].qty ELSE 0) \in Nat
  <2> TAKE n \in 0..(T - 1)
  <2>1. n \in Nat /\ n \in 0..T /\ n + 1 \in 0..T /\ n + 1 \in 1..(n + 1) /\ n + 1 \in Nat
    BY <1>0
  <2> DEFINE a == f(n)
             b == f(n + 1)
             s == n + 1
  <2>2. (\A k \in 1..(n + 1) : b[k] \in Int) /\ \A k \in 1..n : a[k] = b[k]
    BY <1>2, <2>1
  <2>3. b[s] = (IF trades[s].side = side THEN trades[s].qty ELSE 0) /\ b[s] \in Nat
    BY <1>2, <2>1
  <2>4. Units(side, n) = SumOver(a, 1..n) /\ Units(side, n + 1) = SumOver(b, 1..(n + 1))
    BY <1>1, <2>1
  <2> HIDE DEF a, b
  <2>5. SumOver(b, 1..(n + 1)) = SumOver(a, 1..n) + b[n + 1]
    BY <2>1, <2>2, SumAppend
  <2> QED
    BY <2>3, <2>4, <2>5
<1>5. \A n \in 1..T : Units(side, n) = Units(side, n - 1)
                        + (IF trades[n].side = side THEN trades[n].qty ELSE 0)
  <2> TAKE n \in 1..T
  <2>1. n - 1 \in 0..(T - 1) /\ (n - 1) + 1 = n
    BY <1>0
  <2> QED
    BY <1>4, <2>1
<1> DEFINE F == {n \in 0..T : Units(side, n) \in Nat}
<1>6. 0 \in F
  BY <1>0, <1>3
<1>7. \A n \in 0..(T - 1) : n \in F => n + 1 \in F
  <2> TAKE n \in 0..(T - 1)
  <2>1. n + 1 \in 0..T
    BY <1>0
  <2> QED
    BY <1>4, <2>1
<1> HIDE DEF F
<1>8. \A n \in 0..T : n \in F
  BY <1>0, <1>6, <1>7, IntervalInduction
<1> QED
  BY <1>3, <1>5, <1>8 DEF F, T

LEMMA UnitsGrow ==
  ASSUME Recorded, NEW side
  PROVE  \A i, j \in 0..Len(trades) : i <= j => Units(side, i) <= Units(side, j)
<1> DEFINE T == Len(trades)
           F == {n \in 0..T : \A i \in 0..n : Units(side, i) <= Units(side, n)}
<1>0. T \in Nat
  BY TradeFields
<1>1. /\ \A n \in 0..T : Units(side, n) \in Nat
      /\ \A n \in 1..T : Units(side, n - 1) <= Units(side, n)
  <2>1. \A n \in 0..T : Units(side, n) \in Nat
    BY UnitsSteps
  <2>2. ASSUME NEW n \in 1..T PROVE Units(side, n - 1) <= Units(side, n)
    <3>1. n - 1 \in 0..T /\ trades[n].qty \in Nat
      BY <1>0, TradeFields
    <3>2. Units(side, n) = Units(side, n - 1)
                           + (IF trades[n].side = side THEN trades[n].qty ELSE 0)
      BY UnitsSteps
    <3> QED
      BY <2>1, <3>1, <3>2
  <2> QED
    BY <2>1, <2>2
<1> HIDE DEF T
<1>2. 0 \in F
  BY <1>0, <1>1
<1>3. \A n \in 0..(T - 1) : n \in F => n + 1 \in F
  <2> SUFFICES ASSUME NEW n \in 0..(T - 1), \A i \in 0..n : Units(side, i) <= Units(side, n)
               PROVE  \A i \in 0..(n + 1) : Units(side, i) <= Units(side, n + 1)
    BY <1>0
  <2> TAKE i \in 0..(n + 1)
  <2>1. n + 1 \in 1..T /\ (n + 1) - 1 = n /\ n \in 0..T /\ n + 1 \in 0..T /\ i \in 0..T
    BY <1>0
  <2>2. Units(side, n) <= Units(side, n + 1)
    BY <1>1, <2>1
  <2>3. i \in 0..n \/ i = n + 1
    OBVIOUS
  <2>4. Units(side, i) \in Nat /\ Units(side, n) \in Nat /\ Units(side, n + 1) \in Nat
    BY <1>1, <2>1
  <2> QED
    BY <2>2, <2>3, <2>4
<1> HIDE DEF F
<1>4. \A n \in 0..T : n \in F
  BY <1>0, <1>2, <1>3, IntervalInduction
<1> TAKE i, j \in 0..Len(trades)
<1>5. i <= j => i \in 0..j /\ j \in 0..T
  BY DEF T
<1> QED
  BY <1>4, <1>5 DEF F

\* The price of a unit is that of the purchase it came with.
LEMMA UnitPriceIs ==
  ASSUME Recorded, NEW n \in 1..Len(trades), NEW k \in Int,
         Units("buy", n - 1) < k, k <= Units("buy", n)
  PROVE  UnitPrice(k) = trades[n].price
<1> DEFINE Holds(m) == Units("buy", m - 1) < k /\ k <= Units("buy", m)
<1>1. DOMAIN trades = 1..Len(trades) /\ Len(trades) \in Nat
  BY TradeFields
<1>2. ASSUME NEW m \in 1..Len(trades), Holds(m) PROVE m = n
  <2>1. m - 1 \in 0..Len(trades) /\ n - 1 \in 0..Len(trades) /\ m \in 0..Len(trades) /\ n \in 0..Len(trades)
    BY <1>1
  <2>2. /\ Units("buy", m - 1) \in Nat /\ Units("buy", n - 1) \in Nat
        /\ Units("buy", m) \in Nat /\ Units("buy", n) \in Nat
    BY <2>1, UnitsSteps
  <2>3. CASE m < n
    <3>1. m <= n - 1
      BY <1>1, <2>3
    <3>2. Units("buy", m) <= Units("buy", n - 1)
      BY <2>1, <3>1, UnitsGrow
    <3> QED
      BY <1>2, <2>2, <3>2
  <2>4. CASE n < m
    <3>1. n <= m - 1
      BY <1>1, <2>4
    <3>2. Units("buy", n) <= Units("buy", m - 1)
      BY <2>1, <3>1, UnitsGrow
    <3> QED
      BY <1>2, <2>2, <3>2
  <2> QED
    BY <2>3, <2>4
<1>3. UnitPrice(k) = trades[CHOOSE m \in 1..Len(trades) : Holds(m)].price
  BY <1>1 DEF UnitPrice
<1>4. Holds(n)
  OBVIOUS
<1> HIDE DEF Holds
<1>5. (CHOOSE m \in 1..Len(trades) : Holds(m)) = n
  BY <1>2, <1>4
<1> QED
  BY <1>3, <1>5

-----------------------------------------------------------------------------
(***************************************************************************)
(* The lots after n trades are the units bought and not sold yet, in the   *)
(* order they were bought in and at the prices they were bought at.        *)
(***************************************************************************)

\* The u-th unit in the lots L is the one that comes u-th after those sold.
Prices(n, L) ==
  \A k \in 1..Len(L) : \A u \in (Ahead(L, k) + 1)..Ahead(L, k + 1) :
    UnitPrice(Units("sell", n) + u) = L[k].price

Follows(n, L) ==
  /\ L \in Lots
  /\ Ahead(L, Len(L) + 1) = Units("buy", n) - Units("sell", n)
  /\ Prices(n, L)

LEMMA BuyFollows ==
  ASSUME Recorded, NEW n \in 1..Len(trades), trades[n].side = "buy",
         NEW L, Follows(n - 1, L)
  PROVE  Follows(n, Append(L, Lot(trades[n])))
<1> DEFINE m == Len(L)
           lot == Lot(trades[n])
           M == Append(L, lot)
           b == Units("buy", n - 1)
           s == Units("sell", n - 1)
           w == trades[n].qty
<1>1. /\ lot \in LotRecord /\ lot.qty = w /\ lot.price = trades[n].price /\ w \in Nat \ {0}
      /\ n - 1 \in 0..Len(trades) /\ n \in 0..Len(trades)
  BY TradeFields
<1>2. b \in Nat /\ s \in Nat /\ Units("buy", n) = b + w /\ Units("sell", n) = s
  <2>1. b \in Nat /\ s \in Nat
    BY <1>1, UnitsSteps
  <2>2. Units("buy", n) = b + w
    BY UnitsSteps
  <2>3. Units("sell", n) = s + 0
    BY UnitsSteps
  <2> QED
    BY <2>1, <2>2, <2>3
<1>3. L \in Lots /\ m \in Nat /\ Ahead(L, m + 1) = b - s /\ Prices(n - 1, L)
  BY LotFields DEF Follows
<1>4. /\ M \in Lots /\ Len(M) = m + 1 /\ M[m + 1] = lot
      /\ \A k \in 1..m : M[k] = L[k]
  <2>1. L \in Seq(LotRecord)
    BY <1>3 DEF Lots
  <2> HIDE DEF lot
  <2>2. M \in Seq(LotRecord) /\ Len(M) = m + 1 /\ M[m + 1] = lot /\ \A k \in 1..m : M[k] = L[k]
    BY <1>1, <2>1
  <2> QED
    BY <2>2 DEF Lots
<1>5. \A k \in 1..(m + 1) : Ahead(M, k) = Ahead(L, k)
  <2> TAKE k \in 1..(m + 1)
  <2>1. \A j \in 1..(k - 1) : M[j].qty = L[j].qty
    BY <1>3, <1>4
  <2> HIDE DEF M, m
  <2>2. [j \in 1..(k - 1) |-> M[j].qty] = [j \in 1..(k - 1) |-> L[j].qty]
    BY <2>1
  <2> QED
    BY <2>2 DEF Ahead
<1> HIDE DEF M, m, lot, b, s, w
<1>6. Ahead(M, (m + 1) + 1) = (b - s) + w
  <2>1. m + 1 \in 1..(m + 1)
    BY <1>3
  <2>2. Ahead(M, (m + 1) + 1) = Ahead(M, m + 1) + M[m + 1].qty
    BY <1>4, <2>1, AheadSteps
  <2> QED
    BY <1>1, <1>3, <1>4, <1>5, <2>1, <2>2
<1>7. Prices(n, M)
  <2> SUFFICES ASSUME NEW k \in 1..Len(M), NEW u \in (Ahead(M, k) + 1)..Ahead(M, k + 1)
               PROVE  UnitPrice(Units("sell", n) + u) = M[k].price
    BY DEF Prices
  <2>1. CASE k \in 1..m
    <3>1. k \in 1..(m + 1) /\ k + 1 \in 1..(m + 1)
      BY <1>3, <2>1
    <3>2. u \in (Ahead(L, k) + 1)..Ahead(L, k + 1)
      BY <1>5, <3>1
    <3>3. UnitPrice(Units("sell", n - 1) + u) = L[k].price
      BY <1>3, <2>1, <3>2 DEF Prices, m
    <3> QED
      BY <1>2, <1>4, <2>1, <3>3 DEF s
  <2>2. CASE k = m + 1
    <3>1. Ahead(M, k) = b - s /\ Ahead(M, k + 1) = (b - s) + w
      <4>1. m + 1 \in 1..(m + 1)
        BY <1>3
      <4> QED
        BY <1>3, <1>5, <1>6, <2>2, <4>1
    <3>2. u \in Int /\ b - s < u /\ u <= (b - s) + w
      BY <1>1, <1>2, <3>1
    <3> DEFINE v == s + u
    <3>3. v \in Int /\ Units("buy", n - 1) < v /\ v <= Units("buy", n)
      <4>1. v \in Int /\ b < v /\ v <= b + w
        BY <1>1, <1>2, <3>2
      <4> QED
        BY <1>2, <4>1 DEF b
    <3> HIDE DEF v
    <3>4. UnitPrice(v) = trades[n].price
      BY <3>3, UnitPriceIs
    <3> QED
      BY <1>1, <1>2, <1>4, <2>2, <3>4 DEF v
  <2>3. k \in 1..m \/ k = m + 1
    BY <1>3, <1>4
  <2> QED
    BY <2>1, <2>2, <2>3
<1> QED
  BY <1>1, <1>2, <1>4, <1>6, <1>7 DEF Follows, M, lot

LEMMA SaleFollows ==
  ASSUME Recorded, Covered, NEW n \in 1..Len(trades), trades[n].side = "sell",
         NEW L, Follows(n - 1, L)
  PROVE  Follows(n, Consumed(L, trades[n].qty))
<1> DEFINE q == trades[n].qty
           M == Consumed(L, q)
           g == Gone(L, q)
           b == Units("buy", n - 1)
           s == Units("sell", n - 1)
           m == Len(L)
<1>1. /\ q \in Nat \ {0} /\ n - 1 \in 0..Len(trades) /\ n \in 0..Len(trades)
      /\ n \in DOMAIN trades
  BY TradeFields
<1>2. b \in Nat /\ s \in Nat /\ Units("buy", n) = b /\ Units("sell", n) = s + q
  <2>1. b \in Nat /\ s \in Nat
    BY <1>1, UnitsSteps
  <2>2. Units("buy", n) = b + 0
    BY UnitsSteps
  <2>3. Units("sell", n) = s + q
    BY UnitsSteps
  <2> QED
    BY <2>1, <2>2, <2>3
<1>3. L \in Lots /\ m \in Nat /\ Ahead(L, m + 1) = b - s /\ Prices(n - 1, L)
  BY LotFields DEF Follows
<1>4. q <= b - s
  <2>1. Units("sell", n) <= Units("buy", n)
    BY <1>1 DEF Covered
  <2> QED
    BY <1>1, <1>2, <2>1
<1> HIDE DEF q, b, s
<1>5. /\ M \in Lots
      /\ g \in 0..m /\ Len(M) = m - g
      /\ \A j \in 1..Len(M) : M[j].price = L[g + j].price
      /\ \A j \in 1..(Len(M) + 1) : Ahead(M, j) = IF j = 1 THEN 0 ELSE Ahead(L, g + j) - q
      /\ g < m => Ahead(L, g + 1) <= q
      /\ g = m => Ahead(L, g + 1) = q
  <2>1. q \in Nat /\ q <= Ahead(L, Len(L) + 1)
    BY <1>1, <1>3, <1>4
  <2> QED
    BY <1>3, <2>1, ConsumedIs
<1>6. \A k \in 1..(m + 1) : Ahead(L, k) \in Nat
  BY <1>3, AheadSteps
<1> HIDE DEF M, g, m
<1>7. Ahead(M, Len(M) + 1) = b - (s + q)
  <2>1. CASE g = m
    <3>1. Len(M) + 1 = 1 /\ m + 1 = g + 1 /\ 1 \in 1..(Len(M) + 1)
      BY <1>3, <1>5, <2>1
    <3>2. Ahead(M, 1) = 0
      BY <1>5, <3>1
    <3> QED
      BY <1>1, <1>2, <1>3, <1>5, <2>1, <3>1, <3>2
  <2>2. CASE g # m
    <3>1. Len(M) + 1 # 1 /\ g + (Len(M) + 1) = m + 1 /\ Len(M) + 1 \in 1..(Len(M) + 1)
      BY <1>3, <1>5, <2>2
    <3>2. Ahead(M, Len(M) + 1) = Ahead(L, m + 1) - q
      BY <1>5, <3>1
    <3> QED
      BY <1>1, <1>2, <1>3, <3>2
  <2> QED
    BY <2>1, <2>2
<1>8. Prices(n, M)
  <2> SUFFICES ASSUME NEW j \in 1..Len(M), NEW u \in (Ahead(M, j) + 1)..Ahead(M, j + 1)
               PROVE  UnitPrice(Units("sell", n) + u) = M[j].price
    BY DEF Prices
  <2> DEFINE k == g + j
             v == q + u
  <2>1. /\ k \in 1..m /\ k \in 1..(m + 1) /\ k + 1 \in 1..(m + 1) /\ g + (j + 1) = k + 1
        /\ j \in 1..(Len(M) + 1) /\ j + 1 \in 1..(Len(M) + 1) /\ j + 1 # 1 /\ g < m
        /\ j = 1 => k = g + 1
    BY <1>3, <1>5
  <2>2. Ahead(M, j + 1) = Ahead(L, k + 1) - q
    <3> HIDE DEF k
    <3> QED
      BY <1>5, <2>1
  <2>3. Ahead(M, j) = IF j = 1 THEN 0 ELSE Ahead(L, k) - q
    BY <1>5, <2>1
  <2> HIDE DEF k
  <2>4. v \in (Ahead(L, k) + 1)..Ahead(L, k + 1)
    <3>1. Ahead(L, k) \in Nat /\ Ahead(L, k + 1) \in Nat
      BY <1>6, <2>1
    <3>2. u \in Int /\ Ahead(M, j) < u /\ u <= Ahead(M, j + 1)
      BY <1>1, <2>2, <2>3, <3>1
    <3>3. Ahead(L, k) <= q + Ahead(M, j)
      <4>1. CASE j = 1
        <5>1. k = g + 1 /\ Ahead(M, j) = 0 /\ Ahead(L, g + 1) <= q
          BY <1>5, <2>1, <2>3, <4>1
        <5> QED
          BY <1>1, <3>1, <5>1
      <4>2. CASE j # 1
        BY <1>1, <2>3, <3>1, <4>2
      <4> QED
        BY <4>1, <4>2
    <3>4. Ahead(M, j) \in Int
      BY <1>1, <2>3, <3>1
    <3> QED
      BY <1>1, <2>2, <3>1, <3>2, <3>3, <3>4, SMTT(30)
  <2>5. UnitPrice(Units("sell", n - 1) + v) = L[k].price
    BY <1>3, <2>1, <2>4 DEF Prices, m
  <2>6. Units("sell", n - 1) + v = Units("sell", n) + u
    <3>1. u \in Int
      OBVIOUS
    <3>2. s + (q + u) = (s + q) + u
      BY <1>1, <1>2, <3>1
    <3> QED
      BY <1>2, <3>2 DEF s
  <2>7. M[j].price = L[k].price
    BY <1>5 DEF k
  <2> QED
    BY <2>5, <2>6, <2>7
<1> QED
  BY <1>2, <1>5, <1>7, <1>8 DEF Follows, M, q

LEMMA NoLotsFollow ==
  ASSUME Recorded PROVE Follows(0, <<>>)
<1>1. <<>> \in Lots /\ Len(<<>>) = 0
  BY DEF Lots
<1>2. Ahead(<<>>, Len(<<>>) + 1) = 0
  BY <1>1, AheadSteps
<1>3. Units("buy", 0) - Units("sell", 0) = 0
  <2>1. Units("buy", 0) = 0 /\ Units("sell", 0) = 0
    BY UnitsSteps
  <2> QED
    BY <2>1
<1>4. Prices(0, <<>>)
  BY <1>1 DEF Prices
<1> QED
  BY <1>1, <1>2, <1>3, <1>4 DEF Follows

\* The lots getAvgCostForTrade keeps.
LEMMA ConsumedLotsFollow ==
  ASSUME Recorded, Covered
  PROVE  \A n \in 0..Len(trades) : Follows(n, LotsAfter(trades, TRUE)[n])
<1> DEFINE lots == LotsAfter(trades, TRUE)
           F == {n \in 0..Len(trades) : Follows(n, lots[n])}
<1>1. Len(trades) \in Nat
  BY TradeFields
<1>2. lots[0] = <<>> /\ \A n \in 1..Len(trades) : lots[n] = After(lots[n - 1], trades[n], TRUE)
  BY <1>1, LotsAfterSteps
<1> HIDE DEF lots
<1>3. 0 \in F
  BY <1>1, <1>2, NoLotsFollow
<1>4. \A n \in 0..(Len(trades) - 1) : n \in F => n + 1 \in F
  <2> SUFFICES ASSUME NEW m \in 0..(Len(trades) - 1), Follows(m, lots[m])
               PROVE  m + 1 \in F
    OBVIOUS
  <2> DEFINE n == m + 1
             L == lots[m]
             t == trades[n]
  <2>1. n \in 1..Len(trades) /\ n - 1 = m /\ n \in 0..Len(trades)
    BY <1>1
  <2>2. Follows(n - 1, L) /\ lots[n] = After(L, t, TRUE)
    BY <1>2, <2>1
  <2>3. t.side \in {"buy", "sell"}
    BY <2>1, TradeFields
  <2> HIDE DEF n, L, F
  <2>4. ASSUME t.side = "buy" PROVE Follows(n, lots[n])
    BY <2>1, <2>2, <2>4, BuyFollows DEF After
  <2>5. ASSUME t.side = "sell" PROVE Follows(n, lots[n])
    <3>1. Follows(n, Consumed(L, t.qty))
      BY <2>1, <2>2, <2>5, SaleFollows
    <3> QED
      BY <2>2, <2>5, <3>1 DEF After
  <2>6. Follows(n, lots[n])
    BY <2>3, <2>4, <2>5
  <2> QED
    BY <2>1, <2>6 DEF n, F
<1> HIDE DEF F
<1>5. \A n \in 0..Len(trades) : n \in F
  BY <1>1, <1>3, <1>4, IntervalInduction
<1> QED
  BY <1>5 DEF F, lots

-----------------------------------------------------------------------------
(***************************************************************************)
(* What the units of a sale had cost.                                      *)
(***************************************************************************)

\* A unit taken from a lot with A units before it.
LEMMA UnitOfLot ==
  ASSUME NEW s \in Nat, NEW q \in Nat, NEW A \in Nat, NEW w \in Nat, NEW d \in Nat, d <= w,
         Within(q, A + w) = Within(q, A) + d,
         NEW v \in Int, s + Within(q, A) < v, v <= s + Within(q, A) + d
  PROVE  s < v /\ v <= s + q /\ A < v - s /\ v - s <= A + w
  BY DEF Within

LEMMA CostOfSale ==
  ASSUME Recorded, Covered, NEW n \in 1..Len(trades), trades[n].side = "sell",
         NEW L, Follows(n - 1, L), NEW q, q = trades[n].qty
  PROVE  /\ Sum(Taken(L, q)) = q
         /\ Sum([k \in DOMAIN L |-> L[k].price * Taken(L, q)[k]]) = Cost(n)
         /\ Cost(n) \in Nat
<1> DEFINE s == Units("sell", n - 1)
           m == Len(L)
           t == Taken(L, q)
           P == [k \in DOMAIN L |-> L[k].price * t[k]]
           up == [k \in (s + 1)..(s + q) |-> UnitPrice(k)]
           W == [k \in 1..(m + 1) |-> Within(q, Ahead(L, k))]
<1>1. /\ q \in Nat \ {0} /\ n - 1 \in 0..Len(trades) /\ n \in DOMAIN trades
      /\ s \in Nat /\ Units("sell", n) = s + q
      /\ Units("buy", n) = Units("buy", n - 1) /\ Units("buy", n) \in Nat
  <2>1. q \in Nat \ {0} /\ n - 1 \in 0..Len(trades) /\ n \in DOMAIN trades /\ n \in 0..Len(trades)
    BY TradeFields
  <2>2. s \in Nat /\ Units("buy", n - 1) \in Nat /\ Units("buy", n) \in Nat
    BY <2>1, UnitsSteps
  <2>3. Units("sell", n) = s + q /\ Units("buy", n) = Units("buy", n - 1) + 0
    <3>1. Units("sell", n) = s + q
      BY UnitsSteps
    <3>2. Units("buy", n) = Units("buy", n - 1) + 0
      BY UnitsSteps
    <3> QED
      BY <3>1, <3>2
  <2> QED
    BY <2>1, <2>2, <2>3
<1>2. /\ L \in Lots /\ m \in Nat /\ DOMAIN L = 1..m /\ Prices(n - 1, L)
      /\ Ahead(L, m + 1) = Units("buy", n - 1) - s
  BY LotFields DEF Follows
<1>3. q <= Ahead(L, m + 1)
  <2>1. Units("sell", n) <= Units("buy", n)
    BY <1>1 DEF Covered
  <2> QED
    BY <1>1, <1>2, <2>1
<1>4. /\ DOMAIN t = 1..m
      /\ \A k \in 1..m : t[k] \in Nat /\ t[k] <= L[k].qty /\ W[k + 1] = W[k] + t[k]
  <2>1. \A k \in 1..m : t[k] \in 0..L[k].qty /\ L[k].qty \in Nat
    BY <1>1, <1>2, TakenIs, LotFields
  <2>2. DOMAIN t = 1..m /\ \A k \in 1..m : Within(q, Ahead(L, k + 1)) = Within(q, Ahead(L, k)) + t[k]
    BY <1>1, <1>2, TakenIs
  <2>3. \A k \in 1..m : k \in 1..(m + 1) /\ k + 1 \in 1..(m + 1)
    BY <1>2
  <2> QED
    BY <2>1, <2>2, <2>3
<1>5. /\ \A k \in 1..(m + 1) : Ahead(L, k) \in Nat
      /\ \A k \in 1..m : Ahead(L, k + 1) = Ahead(L, k) + L[k].qty
      /\ Ahead(L, 1) = 0
  BY <1>2, AheadSteps
<1>6. \A k \in 1..m : L[k].qty \in Nat /\ L[k].price \in Nat
  BY <1>2, LotFields
<1>7. \A k \in 1..(m + 1) : W[k] \in 0..q
  BY <1>1, <1>5 DEF Within
<1> HIDE DEF t
<1>8. \A k \in 1..m : P[k] = L[k].price * t[k] /\ P[k] \in Nat
  <2> TAKE k \in 1..m
  <2>1. P[k] = L[k].price * t[k]
    BY <1>2
  <2>2. L[k].price \in Nat /\ t[k] \in Nat
    BY <1>4, <1>6
  <2> HIDE DEF P
  <2> QED
    BY <2>1, <2>2
<1>9. \A v \in (s + 1)..(s + q) : up[v] = UnitPrice(v)
  OBVIOUS
<1> HIDE DEF P, up, s, m, W
\* The prices of the units taken from one lot.
<1>10. ASSUME NEW k \in 1..m, NEW v \in Int, s + W[k] < v, v <= s + W[k] + t[k]
       PROVE  v \in (s + 1)..(s + q) /\ up[v] = L[k].price
  <2>1. k \in 1..(m + 1) /\ k + 1 \in 1..(m + 1)
    BY <1>2
  <2>2. t[k] \in Nat /\ t[k] <= L[k].qty /\ L[k].qty \in Nat /\ W[k + 1] = W[k] + t[k]
    BY <1>4, <1>6
  <2>3. Ahead(L, k) \in Nat /\ Ahead(L, k + 1) = Ahead(L, k) + L[k].qty
    BY <1>5, <2>1
  <2>4. W[k] = Within(q, Ahead(L, k)) /\ W[k + 1] = Within(q, Ahead(L, k + 1))
    BY <2>1 DEF W
  <2> DEFINE A == Ahead(L, k)
             w == L[k].qty
             d == t[k]
  <2>5. /\ s \in Nat /\ q \in Nat /\ A \in Nat /\ w \in Nat /\ d \in Nat /\ d <= w
        /\ Within(q, A + w) = Within(q, A) + d
        /\ s + Within(q, A) < v /\ v <= s + Within(q, A) + d
    BY <1>1, <1>10, <2>2, <2>3, <2>4
  <2>6. A + w = Ahead(L, k + 1)
    BY <2>3
  <2> HIDE DEF A, w, d
  <2>7. s < v /\ v <= s + q /\ A < v - s /\ v - s <= A + w
    BY <2>5, UnitOfLot
  <2> DEFINE u == v - s
  <2>8. u \in (A + 1)..(A + w) /\ s + u = v /\ v \in (s + 1)..(s + q)
    BY <2>5, <2>7
  <2> HIDE DEF u
  <2>9. UnitPrice(s + u) = L[k].price
    BY <1>2, <2>6, <2>8 DEF Prices, m, s, A
  <2> QED
    BY <1>9, <2>8, <2>9
<1> DEFINE F == {k \in 0..m : /\ SumOver(t, 1..k) = W[k + 1]
                             /\ SumOver(P, 1..k) \in Nat
                             /\ SumOver(P, 1..k) = SumOver(up, (s + 1)..(s + W[k + 1]))
                             /\ \A v \in (s + 1)..(s + W[k + 1]) : up[v] \in Nat}
<1>11. 0 \in F
  <2>1. 1..0 = {} /\ W[0 + 1] = 0
    <3>1. 0 + 1 = 1 /\ 1 \in 1..(m + 1)
      BY <1>2
    <3>2. W[1] = 0
      BY <1>1, <1>5, <3>1 DEF W, Within
    <3> QED
      BY <3>1, <3>2
  <2>2. (s + 1)..(s + 0) = {}
    BY <1>1
  <2>3. SumOver(t, {}) = 0 /\ SumOver(P, {}) = 0 /\ SumOver(up, {}) = 0
    BY SumEmpty
  <2>4. /\ SumOver(t, 1..0) = W[0 + 1]
        /\ SumOver(P, 1..0) = 0 /\ SumOver(up, (s + 1)..(s + W[0 + 1])) = 0
        /\ \A v \in (s + 1)..(s + W[0 + 1]) : up[v] \in Nat
    BY <2>1, <2>2, <2>3
  <2>5. 0 \in 0..m
    BY <1>2
  <2>6. /\ SumOver(P, 1..0) \in Nat
        /\ SumOver(P, 1..0) = SumOver(up, (s + 1)..(s + W[0 + 1]))
    BY <2>4
  <2> QED
    BY <2>4, <2>5, <2>6, Zenon
<1>12. \A k \in 0..(m - 1) : k \in F => k + 1 \in F
  <2> SUFFICES ASSUME NEW k \in 0..(m - 1), k \in F PROVE k + 1 \in F
    OBVIOUS
  <2> DEFINE i == k + 1
             a == s + W[i]
             c == L[i].price
             d == t[i]
  <2>0. /\ SumOver(t, 1..k) = W[i] /\ SumOver(P, 1..k) \in Nat
        /\ SumOver(P, 1..k) = SumOver(up, (s + 1)..a)
        /\ \A v \in (s + 1)..a : up[v] \in Nat
    OBVIOUS
  <2> HIDE DEF F
  <2>1. i \in 1..m /\ i \in 1..(m + 1) /\ i \in 0..m /\ k \in Nat /\ i + 1 \in 1..(m + 1)
    BY <1>2
  <2>2. d \in Nat /\ c \in Nat /\ W[i + 1] = W[i] + d /\ W[i] \in Nat
    BY <1>4, <1>6, <1>7, <2>1
  <2>4. \A v \in Int : a < v /\ v <= a + d => up[v] = c
    <3> TAKE v \in Int
    <3> HIDE DEF i
    <3> QED
      BY <1>10, <2>1
  <2>5. P[i] = c * d /\ \A j \in 1..(k + 1) : t[j] \in Int /\ P[j] \in Int
    <3>1. P[i] = L[i].price * t[i]
      BY <1>8, <2>1
    <3>2. \A j \in 1..(k + 1) : j \in 1..m
      BY <1>2, <2>1
    <3>3. \A j \in 1..(k + 1) : t[j] \in Int /\ P[j] \in Int
      BY <1>4, <1>8, <3>2
    <3> QED
      BY <3>1, <3>3
  <2>6. a \in Int /\ s \in Int /\ s <= a /\ s + W[i + 1] = a + d
    <3>0. s \in Nat /\ d \in Nat /\ W[i] \in Nat /\ W[i + 1] = W[i] + d
      BY <1>1, <2>2
    <3> HIDE DEF i, d
    <3>1. a \in Int
      BY <3>0
    <3>2. s <= a
      BY <3>0
    <3>3. s + W[i + 1] = a + d
      BY <3>0
    <3> QED
      BY <3>0, <3>1, <3>2, <3>3
  <2> HIDE DEF a, c, d
  <2>7. SumOver(t, 1..(k + 1)) = SumOver(t, 1..k) + t[k + 1]
    BY <2>1, <2>5, SumAppend
  <2>8. SumOver(P, 1..(k + 1)) = SumOver(P, 1..k) + P[k + 1]
    BY <2>1, <2>5, SumAppend
  <2>9. SumOver(up, (s + 1)..(a + d)) = SumOver(up, (s + 1)..a) + d * c
    <3>1. \A v \in (s + 1)..a : up[v] \in Int
      BY <2>0
    <3>2. c \in Int
      BY <2>2
    <3>3. FlatFrom(up, s + 1, a, a + d, c)
      BY <2>2, <2>4, <2>6, <3>1, <3>2 DEF FlatFrom
    <3>4. SumOver(up, (s + 1)..(a + d)) = SumOver(up, (s + 1)..a) + ((a + d) - a) * c
      BY <3>3, SumFlat
    <3>5. (a + d) - a = d
      BY <2>2, <2>6
    <3> QED
      BY <3>4, <3>5
  <2>10. c * d \in Nat /\ c * d = d * c
    BY <2>2
  <2>11. \A v \in (s + 1)..(a + d) : up[v] \in Nat
    <3> TAKE v \in (s + 1)..(a + d)
    <3>1. v \in (s + 1)..a \/ (v \in Int /\ a < v /\ v <= a + d)
      BY <2>2, <2>6
    <3> QED
      BY <2>0, <2>2, <2>4, <3>1
  <2>12. SumOver(t, 1..i) = W[i + 1]
    BY <2>0, <2>2, <2>7 DEF d
  <2>13. SumOver(P, 1..i) \in Nat /\ SumOver(P, 1..i) = SumOver(up, (s + 1)..(s + W[i + 1]))
    <3>1. SumOver(P, 1..i) = SumOver(P, 1..k) + c * d
      BY <2>5, <2>8
    <3> HIDE DEF i
    <3> QED
      BY <2>0, <2>6, <2>9, <2>10, <3>1
  <2> HIDE DEF i
  <2>14. i \in F
    BY <2>1, <2>6, <2>11, <2>12, <2>13 DEF F
  <2> QED
    BY <2>14 DEF i
<1> HIDE DEF F
<1>13. m \in F
  <2>1. \A k \in 0..m : k \in F
    BY <1>2, <1>11, <1>12, IntervalInduction
  <2> QED
    BY <1>2, <2>1
<1>14. W[m + 1] = q
  <2>1. m + 1 \in 1..(m + 1)
    BY <1>2
  <2>2. W[m + 1] = Within(q, Ahead(L, m + 1)) /\ Ahead(L, m + 1) \in Nat
    BY <1>5, <2>1 DEF W
  <2> QED
    BY <1>1, <1>3, <2>2 DEF Within
<1>15. /\ SumOver(t, 1..m) = q /\ SumOver(P, 1..m) \in Nat
       /\ SumOver(P, 1..m) = SumOver(up, (s + 1)..(s + q))
  BY <1>13, <1>14 DEF F
<1>16. Sum(t) = q /\ Sum(P) = SumOver(P, 1..m) /\ Sum(up) = SumOver(up, (s + 1)..(s + q))
  <2>1. DOMAIN P = 1..m /\ DOMAIN up = (s + 1)..(s + q)
    BY <1>2 DEF P, up
  <2> QED
    BY <1>4, <1>15, <2>1, SumIsSumOver
<1>17. Cost(n) = Sum(up)
  BY <1>1 DEF Cost, up, s
<1> QED
  BY <1>15, <1>16, <1>17 DEF t, P

LEMMA SmallRemainder ==
  ASSUME NEW d \in Nat \ {0}, NEW n \in 0..(d - 1) PROVE n % d = n
<1>1. n \div d \in Int /\ n % d \in 0..(d - 1) /\ n = d * (n \div d) + (n % d)
  OBVIOUS
<1> DEFINE k == n \div d
           r == n % d
<1>2. k \in Int /\ r \in 0..(d - 1) /\ n = d * k + r
  BY <1>1
<1> HIDE DEF k, r
<1>3. ~ (k >= 1)
  <2> SUFFICES ASSUME k >= 1 PROVE FALSE
    OBVIOUS
  <2>1. d * 1 <= d * k
    BY <1>2, TimesIsMonotone
  <2> QED
    BY <1>2, <2>1
<1>4. ~ (k <= -1)
  <2> SUFFICES ASSUME k <= -1 PROVE FALSE
    OBVIOUS
  <2>1. d * k <= d * (-1)
    BY <1>2, TimesIsMonotone
  <2> QED
    BY <1>2, <2>1
<1>5. k = 0
  BY <1>2, <1>3, <1>4
<1> QED
  BY <1>2, <1>5 DEF r

LEMMA WrapKeeps ==
  ASSUME NEW n \in Nat, n < MaxInt PROVE Wrap(n) = n
<1>1. MaxInt \in Nat \ {0} /\ 2 * MaxInt \in Nat \ {0} /\ n + MaxInt \in 0..((2 * MaxInt) - 1)
  BY MaxIntAssumption
<1>2. (n + MaxInt) % (2 * MaxInt) = n + MaxInt
  <2> DEFINE d == 2 * MaxInt
             k == n + MaxInt
  <2>1. d \in Nat \ {0} /\ k \in 0..(d - 1)
    BY <1>1
  <2> HIDE DEF d, k
  <2>2. k % d = k
    BY <2>1, SmallRemainder
  <2> QED
    BY <2>2 DEF d, k
<1> QED
  BY <1>1, <1>2 DEF Wrap

LEMMA AvgCostOfSale ==
  ASSUME Recorded, Covered, NEW n \in Sales(trades), Cost(n) < MaxInt
  PROVE  AvgCost(n) = Cost(n) \div trades[n].qty
<1> DEFINE L == LotsAfter(trades, TRUE)[n - 1]
           q == trades[n].qty
           t == Taken(L, q)
           C == Sum([k \in DOMAIN L |-> L[k].price * t[k]])
<1>1. /\ n \in 1..Len(trades) /\ trades[n].side = "sell" /\ n - 1 \in 0..Len(trades)
      /\ q \in Nat \ {0}
  BY TradeFields DEF Sales
<1>2. Follows(n - 1, L)
  BY <1>1, ConsumedLotsFollow
<1>3. AvgCost(n) = IF Sum(t) = 0 THEN 0 ELSE Quotient(Wrap(C), Sum(t))
  BY DEF AvgCost
<1> HIDE DEF L, q
<1>4. Sum(t) = q /\ C = Cost(n) /\ Cost(n) \in Nat
  BY <1>1, <1>2, CostOfSale DEF q
<1> HIDE DEF t, C
<1>5. Wrap(C) = C
  BY <1>4, WrapKeeps
<1>6. Quotient(C, q) = C \div q
  BY <1>4 DEF Quotient
<1> QED
  BY <1>1, <1>3, <1>4, <1>5, <1>6 DEF q

\* What the report has in every state.
RecordInv ==
  /\ Recorded
  /\ chan \in Seq(TradeRecord)
  /\ pnl = Recalculated(trades)

LEMMA InitRecord == ReportInit => RecordInv
<1> SUFFICES ASSUME ReportInit PROVE RecordInv
  OBVIOUS
<1>1. chan = <<>> /\ trades = <<>> /\ pnl = [n \in {} |-> 0]
  BY DEF ReportInit
<1>2. Sales(trades) = {}
  BY <1>1 DEF Sales
<1>3. Recalculated(trades) = pnl
  BY <1>1, <1>2 DEF Recalculated
<1> QED
  BY <1>1, <1>3 DEF RecordInv, Recorded

LEMMA NextRecord == RecordInv /\ [ReportNext]_allVars => RecordInv'
<1> SUFFICES ASSUME RecordInv, [ReportNext]_allVars PROVE RecordInv'
  OBVIOUS
<1>0. trades \in Seq(TradeRecord) /\ chan \in Seq(TradeRecord)
  BY DEF RecordInv, Recorded
<1>1. CASE UNCHANGED <<chan, trades, pnl>>
  BY <1>1 DEF RecordInv, Recorded, Recalculated, LotsAfter, Sales
<1>2. ASSUME NEW t \in Trade, Execute(t) PROVE RecordInv'
  <2>1. t \in TradeRecord
    <3>1. ~ Refused(pos, t.qty, t.price, t.side)
      BY <1>2 DEF Execute, AddPosition
    <3>2. t.side \in Side /\ t.qty \in Nat /\ t.price \in Nat
      BY PriceAssumption, QtyAssumption DEF Trade
    <3>3. t.qty > 0 /\ t.price > 0
      BY <3>1, <3>2 DEF Refused
    <3> QED
      BY <3>2, <3>3 DEF Trade, TradeRecord
  <2>2. trades' = trades /\ pnl' = pnl /\ (chan' = chan \/ chan' = Append(chan, t))
    BY <1>2 DEF Execute
  <2>3. chan' \in Seq(TradeRecord)
    BY <1>0, <2>1, <2>2
  <2> QED
    BY <2>2, <2>3 DEF RecordInv, Recorded, Recalculated, LotsAfter, Sales
<1>3. CASE AddTrade
  <2>1. /\ chan # <<>> /\ chan' = Tail(chan) /\ trades' = Append(trades, Head(chan))
        /\ pnl' = Recalculated(trades')
    BY <1>3 DEF AddTrade
  <2>2. Head(chan) \in TradeRecord /\ Tail(chan) \in Seq(TradeRecord)
    BY <1>0, <2>1
  <2>3. trades' \in Seq(TradeRecord)
    BY <1>0, <2>1, <2>2
  <2> QED
    BY <2>1, <2>2, <2>3 DEF RecordInv, Recorded
<1>4. CASE ResetPositions \/ \E t \in Trade : Refuse(t)
  BY <1>1, <1>4 DEF ResetPositions, Refuse, reportVars
<1> QED
  BY <1>1, <1>2, <1>3, <1>4 DEF ReportNext, allVars, reportVars

\* For any trades, the average cost the report gives for a sale is that of the very
\* units it sells, whatever was bought and sold before it.
THEOREM AverageCostIsFifo == ReportSpec => []AvgCostIsFifo
<1>1. RecordInv => AvgCostIsFifo
  <2> SUFFICES ASSUME RecordInv, Complete, NEW n \in Sales(trades), Cost(n) < MaxInt
               PROVE  AvgCost(n) = Cost(n) \div trades[n].qty
    BY DEF AvgCostIsFifo
  <2>1. Recorded /\ Covered
    BY DEF RecordInv, Complete, Covered
  <2> QED
    BY <2>1, AvgCostOfSale
<1> QED
  BY <1>1, InitRecord, NextRecord, PTL DEF ReportSpec

-----------------------------------------------------------------------------
(***************************************************************************)
(* The profit of the day.  As long as no sale before used up the first     *)
(* purchase, both ways of keeping the lots agree.                          *)
(***************************************************************************)

Buys(n) == {k \in 1..n : trades[k].side = "buy"}

LEMMA OneToN ==
  ASSUME NEW n \in Nat PROVE IsFiniteSet(1..n) /\ Cardinality(1..n) = n
<1>1. /\ IsFiniteSet(1..n)
      /\ Cardinality(1..n) = IF 1 > n THEN 0 ELSE n - 1 + 1
  BY FS_Interval
<1> DEFINE c == Cardinality(1..n)
<1>2. IsFiniteSet(1..n) /\ c = IF 1 > n THEN 0 ELSE n - 1 + 1
  BY <1>1
<1> HIDE DEF c
<1>3. c = n
  BY <1>2
<1> QED
  BY <1>2, <1>3 DEF c

LEMMA BuysSteps ==
  ASSUME Recorded
  PROVE  /\ Cardinality(Buys(0)) = 0
         /\ \A n \in 0..(Len(trades) - 1) :
              Cardinality(Buys(n + 1))
                = Cardinality(Buys(n)) + (IF trades[n + 1].side = "buy" THEN 1 ELSE 0)
         /\ \A n \in 0..Len(trades) :
              /\ Cardinality(Buys(n)) \in Nat
              /\ Cardinality(Buys(n)) <= Len(trades) - Cardinality(Sales(trades))
<1>1. Len(trades) \in Nat /\ DOMAIN trades = 1..Len(trades)
  BY TradeFields
<1>2. \A n \in Nat : IsFiniteSet(Buys(n)) /\ Cardinality(Buys(n)) \in Nat
  <2> TAKE n \in Nat
  <2>1. IsFiniteSet(1..n) /\ Buys(n) \in SUBSET (1..n)
    BY FS_Interval DEF Buys
  <2>2. IsFiniteSet(Buys(n))
    BY <2>1, FS_Subset
  <2> QED
    BY <2>2, FS_CardinalityType
<1>3. Cardinality(Buys(0)) = 0
  <2>1. Buys(0) = {}
    BY DEF Buys
  <2> QED
    BY <2>1, FS_EmptySet
<1>4. ASSUME NEW n \in 0..(Len(trades) - 1)
      PROVE  Cardinality(Buys(n + 1))
               = Cardinality(Buys(n)) + (IF trades[n + 1].side = "buy" THEN 1 ELSE 0)
  <2> DEFINE B == Buys(n)
             x == n + 1
  <2>1. IsFiniteSet(B) /\ Cardinality(B) \in Nat /\ x \notin B
    BY <1>2 DEF Buys
  <2>2. Buys(n + 1) = IF trades[x].side = "buy" THEN B \cup {x} ELSE B
    <3>1. 1..(n + 1) = (1..n) \cup {n + 1}
      OBVIOUS
    <3> QED
      BY <3>1 DEF Buys
  <2> HIDE DEF B, x
  <2>3. Cardinality(B \cup {x}) = Cardinality(B) + 1
    BY <2>1, FS_AddElement
  <2> QED
    BY <2>1, <2>2, <2>3 DEF B, x
<1>5. ASSUME NEW n \in 0..Len(trades)
      PROVE  Cardinality(Buys(n)) <= Len(trades) - Cardinality(Sales(trades))
  <2> DEFINE D == 1..Len(trades)
             S == Sales(trades)
  <2>1. IsFiniteSet(D) /\ Cardinality(D) = Len(trades)
    BY <1>1, OneToN
  <2>2. S \in SUBSET D /\ D \cap S = S /\ Buys(n) \in SUBSET (D \ S)
    BY <1>1 DEF Sales, Buys
  <2> HIDE DEF D, S
  <2>3. IsFiniteSet(D \ S) /\ Cardinality(D \ S) = Cardinality(D) - Cardinality(D \cap S)
    BY <2>1, FS_Difference
  <2>4. Cardinality(Buys(n)) <= Cardinality(D \ S)
    BY <2>2, <2>3, FS_Subset
  <2> QED
    BY <2>1, <2>2, <2>3, <2>4 DEF S
<1> QED
  BY <1>2, <1>3, <1>4, <1>5

\* The first trade is a purchase, as nothing can be sold before.
LEMMA FirstIsBuy ==
  ASSUME Recorded, Covered, trades # <<>>
  PROVE  1 \in 1..Len(trades) /\ trades[1].side = "buy"
<1>1. Len(trades) \in Nat /\ Len(trades) # 0
  BY DEF Recorded
<1>2. 1 \in 1..Len(trades) /\ 1 \in DOMAIN trades
  BY <1>1, TradeFields
<1>3. Units("sell", 1) <= Units("buy", 1)
  BY <1>2 DEF Covered
<1>4. ASSUME trades[1].side = "sell" PROVE FALSE
  <2>1. Units("sell", 1) = Units("sell", 1 - 1) + trades[1].qty
    BY <1>2, <1>4, UnitsSteps
  <2>2. Units("buy", 1) = Units("buy", 1 - 1) + 0
    BY <1>2, <1>4, UnitsSteps
  <2>3. 1 - 1 = 0 /\ Units("buy", 0) = 0 /\ Units("sell", 0) = 0
    BY UnitsSteps
  <2>4. trades[1].qty \in Nat \ {0}
    BY <1>2, TradeFields
  <2> QED
    BY <1>3, <2>1, <2>2, <2>3, <2>4
<1> QED
  BY <1>2, <1>4, TradeFields

\* After n trades that leave some of the first purchase, both have the same lots, one
\* for each purchase, and the first lot is what is left of the first purchase.
Agree(n) ==
  LET L == LotsAfter(trades, TRUE)[n]
  IN  /\ LotsAfter(trades, FALSE)[n] = L
      /\ Len(L) = Cardinality(Buys(n))
      /\ n # 0 => L # <<>> /\ L[1].qty = trades[1].qty - Units("sell", n)

LEMMA BuyAgrees ==
  ASSUME Recorded, Covered, NEW n \in 1..Len(trades), trades[n].side = "buy", Agree(n - 1)
  PROVE  Agree(n)
<1> DEFINE L == LotsAfter(trades, TRUE)[n - 1]
           K == LotsAfter(trades, FALSE)[n - 1]
           lot == Lot(trades[n])
<1>1. /\ n - 1 \in 0..Len(trades) /\ n - 1 \in 0..(Len(trades) - 1) /\ (n - 1) + 1 = n
      /\ lot.qty = trades[n].qty /\ trades[n].qty \in Nat /\ Len(trades) \in Nat
      /\ lot \in LotRecord
  BY TradeFields
<1>2. /\ LotsAfter(trades, TRUE)[n] = Append(L, lot)
      /\ LotsAfter(trades, FALSE)[n] = Append(K, lot)
  BY <1>1, LotsAfterSteps DEF After
<1>3. /\ K = L /\ Len(L) = Cardinality(Buys(n - 1))
      /\ n - 1 # 0 => L # <<>> /\ L[1].qty = trades[1].qty - Units("sell", n - 1)
  BY DEF Agree
<1>4. L \in Seq(LotRecord)
  BY <1>1, ConsumedLotsFollow DEF Follows, Lots
<1>5. Cardinality(Buys(n)) = Cardinality(Buys(n - 1)) + 1
  BY <1>1, BuysSteps
<1>6. Units("sell", n) = Units("sell", n - 1) /\ Units("sell", n - 1) \in Nat
  <2>1. Units("sell", n - 1) \in Nat
    BY <1>1, UnitsSteps
  <2>2. Units("sell", n) = Units("sell", n - 1) + 0
    BY UnitsSteps
  <2> QED
    BY <2>1, <2>2
<1> HIDE DEF L, K, lot
<1>7. /\ Len(Append(L, lot)) = Len(L) + 1 /\ Append(L, lot) # <<>>
      /\ L # <<>> => Append(L, lot)[1] = L[1]
      /\ L = <<>> => Append(L, lot)[1] = lot
  <2>1. lot \in LotRecord /\ L \in Seq(LotRecord) /\ Len(L) \in Nat
    BY <1>1, <1>4
  <2>2. Len(Append(L, lot)) = Len(L) + 1
    BY <2>1
  <2>3. Append(L, lot) # <<>>
    BY <2>1
  <2>4. L # <<>> => Append(L, lot)[1] = L[1]
    <3> SUFFICES ASSUME L # <<>> PROVE Append(L, lot)[1] = L[1]
      OBVIOUS
    <3>1. Len(L) # 0
      BY <2>1
    <3>2. 1 \in 1..Len(L)
      BY <2>1, <3>1
    <3> QED
      BY <2>1, <3>2
  <2>5. L = <<>> => Append(L, lot)[1] = lot
    BY <2>1
  <2> QED
    BY <2>2, <2>3, <2>4, <2>5
<1>8. Append(L, lot)[1].qty = trades[1].qty - Units("sell", n)
  <2>1. CASE n - 1 = 0
    <3>1. n = 1 /\ Units("sell", 0) = 0 /\ Cardinality(Buys(0)) = 0
      BY <1>1, <2>1, UnitsSteps, BuysSteps
    <3>2. L = <<>>
      BY <1>3, <1>4, <2>1, <3>1
    <3> QED
      BY <1>1, <1>6, <1>7, <2>1, <3>1, <3>2
  <2>2. CASE n - 1 # 0
    BY <1>3, <1>6, <1>7, <2>2
  <2> QED
    BY <2>1, <2>2
<1> QED
  BY <1>2, <1>3, <1>5, <1>7, <1>8 DEF Agree

LEMMA SaleAgrees ==
  ASSUME Recorded, Covered, NEW n \in 1..Len(trades), trades[n].side = "sell", Agree(n - 1),
         Units("sell", n) < trades[1].qty
  PROVE  Agree(n)
<1> DEFINE L == LotsAfter(trades, TRUE)[n - 1]
           K == LotsAfter(trades, FALSE)[n - 1]
           q == trades[n].qty
<1>1. /\ n - 1 \in 0..Len(trades) /\ n - 1 \in 0..(Len(trades) - 1) /\ (n - 1) + 1 = n
      /\ q \in Nat /\ Len(trades) \in Nat /\ trades # <<>>
  BY TradeFields
<1>2. /\ LotsAfter(trades, TRUE)[n] = Consumed(L, q)
      /\ LotsAfter(trades, FALSE)[n] = Touched(K, q)
  BY <1>1, LotsAfterSteps DEF After
<1>3. n - 1 # 0
  BY <1>1, FirstIsBuy
<1>4. /\ K = L /\ Len(L) = Cardinality(Buys(n - 1))
      /\ L # <<>> /\ L[1].qty = trades[1].qty - Units("sell", n - 1)
  BY <1>3 DEF Agree
<1>5. L \in Lots
  BY <1>1, ConsumedLotsFollow DEF Follows
<1>6. Cardinality(Buys(n)) = Cardinality(Buys(n - 1))
  <2>1. Cardinality(Buys((n - 1) + 1)) = Cardinality(Buys(n - 1)) + 0 /\ Cardinality(Buys(n - 1)) \in Nat
    BY <1>1, BuysSteps
  <2> QED
    BY <1>1, <2>1
<1>7. Units("sell", n) = Units("sell", n - 1) + q /\ Units("sell", n - 1) \in Nat
  BY <1>1, UnitsSteps
<1>8. trades[1].qty \in Nat
  BY <1>1, FirstIsBuy, TradeFields
<1> HIDE DEF L, K, q
<1>9. q < L[1].qty
  BY <1>1, <1>4, <1>7, <1>8
<1>10. /\ Touched(L, q) = Consumed(L, q)
       /\ Consumed(L, q) # <<>> /\ Len(Consumed(L, q)) = Len(L)
       /\ Consumed(L, q)[1].qty = L[1].qty - q
  BY <1>1, <1>4, <1>5, <1>9, TouchedIsConsumed
<1>11. Consumed(L, q)[1].qty = trades[1].qty - Units("sell", n)
  BY <1>1, <1>4, <1>7, <1>8, <1>10
<1> QED
  BY <1>2, <1>4, <1>6, <1>10, <1>11 DEF Agree

LEMMA LotsAgree ==
  ASSUME Recorded, Covered
  PROVE  \A n \in 0..Len(trades) : n = 0 \/ Units("sell", n) < trades[1].qty => Agree(n)
<1> DEFINE T == Len(trades)
           F == {n \in 0..T : n = 0 \/ Units("sell", n) < trades[1].qty => Agree(n)}
<1>1. T \in Nat
  BY TradeFields
<1>2. 0 \in F
  <2>1. LotsAfter(trades, TRUE)[0] = <<>> /\ LotsAfter(trades, FALSE)[0] = <<>>
    BY <1>1, LotsAfterSteps
  <2>2. Agree(0)
    BY <2>1, BuysSteps DEF Agree
  <2> QED
    BY <1>1, <2>2
<1>3. \A m \in 0..(T - 1) : m \in F => m + 1 \in F
  <2> SUFFICES ASSUME NEW m \in 0..(T - 1), m \in F PROVE m + 1 \in F
    OBVIOUS
  <2> DEFINE n == m + 1
  <2>1. n \in 1..T /\ n - 1 = m /\ n \in 0..T /\ m \in 0..T /\ n # 0
    BY <1>1
  <2>2. m = 0 \/ Units("sell", m) < trades[1].qty => Agree(m)
    OBVIOUS
  <2> HIDE DEF n, F
  <2>3. ASSUME Units("sell", n) < trades[1].qty PROVE Agree(n)
    <3>1. Units("sell", m) <= Units("sell", n)
      <4>1. m <= n
        BY <2>1
      <4> QED
        BY <2>1, <4>1, UnitsGrow
    <3>2. Units("sell", m) \in Nat /\ Units("sell", n) \in Nat
      BY <2>1, UnitsSteps
    <3>3. trades # <<>>
      BY <2>1
    <3>4. trades[1].qty \in Nat
      BY <3>3, FirstIsBuy, TradeFields
    <3>5. Agree(n - 1)
      BY <2>1, <2>2, <2>3, <3>1, <3>2, <3>4
    <3>6. CASE trades[n].side = "buy"
      BY <2>1, <3>5, <3>6, BuyAgrees
    <3>7. CASE trades[n].side = "sell"
      BY <2>1, <2>3, <3>5, <3>7, SaleAgrees
    <3> QED
      BY <2>1, <3>6, <3>7, TradeFields
  <2>4. n \in F
    BY <2>1, <2>3 DEF F
  <2> QED
    BY <2>4 DEF n
<1> HIDE DEF F
<1>4. \A n \in 0..T : n \in F
  BY <1>1, <1>2, <1>3, IntervalInduction
<1> QED
  BY <1>4 DEF F, T

\* What a sale brought less what its units cost.
Earned == [n \in Sales(trades) |-> trades[n].qty * trades[n].price - Cost(n)]

LEMMA ProfitOfSale ==
  ASSUME Recorded, Covered, NEW n \in 1..Len(trades), trades[n].side = "sell",
         NEW L, Follows(n - 1, L), NEW e, e = trades[n].qty * trades[n].price - Cost(n)
  PROVE  /\ SaleProfit(L, trades[n]) \in Int /\ e \in Int
         /\ e - Scale * Len(L) <= Scale * SaleProfit(L, trades[n])
         /\ Scale * SaleProfit(L, trades[n]) <= e
<1> DEFINE q == trades[n].qty
           p == trades[n].price
           t == Taken(L, q)
           S == 1..Len(L)
           paid == [k \in DOMAIN L |-> L[k].price * t[k]]
           exact == [k \in DOMAIN L |-> p * t[k] - paid[k]]
           round == [k \in DOMAIN L |-> MulDiv(t[k], p - L[k].price, Scale)]
<1>1. q \in Nat /\ p \in Nat /\ L \in Lots
  BY TradeFields DEF Follows
<1>2. Sum(t) = q /\ Sum(paid) = Cost(n) /\ Cost(n) \in Nat
  BY CostOfSale
<1>3. /\ DOMAIN L = S /\ DOMAIN t = S /\ Len(L) \in Nat
      /\ \A k \in S : t[k] \in Int /\ L[k].price \in Int
  <2>1. DOMAIN L = S /\ DOMAIN t = S /\ Len(L) \in Nat
    BY <1>1, LotFields, TakenIs
  <2>2. ASSUME NEW k \in S PROVE t[k] \in Int /\ L[k].price \in Int
    <3> DEFINE w == L[k].qty
    <3>1. t[k] \in 0..w /\ w \in Nat /\ L[k].price \in Nat
      BY <1>1, LotFields, TakenIs
    <3> HIDE DEF t, w
    <3> QED
      BY <3>1
  <2> QED
    BY <2>1, <2>2
<1>4. IsFiniteSet(S) /\ Cardinality(S) = Len(L)
  BY <1>3, OneToN
<1>5. SaleProfit(L, trades[n]) = Sum(round)
  BY DEF SaleProfit
<1>6. /\ DOMAIN paid = S /\ DOMAIN exact = S /\ DOMAIN round = S
      /\ \A k \in S : /\ paid[k] = L[k].price * t[k]
                      /\ exact[k] = p * t[k] - paid[k]
                      /\ round[k] = MulDiv(t[k], p - L[k].price, Scale)
  BY <1>3
<1>7. e = q * p - Cost(n)
  OBVIOUS
<1> HIDE DEF q, p, t, S, paid, exact, round
<1>8. \A k \in S : Differs(p, t, paid, exact, k)
  <2> TAKE k \in S
  <2> DEFINE a == t[k]
             b == L[k].price
  <2>1. a \in Int /\ b \in Int /\ paid[k] = b * a /\ exact[k] = p * a - paid[k]
    BY <1>3, <1>6
  <2> HIDE DEF a, b
  <2>2. b * a \in Int
    BY <2>1
  <2> QED
    BY <2>1, <2>2 DEF Differs, a
<1>9. SumOver(exact, S) = p * SumOver(t, S) - SumOver(paid, S)
  BY <1>1, <1>4, <1>8, SumLinear
<1>10. SumOver(exact, S) = e /\ e \in Int
  <2>1. SumOver(t, S) = q /\ SumOver(paid, S) = Cost(n)
    BY <1>2, <1>3, <1>6, SumIsSumOver
  <2>2. p * q = q * p /\ p * q \in Int
    BY <1>1
  <2> QED
    BY <1>2, <1>7, <1>9, <2>1, <2>2
<1>11. \A k \in S : /\ exact[k] \in Int /\ round[k] \in Int
                    /\ exact[k] - Scale <= Scale * round[k] /\ Scale * round[k] <= exact[k]
  <2> TAKE k \in S
  <2> DEFINE a == t[k]
             b == L[k].price
             x == p - b
             m == MulDiv(a, x, Scale)
  <2>1. /\ a \in Int /\ b \in Int /\ exact[k] = p * a - b * a /\ round[k] = m
    BY <1>3, <1>6
  <2>2. x \in Int /\ x = p - b
    BY <1>1, <2>1
  <2> HIDE DEF a, b, x, m
  <2>3. m \in Int /\ \E r \in 0..(Scale - 1) : m * Scale = a * x - r
    BY <2>1, <2>2, ProfitRounds DEF m
  <2>4. PICK r \in 0..(Scale - 1) : m * Scale = a * x - r
    BY <2>3
  <2>5. Scale \in Nat /\ r \in Int /\ 0 <= r /\ r <= Scale
    BY ScaleAssumption
  <2>6. a * x = p * a - b * a /\ a * x \in Int
    BY <1>1, <2>1, <2>2
  <2>7. m * Scale = Scale * m /\ Scale * m \in Int
    BY <2>3, <2>5
  <2> QED
    BY <2>1, <2>3, <2>4, <2>5, <2>6, <2>7
<1>12. /\ SumOver(exact, S) - Scale * Cardinality(S) <= Scale * SumOver(round, S)
       /\ Scale * SumOver(round, S) <= SumOver(exact, S)
  <2>1. Scale \in Int /\ Scale \in Nat
    BY ScaleAssumption
  <2> QED
    BY <1>4, <1>11, <2>1, SumBetween
<1>13. SumOver(round, S) \in Int
  BY <1>4, <1>11, SumType
<1>14. SumOver(round, S) = SaleProfit(L, trades[n])
  BY <1>5, <1>6, SumIsSumOver
<1> QED
  BY <1>4, <1>10, <1>12, <1>13, <1>14

LEMMA SalesFinite ==
  ASSUME Recorded
  PROVE  /\ IsFiniteSet(Sales(trades)) /\ Cardinality(Sales(trades)) \in Nat
         /\ Cardinality(Sales(trades)) <= Len(trades)
<1>1. /\ Len(trades) \in Nat /\ Sales(trades) \in SUBSET (1..Len(trades))
  BY TradeFields DEF Sales
<1>2. IsFiniteSet(1..Len(trades)) /\ Cardinality(1..Len(trades)) = Len(trades)
  BY <1>1, OneToN
<1>3. /\ IsFiniteSet(Sales(trades))
      /\ Cardinality(Sales(trades)) <= Cardinality(1..Len(trades))
  BY <1>1, <1>2, FS_Subset
<1> QED
  BY <1>2, <1>3, FS_CardinalityType

\* No earlier sale used up the first purchase.
FirstLasts == \A n \in Sales(trades) : Units("sell", n - 1) < trades[1].qty

LEMMA RecordedProfit ==
  ASSUME Recorded, Covered, FirstLasts, NEW n \in Sales(trades),
         NEW d, d = Scale * (Len(trades) - Cardinality(Sales(trades)))
  PROVE  /\ Earned[n] \in Int /\ Recalculated(trades)[n] \in Int
         /\ Earned[n] - d <= Scale * Recalculated(trades)[n]
         /\ Scale * Recalculated(trades)[n] <= Earned[n]
<1> DEFINE L == LotsAfter(trades, TRUE)[n - 1]
           K == LotsAfter(trades, FALSE)[n - 1]
           h == Cardinality(Sales(trades))
           e == Earned[n]
           r == SaleProfit(L, trades[n])
<1>1. /\ n \in 1..Len(trades) /\ trades[n].side = "sell" /\ n - 1 \in 0..Len(trades)
      /\ Len(trades) \in Nat
  BY TradeFields DEF Sales
<1>2. Agree(n - 1)
  BY <1>1, LotsAgree DEF FirstLasts
<1>3. K = L /\ Len(L) = Cardinality(Buys(n - 1))
  BY <1>2 DEF Agree
<1>4. Recalculated(trades)[n] = r
  BY <1>3 DEF Recalculated
<1>5. Follows(n - 1, L)
  BY <1>1, ConsumedLotsFollow
<1>6. e = trades[n].qty * trades[n].price - Cost(n)
  BY DEF Earned
<1> HIDE DEF L, K, e
<1>7. r \in Int /\ e \in Int /\ e - Scale * Len(L) <= Scale * r /\ Scale * r <= e
  BY <1>1, <1>5, <1>6, ProfitOfSale
<1>8. Len(L) \in Nat /\ Len(L) <= Len(trades) - h /\ h \in Nat
  <2>1. Cardinality(Buys(n - 1)) \in Nat /\ Cardinality(Buys(n - 1)) <= Len(trades) - h
    BY <1>1, BuysSteps
  <2>2. h \in Nat
    BY SalesFinite
  <2> QED
    BY <1>3, <2>1, <2>2
<1> HIDE DEF h, r
<1>9. Scale * Len(L) <= d
  <2>1. Scale \in Nat
    BY ScaleAssumption
  <2>2. d = Scale * (Len(trades) - h)
    BY DEF h
  <2> DEFINE l == Len(L)
             m == Len(trades) - h
  <2>3. l \in Nat /\ m \in Nat /\ l <= m
    BY <1>1, <1>8
  <2> HIDE DEF l, m
  <2>4. Scale * l <= Scale * m
    BY <2>1, <2>3
  <2> QED
    BY <2>2, <2>4 DEF l, m
<1>10. d \in Int /\ Scale * Len(L) \in Int /\ Scale * r \in Int
  BY <1>1, <1>7, <1>8, ScaleAssumption DEF h
<1>11. e - d <= Scale * r
  BY <1>7, <1>9, <1>10
<1> QED
  BY <1>4, <1>7, <1>11 DEF e

\* The profit of the day is what the sales brought less what the units sold had cost,
\* up to the rounding of each lot of a sale, as long as no purchase has been sold whole.
THEOREM ProfitIsEarned == ReportSpec => []TodayIsEarned
<1>1. RecordInv => TodayIsEarned
  <2> DEFINE S == Sales(trades)
             h == Cardinality(S)
             d == Scale * (Len(trades) - h)
             sum == Sum(Earned)
  <2> SUFFICES ASSUME RecordInv, Complete, FirstLasts
               PROVE  sum - Scale * h * (Len(trades) - h) <= Scale * TodayPnl
                      /\ Scale * TodayPnl <= sum
    BY DEF TodayIsEarned, FirstLasts, Earned
  <2>1. Recorded /\ Covered /\ pnl = Recalculated(trades)
    BY DEF RecordInv, Complete, Covered
  <2>2. DOMAIN Earned = S /\ DOMAIN pnl = S
    BY <2>1 DEF Earned, Recalculated
  <2>3. sum = SumOver(Earned, S) /\ TodayPnl = SumOver(pnl, S)
    BY <2>2, SumIsSumOver DEF TodayPnl
  <2>4. IsFiniteSet(S) /\ h \in Nat /\ Len(trades) \in Nat /\ h <= Len(trades)
    BY <2>1, SalesFinite, TradeFields
  <2>5. Scale \in Nat /\ Scale \in Int
    BY ScaleAssumption
  <2>6. \A n \in S : /\ Earned[n] \in Int /\ pnl[n] \in Int
                     /\ Earned[n] - d <= Scale * pnl[n] /\ Scale * pnl[n] <= Earned[n]
    BY <2>1, RecordedProfit
  <2>7. d \in Nat
    <3> DEFINE m == Len(trades) - h
    <3>1. m \in Nat
      BY <2>4
    <3> HIDE DEF m
    <3>2. Scale * m \in Nat
      BY <2>5, <3>1
    <3> QED
      BY <3>2 DEF m
  <2>8. d * h = Scale * h * (Len(trades) - h)
    BY <2>4, <2>5
  <2> HIDE DEF d, S, sum
  <2>9. /\ SumOver(Earned, S) - d * h <= Scale * SumOver(pnl, S)
        /\ Scale * SumOver(pnl, S) <= SumOver(Earned, S)
    BY <2>4, <2>5, <2>6, <2>7, SumBetween
  <2> QED
    BY <2>3, <2>8, <2>9
<1> QED
  BY <1>1, InitRecord, NextRecord, PTL DEF ReportSpec
=============================================================================
