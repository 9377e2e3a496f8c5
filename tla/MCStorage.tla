------------------------------ MODULE MCStorage ------------------------------
(* A small instance of Storage for TLC. *)
EXTENDS Storage

CONSTANTS c1, c2, s1, t1

TwoCallers == {c1, c2}
OneStrategy == {s1}
OneName == {"a"}
OneTrade == {t1}
TwoVersions == {1, 2}
TwoKeys == {"k1", "k2"}

\* Half-hours, in days of three hours.  Clocks change on the day 1, at midnight, an hour
\* after it or an hour before the next, or do not change; west of Greenwich, there, and an
\* hour and a half east of it.
Moments == 3..15
Days == 0..3
Changes ==
  {[zone |-> z, at |-> 6 + a - z, by |-> b] : z \in {-2, 0, 3}, a \in {0, 2, 4}, b \in {-2, 2}}
Places == Changes \cup {[zone |-> 2, at |-> 4, by |-> 0]}
=============================================================================
