----------------------------- MODULE StorageProofs -----------------------------
(***************************************************************************)
(* Proofs about Storage, for any number of callers, strategies and keys.   *)
(***************************************************************************)
EXTENDS Storage, TLAPS

Pending == [id : Strategy, row : Row, set : Row]

StrategyType ==
  /\ strategies \in [Strategy -> Row \cup {NoRow}]
  /\ asked \in [Strategy -> Row \cup {NoRow}]
  /\ update \in [Caller -> Pending \cup {NoRow}]

\* An update whose row nobody has written since is about to write what it should.
UpToDate ==
  \A c \in Caller \ stale : ~ Idle(c) =>
    /\ strategies[update[c].id] # NoRow
    /\ update[c].row = Filled(update[c].set, strategies[update[c].id])

StrategyInv == StrategyType /\ UpToDate /\ StrategiesAsAsked

\* The row of the API key is what the last SaveAPIKey made of it.
SealedAsKept ==
  apiKey # NoRow =>
    LET n1 == <<kept.by, kept.content, 1>>
        n2 == <<kept.by, kept.content, 2>>
    IN  apiKey = [key |-> [by |-> kept.by, nonce |-> n1, text |-> <<"key", kept.content>>],
                  secret |-> [by |-> kept.by, nonce |-> n2, text |-> <<"secret", kept.content>>],
                  nonce |-> <<n1, n2>>]

-----------------------------------------------------------------------------

LEMMA PendingIsRow == \A u \in Pending : u # NoRow
<1>1. \A u \in Pending : "id" \in DOMAIN u
  BY DEF Pending
<1>2. DOMAIN NoRow = {}
  BY DEF NoRow
<1>. QED
  BY <1>1, <1>2

LEMMA RowIsRow == \A r \in Row : r # NoRow
<1>1. \A r \in Row : "name" \in DOMAIN r
  BY DEF Row
<1>2. DOMAIN NoRow = {}
  BY DEF NoRow
<1>. QED
  BY <1>1, <1>2

LEMMA FilledIsRow == ASSUME NEW r \in Row, NEW e \in Row PROVE Filled(r, e) \in Row
BY DEF Filled, Row

\* A row that is written whole, or deleted.
LEMMA WriteKeeps ==
  ASSUME StrategyInv, NEW c \in Caller, NEW s \in Strategy, NEW r \in Row \cup {NoRow},
         Idle(c), Overtakes(s, c),
         strategies' = [strategies EXCEPT ![s] = r], asked' = [asked EXCEPT ![s] = r],
         UNCHANGED <<update, overtaken>>
  PROVE  StrategyInv'
<1>1. StrategyType'
  BY DEF StrategyInv, StrategyType
<1>2. UpToDate'
  <2>. SUFFICES ASSUME NEW d \in Caller \ stale', update[d] # NoRow
       PROVE  /\ strategies'[update[d].id] # NoRow
              /\ update[d].row = Filled(update[d].set, strategies'[update[d].id])
    BY Zenon DEF UpToDate, Idle
  <2>1. d # c /\ d \notin stale /\ update[d].id # s
    BY DEF Overtakes, Idle
  <2>2. update[d].id \in Strategy
    BY DEF StrategyInv, StrategyType, Pending
  <2>. QED
    BY <2>1, <2>2 DEF StrategyInv, StrategyType, UpToDate, Idle
<1>3. StrategiesAsAsked'
  BY DEF StrategyInv, StrategyType, StrategiesAsAsked
<1>. QED
  BY <1>1, <1>2, <1>3 DEF StrategyInv

LEMMA ReadKeeps ==
  ASSUME StrategyInv, NEW c \in Caller, NEW s \in Strategy, NEW r \in Row, ReadForUpdate(c, s, r)
  PROVE  StrategyInv'
<1>. DEFINE u == [id |-> s, row |-> Filled(r, strategies[s]), set |-> r]
<1>1. strategies[s] \in Row /\ u \in Pending
  BY FilledIsRow DEF ReadForUpdate, StrategyInv, StrategyType, Pending
<1>2. update' = [update EXCEPT ![c] = u] /\ UNCHANGED <<strategies, asked, stale, overtaken>>
  BY DEF ReadForUpdate
<1>3. StrategyType'
  BY <1>1, <1>2 DEF StrategyInv, StrategyType
<1>4. UpToDate'
  <2>. SUFFICES ASSUME NEW d \in Caller \ stale, update'[d] # NoRow
       PROVE  /\ strategies[update'[d].id] # NoRow
              /\ update'[d].row = Filled(update'[d].set, strategies[update'[d].id])
    BY <1>2, Zenon DEF UpToDate, Idle
  <2>1. CASE d = c
    <3>1. update'[d] = u
      BY <1>2, <2>1 DEF StrategyInv, StrategyType
    <3>. QED
      BY <3>1 DEF ReadForUpdate
  <2>2. CASE d # c
    <3>1. update'[d] = update[d]
      BY <1>2, <2>2 DEF StrategyInv, StrategyType
    <3>. QED
      BY <3>1 DEF StrategyInv, UpToDate, Idle
  <2>. QED
    BY <2>1, <2>2
<1>5. StrategiesAsAsked'
  BY <1>2 DEF StrategyInv, StrategiesAsAsked
<1>. QED
  BY <1>3, <1>4, <1>5 DEF StrategyInv

LEMMA WriteUpdateKeeps ==
  ASSUME StrategyInv, NEW c \in Caller, WriteUpdate(c)
  PROVE  StrategyInv'
<1>. DEFINE s == update[c].id
            set == update[c].set
            laid == [name |-> IF set.name = Empty THEN asked[s].name ELSE set.name,
                     enabled |-> set.enabled]
<1>1. s \in Strategy /\ update[c].row \in Row /\ set \in Row
  BY DEF WriteUpdate, Idle, StrategyInv, StrategyType, Pending
<1>2. /\ strategies' = [strategies EXCEPT ![s] = update[c].row]
      /\ update' = [update EXCEPT ![c] = NoRow]
      /\ asked' = [asked EXCEPT ![s] = IF asked[s] = NoRow THEN NoRow ELSE laid]
      /\ overtaken' = overtaken \cup (IF c \in stale THEN {s} ELSE {})
      /\ stale' = (stale \ {c}) \cup {d \in Caller \ {c} : ~ Idle(d) /\ update[d].id = s}
  BY DEF WriteUpdate, Upsert, StrategyInv, StrategyType
<1>3. asked[s] \in Row \/ asked[s] = NoRow
  BY <1>1 DEF StrategyInv, StrategyType
<1>4. asked[s] \in Row => laid \in Row
  BY <1>1 DEF Row
<1>5. StrategyType'
  BY <1>1, <1>2, <1>3, <1>4 DEF StrategyInv, StrategyType
<1>6. UpToDate'
  <2>. SUFFICES ASSUME NEW d \in Caller \ stale', update'[d] # NoRow
       PROVE  /\ strategies'[update'[d].id] # NoRow
              /\ update'[d].row = Filled(update'[d].set, strategies'[update'[d].id])
    BY Zenon DEF UpToDate, Idle
  <2>1. d # c /\ update'[d] = update[d]
    BY <1>2 DEF StrategyInv, StrategyType
  <2>2. d \notin stale /\ update[d].id # s
    BY <2>1, <1>2 DEF Idle
  <2>3. update[d].id \in Strategy
    BY <2>1 DEF StrategyInv, StrategyType, Pending
  <2>4. strategies'[update[d].id] = strategies[update[d].id]
    BY <2>2, <2>3, <1>2 DEF StrategyInv, StrategyType
  <2>. QED
    BY <2>1, <2>2, <2>4 DEF StrategyInv, UpToDate, Idle
<1>7. StrategiesAsAsked'
  <2>. SUFFICES ASSUME NEW t \in Strategy \ overtaken' PROVE strategies'[t] = asked'[t]
    BY DEF StrategiesAsAsked
  <2>1. t \notin overtaken /\ strategies[t] = asked[t]
    BY <1>2 DEF StrategyInv, StrategiesAsAsked
  <2>2. CASE t # s
    BY <2>1, <2>2, <1>1, <1>2 DEF StrategyInv, StrategyType
  <2>3. CASE t = s
    <3>1. c \notin stale
      BY <2>3, <1>2
    <3>2. strategies[s] # NoRow /\ update[c].row = Filled(set, strategies[s])
      BY <3>1 DEF StrategyInv, UpToDate, WriteUpdate
    <3>3. asked[s] \in Row /\ strategies[s] = asked[s]
      BY <3>2, <2>1, <2>3, <1>3
    <3>4. Filled(set, asked[s]) = laid
      BY <3>3, <1>1 DEF Filled, Row
    <3>5. strategies'[s] = update[c].row /\ asked'[s] = laid
      BY <3>2, <3>3, <1>1, <1>2 DEF StrategyInv, StrategyType
    <3>. QED
      BY <2>3, <3>2, <3>3, <3>4, <3>5
  <2>. QED
    BY <2>2, <2>3
<1>. QED
  BY <1>5, <1>6, <1>7 DEF StrategyInv

\* Updates that come to nothing, one of them or all.
LEMMA FailKeeps ==
  ASSUME StrategyInv, UNCHANGED <<strategies, asked, overtaken>>,
         update' \in [Caller -> Pending \cup {NoRow}],
         \A c \in Caller : update'[c] = NoRow \/ (update'[c] = update[c] /\ (c \in stale => c \in stale'))
  PROVE  StrategyInv'
<1>1. StrategyType'
  BY DEF StrategyInv, StrategyType
<1>2. UpToDate'
  <2>. SUFFICES ASSUME NEW d \in Caller \ stale', update'[d] # NoRow
       PROVE  /\ strategies'[update'[d].id] # NoRow
              /\ update'[d].row = Filled(update'[d].set, strategies'[update'[d].id])
    BY Zenon DEF UpToDate, Idle
  <2>1. update'[d] = update[d] /\ d \notin stale
    OBVIOUS
  <2>. QED
    BY <2>1 DEF StrategyInv, UpToDate, Idle
<1>3. StrategiesAsAsked'
  BY DEF StrategyInv, StrategiesAsAsked
<1>. QED
  BY <1>1, <1>2, <1>3 DEF StrategyInv

\* For any callers and strategies, and any failures and restarts, the table holds what
\* was asked for; only an update overtaken between its two statements can break it.
THEOREM StrategiesStayAsAsked == Spec => []StrategiesAsAsked
<1>1. Init => StrategyInv
  BY DEF Init, StrategyInv, StrategyType, UpToDate, StrategiesAsAsked, Idle
<1>2. ASSUME StrategyInv, [Next]_vars PROVE StrategyInv'
  <2>1. ASSUME NEW c \in Caller, NEW s \in Strategy, DeleteStrategy(c, s) PROVE StrategyInv'
    BY <1>2, <2>1, WriteKeeps DEF DeleteStrategy
  <2>2. ASSUME NEW c \in Caller, NEW s \in Strategy, NEW r \in Row, SaveStrategy(c, s, r)
        PROVE  StrategyInv'
    BY <1>2, <2>2, WriteKeeps DEF SaveStrategy, Upsert
  <2>3. ASSUME NEW c \in Caller, FailUpdate(c) PROVE StrategyInv'
    <3>1. /\ update' \in [Caller -> Pending \cup {NoRow}]
          /\ \A d \in Caller : update'[d] = NoRow
               \/ (update'[d] = update[d] /\ (d \in stale => d \in stale'))
      BY <1>2, <2>3 DEF FailUpdate, StrategyInv, StrategyType
    <3>. QED
      BY <1>2, <2>3, <3>1, FailKeeps DEF FailUpdate
  <2>4. ASSUME NEW k, Restart(k) PROVE StrategyInv'
    <3>1. /\ update' \in [Caller -> Pending \cup {NoRow}]
          /\ \A d \in Caller : update'[d] = NoRow
      BY <2>4 DEF Restart
    <3>. QED
      BY <1>2, <2>4, <3>1, FailKeeps DEF Restart
  <2>5. CASE UNCHANGED strategyVars
    BY <1>2, <2>5 DEF strategyVars, StrategyInv, StrategyType, UpToDate, StrategiesAsAsked, Idle
  <2>6. CASE \/ \E t \in TradeId, u \in Time : SaveTrade(t, u)
             \/ \E v \in Version : SaveAPIKey(v)
             \/ DeleteAPIKey
             \/ UNCHANGED vars
    BY <2>5, <2>6, Zenon DEF SaveTrade, SaveAPIKey, DeleteAPIKey, vars
  <2>. QED
    BY <1>2, <2>1, <2>2, <2>3, <2>4, <2>6, ReadKeeps, WriteUpdateKeeps DEF Next
<1>3. StrategyInv => StrategiesAsAsked
  BY DEF StrategyInv
<1>. QED
  BY <1>1, <1>2, <1>3, PTL DEF Spec

\* Under the key it was saved with an API key reads back as it was saved last, and under
\* another not at all, for any history of saves, deletions and restarts.
THEOREM KeysStayReadable == Spec => []KeysReadBack
<1>1. Init => SealedAsKept
  BY DEF Init, SealedAsKept
<1>2. ASSUME SealedAsKept, [Next]_vars PROVE SealedAsKept'
  <2>1. ASSUME NEW v \in Version, SaveAPIKey(v) PROVE SealedAsKept'
    BY <2>1 DEF SaveAPIKey, SealedAsKept, Stored, encrypt
  <2>2. CASE DeleteAPIKey
    BY <2>2 DEF DeleteAPIKey, SealedAsKept
  <2>3. CASE UNCHANGED keyVars
    BY <1>2, <2>3 DEF keyVars, SealedAsKept
  <2>. QED
    BY <1>2, <2>1, <2>2, <2>3, Zenon DEF Next, SaveTrade, Restart, vars
<1>3. SealedAsKept => KeysReadBack
  BY DEF SealedAsKept, KeysReadBack, GetAPIKey, decrypt
<1>. QED
  BY <1>1, <1>2, <1>3, PTL DEF Spec

-----------------------------------------------------------------------------
(***************************************************************************)
(* Days.                                                                   *)
(***************************************************************************)

LEMMA Division ==
  ASSUME NEW a \in Int, NEW n \in Nat \ {0}
  PROVE  /\ a \div n \in Int /\ a % n \in 0..(n - 1)
         /\ (a \div n) * n \in Int /\ a = (a \div n) * n + (a % n)
<1>1. a \div n \in Int /\ a % n \in 0..(n - 1) /\ a = n * (a \div n) + (a % n)
  OBVIOUS
<1> DEFINE e == a \div n
<1> HIDE DEF e
<1>2. e \in Int => e * n \in Int /\ e * n = n * e
  OBVIOUS
<1> QED
  BY <1>1, <1>2 DEF e

\* The start of the day a clock time is in.
LEMMA DayOf ==
  ASSUME NEW a \in Int, NEW n \in Nat \ {0}
  PROVE  a \div n \in Int /\ (a \div n) * n <= a /\ a < (a \div n) * n + n
<1> DEFINE r == a % n
           x == (a \div n) * n
<1>1. a \div n \in Int /\ x \in Int /\ r \in 0..(n - 1) /\ a = x + r
  BY Division
<1> HIDE DEF r, x
<1>2. x <= a /\ a < x + n
  BY <1>1
<1> QED
  BY <1>1, <1>2 DEF x

\* Days come one after the other.
LEMMA DaysApart ==
  ASSUME NEW d \in Int, NEW e \in Int, NEW n \in Nat \ {0}
  PROVE  /\ d * n \in Int
         /\ d < e => d * n + n <= e * n
         /\ d = e => d * n = e * n
<1>1. ASSUME d < e PROVE d * n + n <= e * n
  <2> DEFINE k == e - d - 1
  <2>1. k \in Nat /\ e = d + 1 + k
    BY <1>1
  <2> HIDE DEF k
  <2>2. e * n = d * n + n + k * n
    BY <2>1
  <2>3. k * n \in Nat /\ d * n \in Int
    BY <2>1
  <2> DEFINE x == k * n
             y == d * n
             z == e * n
  <2>4. z = y + n + x /\ x \in Nat /\ y \in Int
    BY <2>2, <2>3
  <2> HIDE DEF x, y, z
  <2>5. y + n <= z
    BY <2>4
  <2> QED
    BY <2>5 DEF y, z
<1> QED
  BY <1>1

\* And the days next to a day.
LEMMA DaysAround ==
  ASSUME NEW d \in Int, NEW e \in Int, NEW n \in Nat \ {0}
  PROVE  /\ e = d + 1 => e * n = d * n + n
         /\ e > d + 1 => d * n + n + n <= e * n
         /\ e = d - 1 => e * n = d * n - n
         /\ e < d - 1 => e * n + n + n <= d * n
<1>1. d + 1 \in Int /\ d - 1 \in Int /\ d * n \in Int /\ e * n \in Int
  OBVIOUS
<1>2. (d + 1) * n = d * n + n /\ (d - 1) * n = d * n - n
  OBVIOUS
<1>3. e > d + 1 => (d + 1) * n + n <= e * n
  BY <1>1, DaysApart
<1>4. e < d - 1 => e * n + n <= (d - 1) * n
  BY <1>1, DaysApart
<1> QED
  BY <1>1, <1>2, <1>3, <1>4

\* A clock change is at midnight, or an hour or more away from it.
LEMMA ChangeInDay ==
  ASSUME NEW p \in Place
  PROVE  LET C == ChangeDay(p) * DayLength
             B == p.at + p.zone
         IN  /\ ChangeDay(p) \in Int /\ C \in Int /\ B \in Int
             /\ B = C \/ (C + HourLength <= B /\ B <= C + DayLength - HourLength)
<1> DEFINE N == DayLength
           B == p.at + p.zone
           r == B % N
           C == ChangeDay(p) * N
<1>1. N \in Nat \ {0} /\ HourLength \in Nat \ {0} /\ B \in Int /\ r \in {0} \cup HourLength..(N - HourLength)
  BY DayAssumption, PlaceAssumption
<1>2. ChangeDay(p) \in Int /\ C \in Int /\ B = C + r
  BY <1>1, Division DEF ChangeDay
<1> HIDE DEF B, r, C
<1>3. B = C \/ (C + HourLength <= B /\ B <= C + N - HourLength)
  BY <1>1, <1>2
<1> QED
  BY <1>1, <1>2, <1>3 DEF B, C

\* Whether a moment is after the change.
Late(p, u) == u >= p.at

LEMMA ClockOf ==
  ASSUME NEW p \in Place, NEW u \in Int
  PROVE  /\ Offset(p, u) \in Int /\ Clock(p, u) \in Int
         /\ Late(p, u) => Offset(p, u) = p.zone + p.by /\ Clock(p, u) = u + p.zone + p.by
         /\ ~ Late(p, u) => Offset(p, u) = p.zone /\ Clock(p, u) = u + p.zone
         /\ Late(p, u) <=> u + p.zone >= p.at + p.zone
<1>1. p.zone \in Int /\ p.at \in Int /\ p.by \in Int
  BY PlaceAssumption, DayAssumption
<1> QED
  BY <1>1 DEF Offset, Clock, Late

\* Texts are ordered by the clock; at the same clock time, only the offset can differ.
LEMMA TextOrder ==
  ASSUME NEW p \in Place, NEW u \in Int, NEW v \in Int
  PROVE  /\ Clock(p, u) < Clock(p, v) => Before(Text(p, u), Text(p, v))
         /\ Clock(p, u) > Clock(p, v) => ~ Before(Text(p, u), Text(p, v))
         /\ Clock(p, u) = Clock(p, v) /\ (Late(p, u) <=> Late(p, v))
              => ~ Before(Text(p, u), Text(p, v))
<1>1. /\ Clock(p, u) \in Int /\ Clock(p, v) \in Int /\ Offset(p, u) \in Int /\ Offset(p, v) \in Int
      /\ (Late(p, u) <=> Late(p, v)) => Offset(p, u) = Offset(p, v)
  BY ClockOf
<1>2. \A o \in Int : ~ OffsetBefore(o, o)
  BY DEF OffsetBefore
<1> QED
  BY <1>1, <1>2 DEF Before, Text

\* Where time.Date has a day start, by the time before the change.
Start(p, e) == StartOfDay(p, e) + p.zone

LEMMA StartIs ==
  ASSUME NEW p \in Place, NEW e \in Int
  PROVE  LET c == ChangeDay(p)
             E == e * DayLength
             B == p.at + p.zone
         IN  /\ StartOfDay(p, e) \in Int /\ Start(p, e) \in Int /\ E \in Int
             /\ e < c \/ p.by = 0 => Start(p, e) = E
             /\ e > c => Start(p, e) = E - p.by
             /\ e = c /\ p.by > 0 => Start(p, e) = IF StartsEarly(p) THEN E - p.by ELSE E
             /\ e = c /\ p.by < 0 /\ B = E => Start(p, e) = E - p.by
             /\ e = c /\ p.by < 0 /\ B # E => Start(p, e) = E \/ (Start(p, e) = E - p.by /\ B = E - p.by)
<1> DEFINE N == DayLength
           H == HourLength
           c == ChangeDay(p)
           C == c * N
           E == e * N
           B == p.at + p.zone
           Z == p.zone
           s == p.by
           o == Offset(p, E)
           S == Start(p, e)
<1>1. N \in Nat \ {0} /\ H \in Nat \ {0} /\ 2 * H <= N /\ Z \in Int /\ s \in {-H, 0, H}
  BY DayAssumption, PlaceAssumption
<1>2. c \in Int /\ C \in Int /\ B \in Int /\ (B = C \/ (C + H <= B /\ B <= C + N - H))
  BY ChangeInDay
<1>3. E \in Int /\ (e < c => E + N <= C) /\ (c < e => C + N <= E) /\ (e = c => E = C)
  BY <1>1, <1>2, DaysApart
<1> HIDE DEF C, E
<1>4. o \in Int /\ o = IF E + Z >= B THEN Z + s ELSE Z
  BY <1>3, ClockOf
<1>5. Offset(p, E - o) = IF E - o + Z >= B THEN Z + s ELSE Z
  BY <1>3, <1>4, ClockOf
<1>6. StartOfDay(p, e) = E - Offset(p, E - o)
  BY DEF StartOfDay, E, o
<1>7. S = E - (IF E - o + Z >= B THEN s ELSE 0) /\ StartOfDay(p, e) \in Int /\ S \in Int
  BY <1>1, <1>3, <1>5, <1>6 DEF Start
<1>8. StartsEarly(p) <=> s > 0 /\ Z < 0 /\ B = C
  BY DEF StartsEarly, C
<1> HIDE DEF N, H, c, B, Z, s, o, S
<1>9. e < c \/ s = 0 => S = E
  BY <1>1, <1>2, <1>3, <1>4, <1>7
<1>10. e > c => S = E - s
  BY <1>1, <1>2, <1>3, <1>4, <1>7
<1>11. e = c /\ s > 0 => S = IF StartsEarly(p) THEN E - s ELSE E
  BY <1>1, <1>2, <1>3, <1>4, <1>7, <1>8
<1>12. e = c /\ s < 0 /\ B = E => S = E - s
  BY <1>1, <1>2, <1>3, <1>4, <1>7
<1>13. e = c /\ s < 0 /\ B # E => S = E \/ (S = E - s /\ B = E - s)
  BY <1>1, <1>2, <1>3, <1>4, <1>7
<1> QED
  BY <1>3, <1>7, <1>9, <1>10, <1>11, <1>12, <1>13 DEF N, c, E, B, s, S

\* What decides whether a trade is on a list, when only an offset does not.
LEMMA Within ==
  ASSUME NEW p \in Place, NEW u \in Int, NEW e \in Int
  PROVE  LET B == p.at + p.zone
             v == u + p.zone
             S == Start(p, e)
             T == S + DayLength
             clock(x) == IF x >= B THEN x + p.by ELSE x
         IN  /\ Clock(p, u) = clock(v)
             /\ clock(v) < clock(S) => ~ WithinDay(p, u, e)
             /\ clock(v) > clock(T) => ~ WithinDay(p, u, e)
             /\ clock(v) = clock(T) /\ (v >= B <=> T >= B) => ~ WithinDay(p, u, e)
             /\ (clock(v) > clock(S) \/ (clock(v) = clock(S) /\ (v >= B <=> S >= B))) /\ clock(v) < clock(T)
                  => WithinDay(p, u, e)
<1> DEFINE a == StartOfDay(p, e)
           b == a + DayLength
           B == p.at + p.zone
           v == u + p.zone
           S == Start(p, e)
           T == S + DayLength
           clock(x) == IF x >= B THEN x + p.by ELSE x
<1>1. p.zone \in Int /\ p.at \in Int /\ p.by \in Int /\ DayLength \in Nat
  BY PlaceAssumption, DayAssumption
<1>2. a \in Int /\ b \in Int /\ S = a + p.zone /\ T = b + p.zone
  BY <1>1, StartIs DEF Start
<1>3. /\ Clock(p, u) = clock(v) /\ Clock(p, a) = clock(S) /\ Clock(p, b) = clock(T)
      /\ (Late(p, u) <=> v >= B) /\ (Late(p, a) <=> S >= B) /\ (Late(p, b) <=> T >= B)
      /\ Clock(p, u) \in Int /\ Clock(p, a) \in Int /\ Clock(p, b) \in Int
  BY <1>1, <1>2, ClockOf
<1>4. WithinDay(p, u, e) <=> ~ Before(Text(p, u), Text(p, a)) /\ Before(Text(p, u), Text(p, b))
  BY DEF WithinDay
<1> HIDE DEF a, b, B, v, S, T, clock
<1>5. /\ Clock(p, u) < Clock(p, a) => Before(Text(p, u), Text(p, a))
      /\ Clock(p, u) > Clock(p, a) => ~ Before(Text(p, u), Text(p, a))
      /\ Clock(p, u) = Clock(p, a) /\ (Late(p, u) <=> Late(p, a)) => ~ Before(Text(p, u), Text(p, a))
  BY <1>2, TextOrder
<1>6. /\ Clock(p, u) < Clock(p, b) => Before(Text(p, u), Text(p, b))
      /\ Clock(p, u) > Clock(p, b) => ~ Before(Text(p, u), Text(p, b))
      /\ Clock(p, u) = Clock(p, b) /\ (Late(p, u) <=> Late(p, b)) => ~ Before(Text(p, u), Text(p, b))
  BY <1>2, TextOrder
<1>7. /\ clock(v) < clock(S) => ~ WithinDay(p, u, e)
      /\ clock(v) > clock(T) => ~ WithinDay(p, u, e)
      /\ clock(v) = clock(T) /\ (v >= B <=> T >= B) => ~ WithinDay(p, u, e)
      /\ (clock(v) > clock(S) \/ (clock(v) = clock(S) /\ (v >= B <=> S >= B))) /\ clock(v) < clock(T)
           => WithinDay(p, u, e)
  BY <1>3, <1>4, <1>5, <1>6
<1> QED
  BY <1>3, <1>7 DEF B, v, S, T, clock

\* The lists a trade is on.
LEMMA ListsOf ==
  ASSUME NEW p \in Place, NEW u \in Int, NEW e \in Int
  PROVE  LET d == LocalDay(p, u)
             c == ChangeDay(p)
         IN  /\ p.by = 0 => (WithinDay(p, u, e) <=> e = d)
             /\ p.by > 0 =>
                  (WithinDay(p, u, e) <=>
                     \/ e = d
                     \/ e = d - 1 /\ ~ StartsEarly(p) /\ InFirstHour(p, u, c + 1)
                     \/ e = d + 1 /\ StartsEarly(p) /\ InLastHour(p, u, c - 1))
             /\ p.by < 0 =>
                  /\ WithinDay(p, u, e) => e = d \/ (e = d - 1 /\ MidnightRepeated(p, u))
                  /\ e = d => WithinDay(p, u, e) \/ MidnightRepeated(p, u)
                              \/ InLastHour(p, u, LocalDay(p, p.at))
<1> DEFINE N == DayLength
           H == HourLength
           c == ChangeDay(p)
           d == LocalDay(p, u)
           C == c * N
           E == e * N
           X == d * N
           B == p.at + p.zone
           s == p.by
           v == u + p.zone
           k == Clock(p, u)
           S == Start(p, e)
           T == S + N
           clock(x) == IF x >= B THEN x + s ELSE x
           W == WithinDay(p, u, e)
           early == StartsEarly(p)
<1>1. N \in Nat \ {0} /\ H \in Nat \ {0} /\ 2 * H <= N /\ s \in {-H, 0, H} /\ v \in Int
  BY DayAssumption, PlaceAssumption
<1>2. c \in Int /\ C \in Int /\ B \in Int /\ (B = C \/ (C + H <= B /\ B <= C + N - H))
  BY ChangeInDay
<1>3. k \in Int /\ k = clock(v)
  BY Within, ClockOf
<1>4. d \in Int /\ X <= k /\ k < X + N
  BY <1>1, <1>3, DayOf DEF LocalDay
<1>5. E \in Int /\ X \in Int /\ (e < c => E + N <= C) /\ (c < e => C + N <= E) /\ (e = c => E = C)
  BY <1>1, <1>2, <1>4, DaysApart
<1>6. (e < d => E + N <= X) /\ (d < e => X + N <= E) /\ (e = d => E = X)
  BY <1>1, <1>4, DaysApart
<1>7. (d < c => X + N <= C) /\ (c < d => C + N <= X) /\ (c = d => C = X)
  BY <1>1, <1>2, <1>4, DaysApart
<1>around. /\ d = c + 1 => X = C + N
           /\ d > c + 1 => C + N + N <= X
           /\ d = c - 1 => X = C - N
           /\ d < c - 1 => X + N + N <= C
  BY <1>1, <1>2, <1>4, DaysAround
<1>zone. p.at \in Int /\ p.zone \in Int /\ p.by \in Int
  BY DayAssumption, PlaceAssumption
<1>edges. (e = c - 1 => E = C - N) /\ (e < c - 1 => E + N + N <= C)
  BY <1>1, <1>2, DaysAround
<1>8. /\ S \in Int
      /\ e < c \/ s = 0 => S = E
      /\ e > c => S = E - s
      /\ e = c /\ s > 0 => S = IF early THEN E - s ELSE E
      /\ e = c /\ s < 0 /\ B = E => S = E - s
      /\ e = c /\ s < 0 /\ B # E => S = E \/ (S = E - s /\ B = E - s)
  BY StartIs
<1>9. /\ clock(v) < clock(S) => ~ W
      /\ clock(v) > clock(T) => ~ W
      /\ clock(v) = clock(T) /\ (v >= B <=> T >= B) => ~ W
      /\ (clock(v) > clock(S) \/ (clock(v) = clock(S) /\ (v >= B <=> S >= B))) /\ clock(v) < clock(T)
           => W
  BY Within
<1>10. early => s > 0 /\ B = C
  BY DEF StartsEarly
<1> HIDE DEF N, H, c, d, C, E, X, B, s, v, k, S, W, early
\* Clocks that do not change.
<1>11. s = 0 => (W <=> e = d)
  BY <1>1, <1>2, <1>3, <1>4, <1>5, <1>6, <1>8, <1>9
\* Clocks put forward: the hour after a day too long by one is on two lists.
<1>12. s > 0 /\ ~ early => (W <=> e = d \/ (e = d - 1 /\ d = c + 1 /\ k < X + H))
  <2>1. ASSUME s > 0, ~ early, e < c PROVE W <=> e = d
    BY <2>1, <1>1, <1>2, <1>3, <1>4, <1>5, <1>6, <1>7, <1>8, <1>9
  <2>2. ASSUME s > 0, ~ early, e > c PROVE W <=> e = d
    BY <2>2, <1>1, <1>2, <1>3, <1>4, <1>5, <1>6, <1>7, <1>8, <1>9
  <2>3. ASSUME s > 0, ~ early, e = c PROVE W <=> C <= k /\ k < C + N + H
    <3>1. S = C /\ T = C + N /\ s = H
      BY <2>3, <1>1, <1>5, <1>8 DEF T
    <3> QED
      BY <2>3, <3>1, <1>1, <1>2, <1>3, <1>5, <1>9
  <2>4. ASSUME s > 0, ~ early, e = c PROVE W <=> e = d \/ (e = d - 1 /\ k < X + H)
    <3>1. (C <= k /\ k < C + N + H) <=> e = d \/ (e = d - 1 /\ k < X + H)
      <4>1. CASE d = c \/ d < c
        BY <2>4, <4>1, <1>1, <1>2, <1>3, <1>4, <1>5, <1>7
      <4>2. CASE d = c + 1 \/ d > c + 1
        BY <2>4, <4>2, <1>1, <1>2, <1>3, <1>4, <1>5, <1>around
      <4> QED
        BY <4>1, <4>2, <1>2, <1>4
    <3> QED
      BY <2>3, <2>4, <3>1
  <2> QED
    BY <1>1, <1>2, <1>4, <2>1, <2>2, <2>4
\* They skip midnight, and the day starts early: the hour before it is on two lists.
<1>13. early => (W <=> e = d \/ (e = d + 1 /\ d = c - 1 /\ k >= X + N - H))
  <2>1. ASSUME early, e < c PROVE W <=> e = d
    BY <2>1, <1>1, <1>2, <1>3, <1>4, <1>5, <1>6, <1>7, <1>8, <1>9, <1>10
  <2>2. ASSUME early, e > c PROVE W <=> e = d
    BY <2>2, <1>1, <1>2, <1>3, <1>4, <1>5, <1>6, <1>7, <1>8, <1>9, <1>10
  <2>3. ASSUME early, e = c PROVE W <=> C - H <= k /\ k < C + N
    <3>1. S = C - H /\ T = C - H + N /\ s = H /\ B = C
      BY <2>3, <1>1, <1>5, <1>8, <1>10 DEF T
    <3> QED
      BY <2>3, <3>1, <1>1, <1>2, <1>3, <1>5, <1>9
  <2>4. ASSUME early, e = c PROVE W <=> e = d \/ (e = d + 1 /\ k >= X + N - H)
    <3>1. (C - H <= k /\ k < C + N) <=> e = d \/ (e = d + 1 /\ k >= X + N - H)
      <4>1. CASE d = c \/ d > c
        BY <2>4, <4>1, <1>1, <1>2, <1>3, <1>4, <1>5, <1>7
      <4>2. CASE d = c - 1 \/ d < c - 1
        BY <2>4, <4>2, <1>1, <1>2, <1>3, <1>4, <1>5, <1>around
      <4> QED
        BY <4>1, <4>2, <1>2, <1>4
    <3> QED
      BY <2>3, <2>4, <3>1
  <2> QED
    BY <1>1, <1>2, <1>4, <2>1, <2>2, <2>4
\* Clocks put back at midnight: the hour before it, which comes twice, is cut off.
<1>14. ASSUME s < 0, B = C
       PROVE  (W => e = d) /\ (e = d => W \/ (d = c - 1 /\ k >= X + N - H))
  <2>1. ASSUME e < c - 1 \/ e >= c PROVE W <=> e = d
    BY <1>14, <2>1, <1>1, <1>2, <1>3, <1>4, <1>5, <1>6, <1>7, <1>8, <1>9, <1>around
  <2>2. ASSUME e = c - 1 PROVE (W => e = d) /\ (e = d => W \/ k >= X + N - H)
    BY <1>14, <2>2, <1>1, <1>2, <1>3, <1>4, <1>5, <1>6, <1>7, <1>8, <1>9, <1>around
  <2> QED
    BY <1>2, <2>1, <2>2
\* Clocks put back later in a day: its last hour is cut off.
<1>15. ASSUME s < 0, B # C
       PROVE  /\ W => e = d \/ (e = d - 1 /\ k = X /\ k = B + s)
              /\ e = d => W \/ (k = X /\ k = B + s) \/ (d = c /\ k >= X + N - H)
  <2>1. s = - H /\ C + H <= B /\ B <= C + N - H
    BY <1>15, <1>1, <1>2
  <2>2. ASSUME e < c - 1 \/ e > c PROVE W <=> e = d
    <3>1. CASE e < c - 1
      BY <2>1, <3>1, <1>1, <1>2, <1>3, <1>4, <1>5, <1>6, <1>8, <1>9, <1>edges
    <3>2. CASE e > c
      BY <2>1, <3>2, <1>1, <1>2, <1>3, <1>4, <1>5, <1>6, <1>8, <1>9
    <3> QED
      BY <2>2, <3>1, <3>2
  <2>3. ASSUME e = c - 1
        PROVE  (W => e = d \/ (e = d - 1 /\ k = X /\ k = B + s)) /\ (e = d => W)
    <3>1. S = E /\ T = C /\ E = C - N
      BY <2>1, <2>3, <1>1, <1>2, <1>5, <1>8, <1>edges DEF T
    <3> QED
      BY <2>1, <2>3, <3>1, <1>1, <1>2, <1>3, <1>4, <1>5, <1>7, <1>9, <1>around
  <2>4. ASSUME e = c
        PROVE  (W => e = d) /\ (e = d => W \/ (k = X /\ k = B + s) \/ k >= X + N - H)
    <3>1. CASE S = C
      BY <2>1, <2>4, <3>1, <1>1, <1>2, <1>3, <1>4, <1>5, <1>7, <1>9
    <3>2. CASE S = C + H /\ B = C + H
      BY <2>1, <2>4, <3>2, <1>1, <1>2, <1>3, <1>4, <1>5, <1>7, <1>9
    <3> QED
      BY <1>15, <2>1, <2>4, <3>1, <3>2, <1>1, <1>2, <1>5, <1>8
  <2> QED
    BY <1>2, <2>2, <2>3, <2>4
\* In the terms of the property.
<1>16. /\ InFirstHour(p, u, c + 1) <=> d = c + 1 /\ k < X + H
       /\ InLastHour(p, u, c - 1) <=> d = c - 1 /\ k >= X + N - H
  BY DEF InFirstHour, InLastHour, N, H, d, X, k
<1>17. MidnightRepeated(p, u) <=> s < 0 /\ k = B + s /\ k = X
  <2>1. Clock(p, p.at) = B + s
    BY <1>zone, ClockOf DEF Late, B, s
  <2> QED
    BY <2>1 DEF MidnightRepeated, s, k, X, d, N
<1>18. s < 0 =>
         (InLastHour(p, u, LocalDay(p, p.at)) <=> d = (IF B = C THEN c - 1 ELSE c) /\ k >= X + N - H)
  <2> DEFINE g == LocalDay(p, p.at)
             G == g * N
  <2>1. Clock(p, p.at) = B + s /\ B + s \in Int
    BY <1>zone, ClockOf DEF Late, B, s
  <2>2. g \in Int /\ G \in Int /\ G <= B + s /\ B + s < G + N
    <3>1. g = (B + s) \div N
      BY <2>1 DEF LocalDay, N
    <3>2. N \in Nat \ {0}
      BY <1>1
    <3> QED
      BY <2>1, <3>1, <3>2, DayOf, DaysApart
  <2>3. /\ g < c => G + N <= C
        /\ c < g => C + N <= G
        /\ g = c => G = C
        /\ g < c - 1 => G + N + N <= C
    BY <1>1, <1>2, <2>2, DaysApart, DaysAround DEF C
  <2>4. InLastHour(p, u, g) <=> d = g /\ k >= X + N - H
    BY DEF InLastHour, N, H, d, X, k
  <2> HIDE DEF g, G
  <2>5. s < 0 => g = IF B = C THEN c - 1 ELSE c
    BY <1>1, <1>2, <2>2, <2>3
  <2> QED
    BY <2>4, <2>5 DEF g
<1>19. /\ s = 0 => (W <=> e = d)
       /\ s > 0 => (W <=> \/ e = d
                          \/ e = d - 1 /\ ~ early /\ InFirstHour(p, u, c + 1)
                          \/ e = d + 1 /\ early /\ InLastHour(p, u, c - 1))
       /\ s < 0 => /\ W => e = d \/ (e = d - 1 /\ MidnightRepeated(p, u))
                   /\ e = d => W \/ MidnightRepeated(p, u) \/ InLastHour(p, u, LocalDay(p, p.at))
  <2>1. CASE s = 0
    BY <2>1, <1>11
  <2>2. CASE s > 0
    <3>1. s # 0 /\ ~ (s < 0)
      BY <1>1, <2>2
    <3>2. W <=> \/ e = d
                \/ e = d - 1 /\ ~ early /\ d = c + 1 /\ k < X + H
                \/ e = d + 1 /\ early /\ d = c - 1 /\ k >= X + N - H
      BY <2>2, <1>12, <1>13, Zenon
    <3> QED
      BY <3>1, <3>2, <1>16, Zenon
  <2>3. CASE s < 0
    <3>1. s # 0 /\ ~ (s > 0)
      BY <1>1, <2>3
    <3>2. W => e = d \/ (e = d - 1 /\ MidnightRepeated(p, u))
      BY <2>3, <1>14, <1>15, <1>17, Zenon
    <3>3. e = d => W \/ MidnightRepeated(p, u) \/ InLastHour(p, u, LocalDay(p, p.at))
      <4>1. CASE B = C
        BY <2>3, <4>1, <1>14, <1>18, Zenon
      <4>2. CASE B # C
        BY <2>3, <4>2, <1>15, <1>17, <1>18, Zenon
      <4> QED
        BY <4>1, <4>2
    <3> QED
      BY <3>1, <3>2, <3>3, Zenon
  <2> QED
    BY <1>1, <2>1, <2>2, <2>3
<1> QED
  BY <1>19 DEF d, c, s, W, early

TradeInv ==
  /\ \A t \in TradeId : trades[t] # NoRow => trades[t][1] \in Int
  /\ DOMAIN trades = TradeId

\* Wherever local time is, whatever moments trades are saved at, and whenever and whichever
\* way the clock changes: each trade is on the list of its own day alone, but for the hour
\* that a 24-hour day cuts off or takes in, and the second of a midnight that comes twice.
THEOREM TradesHaveOneDay == Spec => []EachTradeOneDay
<1>1. Init => TradeInv
  BY DEF Init, TradeInv
<1>2. ASSUME TradeInv, [Next]_vars PROVE TradeInv'
  <2>1. ASSUME NEW t \in TradeId, NEW u \in Time, SaveTrade(t, u) PROVE TradeInv'
    <3>1. trades' = [trades EXCEPT ![t] = IF trades[t] = NoRow THEN <<u>> ELSE trades[t]]
      BY <2>1 DEF SaveTrade
    <3>2. DOMAIN trades' = TradeId
      BY <1>2, <3>1 DEF TradeInv
    <3>3. ASSUME NEW w \in TradeId, trades'[w] # NoRow PROVE trades'[w][1] \in Int
      <4>1. CASE w = t /\ trades[t] = NoRow
        <5>1. trades'[w] = <<u>>
          BY <1>2, <3>1, <4>1 DEF TradeInv
        <5>2. u \in Int
          BY DayAssumption
        <5> QED
          BY <5>1, <5>2
      <4>2. CASE ~ (w = t /\ trades[t] = NoRow)
        <5>1. trades'[w] = trades[w]
          BY <1>2, <3>1, <4>2 DEF TradeInv
        <5> QED
          BY <1>2, <3>3, <5>1 DEF TradeInv
      <4> QED
        BY <4>1, <4>2
    <3> QED
      BY <3>2, <3>3 DEF TradeInv
  <2>2. CASE UNCHANGED trades
    BY <1>2, <2>2 DEF TradeInv
  <2> QED
    BY <1>2, <2>1, <2>2, Zenon DEF Next, SaveAPIKey, DeleteAPIKey, Restart, vars
<1>3. ASSUME TradeInv, NEW t \in TradeId, NEW p \in Place, trades[t] # NoRow
      PROVE  LET u == trades[t][1]
                 d == LocalDay(p, u)
                 lists == {e \in Day : t \in ListTradesByDate(p, e)}
                 Listed(days) == lists = Day \cap days
             IN  \/ Listed({d})
                 \/ p.by < 0 /\ InLastHour(p, u, LocalDay(p, p.at)) /\ Listed({})
                 \/ p.by > 0 /\ ~ StartsEarly(p) /\ InFirstHour(p, u, ChangeDay(p) + 1) /\ Listed({d - 1, d})
                 \/ StartsEarly(p) /\ InLastHour(p, u, ChangeDay(p) - 1) /\ Listed({d, d + 1})
                 \/ MidnightRepeated(p, u) /\ \E days \in SUBSET {d - 1, d} : Listed(days)
  <2> DEFINE u == trades[t][1]
             d == LocalDay(p, u)
             c == ChangeDay(p)
             lists == {e \in Day : t \in ListTradesByDate(p, e)}
             first == InFirstHour(p, u, c + 1)
             last == InLastHour(p, u, c - 1)
             late == InLastHour(p, u, LocalDay(p, p.at))
             twice == MidnightRepeated(p, u)
             early == StartsEarly(p)
  <2>1. u \in Int /\ Day \subseteq Int /\ p.by \in Int
    BY <1>3, DayAssumption, PlaceAssumption DEF TradeInv
  <2>2. d \in Int
    BY <2>1, DayAssumption, ClockOf DEF LocalDay
  <2>3. lists = {e \in Day : WithinDay(p, u, e)}
    BY <1>3 DEF ListTradesByDate
  <2>4. ASSUME NEW e \in Day
        PROVE  /\ p.by = 0 => (WithinDay(p, u, e) <=> e = d)
               /\ p.by > 0 => (WithinDay(p, u, e) <=> \/ e = d
                                                      \/ e = d - 1 /\ ~ early /\ first
                                                      \/ e = d + 1 /\ early /\ last)
               /\ p.by < 0 => /\ WithinDay(p, u, e) => e = d \/ (e = d - 1 /\ twice)
                              /\ e = d => WithinDay(p, u, e) \/ twice \/ late
    <3>1. e \in Int
      BY <2>1
    <3> QED
      BY <2>1, <3>1, ListsOf
  <2>5. StartsEarly(p) => p.by > 0
    BY DEF StartsEarly
  <2> HIDE DEF u, d, c, first, last, late, twice, early
  <2>6. CASE p.by = 0
    <3>1. lists = Day \cap {d}
      BY <2>3, <2>4, <2>6
    <3> QED
      BY <3>1 DEF d, u
  <2>7. CASE p.by > 0
    <3>1. CASE ~ early /\ first
      <4>1. lists = Day \cap {d - 1, d}
        BY <2>3, <2>4, <2>7, <3>1
      <4> QED
        BY <2>7, <3>1, <4>1 DEF d, u, early, first, c
    <3>2. CASE early /\ last
      <4>1. lists = Day \cap {d, d + 1}
        BY <2>3, <2>4, <2>7, <3>2
      <4> QED
        BY <3>2, <4>1 DEF d, u, early, last, c
    <3>3. CASE ~ (~ early /\ first) /\ ~ (early /\ last)
      <4>1. lists = Day \cap {d}
        BY <2>3, <2>4, <2>7, <3>3
      <4> QED
        BY <4>1 DEF d, u
    <3> QED
      BY <3>1, <3>2, <3>3
  <2>8. CASE p.by < 0
    <3>1. CASE twice
      <4> DEFINE days == {e \in {d - 1, d} : e \in lists}
      <4>1. lists \subseteq Day \cap {d - 1, d}
        BY <2>3, <2>4, <2>8
      <4>2. days \in SUBSET {d - 1, d} /\ lists = Day \cap days
        BY <4>1
      <4> QED
        BY <3>1, <4>2 DEF d, u, twice
    <3>2. CASE ~ twice /\ d \in lists
      <4>1. lists = Day \cap {d}
        BY <2>3, <2>4, <2>8, <3>2
      <4> QED
        BY <4>1 DEF d, u
    <3>3. CASE ~ twice /\ d \notin lists /\ d \in Day
      <4>1. late /\ lists = Day \cap {}
        BY <2>3, <2>4, <2>8, <3>3
      <4> QED
        BY <2>8, <4>1 DEF d, u, late
    <3>4. CASE ~ twice /\ d \notin Day
      <4>1. lists = Day \cap {d}
        BY <2>3, <2>4, <2>8, <3>4
      <4> QED
        BY <4>1 DEF d, u
    <3> QED
      BY <3>1, <3>2, <3>3, <3>4
  <2> QED
    BY <2>1, <2>6, <2>7, <2>8
<1>4. TradeInv => EachTradeOneDay
  BY <1>3 DEF EachTradeOneDay
<1>. QED
  BY <1>1, <1>2, <1>4, PTL DEF Spec
=============================================================================
