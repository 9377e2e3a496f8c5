-------------------------------- MODULE Storage --------------------------------
(***************************************************************************)
(* The SQLite store of internal/storage: the strategies, the trades and    *)
(* the API keys it keeps.  A statement takes effect at once or fails and   *)
(* changes nothing (SQLite reports a locked database); a call of several   *)
(* statements has no transaction around them.  What is committed outlives  *)
(* the program.                                                            *)
(*                                                                         *)
(* Of a strategy's columns one stands for those UpdateStrategy leaves as   *)
(* they are when the caller's field is empty (name, type, symbol, params), *)
(* besides the flag enabled, which it always writes.  A trade is its       *)
(* timestamp.  Encryption is symbolic: what is sealed opens under the same *)
(* key and nonce only.                                                     *)
(***************************************************************************)
EXTENDS Integers

CONSTANTS Caller,     \* goroutines that call the store
          Strategy,   \* strategy ids
          Name,       \* names, the empty one aside
          TradeId,
          Version,    \* contents an API key is saved with
          EnvKey,     \* values of STORAGE_ENCRYPTION_KEY
          Time,       \* moments trades are saved at, by universal time
          Day,        \* days trades are listed of
          DayLength,  \* the length of a day (24 hours in the code)
          HourLength, \* what local time is put forward or back by
          Place       \* local times, each with a change of the clock or none

ASSUME DayAssumption ==
  /\ Time \subseteq Int /\ Day \subseteq Int
  /\ {DayLength, HourLength} \subseteq Nat \ {0} /\ 2 * HourLength <= DayLength

\* Local time is ahead of universal time by "zone", and by "by" more from the moment "at"
\* on.  Clocks change at midnight, or an hour or more away from it.
ASSUME PlaceAssumption ==
  \A p \in Place :
    /\ p.zone \in Int /\ p.at \in Int /\ p.by \in {- HourLength, 0, HourLength}
    /\ (p.at + p.zone) % DayLength \in {0} \cup HourLength..(DayLength - HourLength)

VARIABLES strategies, \* the table: a row, or NoRow
          update,     \* the row each UpdateStrategy under way is about to write, or NoRow
          trades,     \* the table: the moment of each trade, or NoRow
          gcm,        \* the key the store encrypts with, NoKey when there is none
          apiKey,     \* the one row of the table of API keys, or NoRow
          asked,      \* history: the strategies as the calls that returned asked for
          stale,      \* history: callers whose row was written since they read it
          overtaken,  \* history: strategies such a caller wrote
          kept        \* history: what the last SaveAPIKey saved, and under which key

strategyVars == <<strategies, update, asked, stale, overtaken>>
keyVars == <<apiKey, kept>>
vars == <<strategyVars, trades, gcm, keyVars>>

NoRow == <<>>
NoKey == "no key"
Garbled == <<>>
Empty == "empty"
Row == [name : Name \cup {Empty}, enabled : BOOLEAN]

Init ==
  /\ strategies = [s \in Strategy |-> NoRow]
  /\ update = [c \in Caller |-> NoRow]
  /\ trades = [t \in TradeId |-> NoRow]
  /\ gcm \in EnvKey \cup {NoKey}
  /\ apiKey = NoRow
  /\ asked = strategies /\ stale = {} /\ overtaken = {}
  /\ kept = NoRow

-----------------------------------------------------------------------------
(***************************************************************************)
(* Strategies.                                                             *)
(***************************************************************************)

Idle(c) == update[c] = NoRow

\* Updates under way that read the row of s before it was written.
Overtakes(s, c) == stale' = stale \cup {d \in Caller \ {c} : ~ Idle(d) /\ update[d].id = s}

\* INSERT ... ON CONFLICT(id) DO UPDATE.
Upsert(s, row) == strategies' = [strategies EXCEPT ![s] = row]

SaveStrategy(c, s, row) ==
  /\ Idle(c)
  /\ Upsert(s, row)
  /\ asked' = [asked EXCEPT ![s] = row]
  /\ Overtakes(s, c)
  /\ UNCHANGED <<update, overtaken>>

DeleteStrategy(c, s) ==
  /\ Idle(c)
  /\ strategies' = [strategies EXCEPT ![s] = NoRow]
  /\ asked' = [asked EXCEPT ![s] = NoRow]
  /\ Overtakes(s, c)
  /\ UNCHANGED <<update, overtaken>>

\* Mutant of Filled: an empty name is written as it is.
FilledNot(row, existing) == row

\* What the caller left empty is taken from the row that is there.
Filled(row, existing) == [row EXCEPT !.name = IF @ = Empty THEN existing.name ELSE @]

\* UpdateStrategy reads the row; without one it is ErrNotFound.
ReadForUpdate(c, s, row) ==
  /\ Idle(c)
  /\ strategies[s] # NoRow
  /\ update' = [update EXCEPT ![c] = [id |-> s, row |-> Filled(row, strategies[s]), set |-> row]]
  /\ UNCHANGED <<strategies, asked, stale, overtaken>>

\* UpdateStrategy writes it, in a statement of its own.
WriteUpdate(c) ==
  LET s == update[c].id
      set == update[c].set
  IN  /\ ~ Idle(c)
      /\ Upsert(s, update[c].row)
      /\ update' = [update EXCEPT ![c] = NoRow]
      /\ asked' = [asked EXCEPT ![s] =
           IF @ = NoRow THEN NoRow
           ELSE [name |-> IF set.name = Empty THEN @.name ELSE set.name, enabled |-> set.enabled]]
      /\ overtaken' = overtaken \cup (IF c \in stale THEN {s} ELSE {})
      /\ stale' = (stale \ {c}) \cup {d \in Caller \ {c} : ~ Idle(d) /\ update[d].id = s}

\* The second statement fails.
FailUpdate(c) ==
  /\ ~ Idle(c)
  /\ update' = [update EXCEPT ![c] = NoRow]
  /\ stale' = stale \ {c}
  /\ UNCHANGED <<strategies, asked, overtaken>>

-----------------------------------------------------------------------------
(***************************************************************************)
(* Trades by the day of their local time.                                  *)
(***************************************************************************)

\* INSERT ... ON CONFLICT(id) DO NOTHING.
SaveTrade(t, u) ==
  /\ trades' = [trades EXCEPT ![t] = IF @ = NoRow THEN <<u>> ELSE @]
  /\ UNCHANGED <<strategyVars, gcm, keyVars>>

Offset(p, u) == p.zone + IF u >= p.at THEN p.by ELSE 0
Clock(p, u) == u + Offset(p, u)
LocalDay(p, u) == Clock(p, u) \div DayLength

\* Offsets as text: "+01:00" < "+02:00" < "-01:00" < "-02:00" < "Z".
OffsetBefore(a, b) ==
  \/ a # 0 /\ b = 0
  \/ a > 0 /\ (b < 0 \/ a < b)
  \/ a < 0 /\ b < a

\* Local time in RFC 3339.  SQLite compares texts from the left, the offset last.
Text(p, u) == [clock |-> Clock(p, u), offset |-> Offset(p, u)]
Before(a, b) ==
  \/ a.clock < b.clock
  \/ a.clock = b.clock /\ OffsetBefore(a.offset, b.offset)

\* Mutant of StartOfDay: the date is truncated to a whole number of days.
StartOfDayTruncated(p, d) == d * DayLength

\* time.Date takes the offset of midnight as if it were universal time for a guess, and
\* then that of the moment this gives.  A midnight that does not exist, or comes twice,
\* is taken by one of its two offsets.
StartOfDay(p, d) ==
  LET midnight == d * DayLength
  IN  midnight - Offset(p, midnight - Offset(p, midnight))

\* The condition on a row's timestamp.
WithinDay(p, u, d) ==
  /\ ~ Before(Text(p, u), Text(p, StartOfDay(p, d)))
  /\ Before(Text(p, u), Text(p, StartOfDay(p, d) + DayLength))

ListTradesByDate(p, d) == {t \in TradeId : trades[t] # NoRow /\ WithinDay(p, trades[t][1], d)}

-----------------------------------------------------------------------------
(***************************************************************************)
(* API keys.                                                               *)
(***************************************************************************)

\* A nonce is never drawn twice: those of a save are numbered after its content.
encrypt(text, nonce) == [by |-> gcm, nonce |-> nonce, text |-> text]
decrypt(sealed, nonce) == IF sealed.by = gcm /\ sealed.nonce = nonce THEN sealed.text ELSE Garbled

\* Mutant of Stored: the row keeps the nonces it has.
StoredNonce(row) == IF apiKey = NoRow THEN row ELSE [row EXCEPT !.nonce = apiKey.nonce]

\* INSERT ... ON CONFLICT(id) DO UPDATE, nonces included.
Stored(row) == row

SaveAPIKey(v) ==
  /\ gcm # NoKey
  /\ LET n1 == <<gcm, v, 1>>
         n2 == <<gcm, v, 2>>
     IN  apiKey' = Stored([key |-> encrypt(<<"key", v>>, n1),
                           secret |-> encrypt(<<"secret", v>>, n2),
                           nonce |-> <<n1, n2>>])
  /\ kept' = [content |-> v, by |-> gcm]
  /\ UNCHANGED <<strategyVars, trades, gcm>>

DeleteAPIKey ==
  /\ apiKey' = NoRow /\ kept' = NoRow
  /\ UNCHANGED <<strategyVars, trades, gcm>>

\* What is read back; a part that does not open makes it ErrDecryptFailed.
GetAPIKey ==
  <<decrypt(apiKey.key, apiKey.nonce[1]), decrypt(apiKey.secret, apiKey.nonce[2])>>

-----------------------------------------------------------------------------

\* The program ends in the middle of anything and is started with another key.
\* NewSQLiteStore finds the tables there.
Restart(k) ==
  /\ gcm' = k
  /\ update' = [c \in Caller |-> NoRow] /\ stale' = {}
  /\ UNCHANGED <<strategies, asked, overtaken, trades, keyVars>>

Next ==
  \/ /\ \E c \in Caller :
          \/ \E s \in Strategy : DeleteStrategy(c, s)
          \/ \E s \in Strategy, row \in Row : SaveStrategy(c, s, row) \/ ReadForUpdate(c, s, row)
          \/ WriteUpdate(c)
          \/ FailUpdate(c)
     /\ UNCHANGED <<trades, gcm, keyVars>>
  \/ \E t \in TradeId, u \in Time : SaveTrade(t, u)
  \/ \E v \in Version : SaveAPIKey(v)
  \/ DeleteAPIKey
  \/ \E k \in EnvKey \cup {NoKey} : Restart(k)

Spec == Init /\ [][Next]_vars

-----------------------------------------------------------------------------
(***************************************************************************)
(* Properties.                                                             *)
(***************************************************************************)

\* The table holds what the calls that returned asked for, each update laid over
\* the row as it then was, with failures, restarts and calls of others in between.
\* One interleaving alone breaks it: an update whose row is written or deleted
\* between its SELECT and its INSERT undoes that, and brings a deleted row back.
StrategiesAsAsked == \A s \in Strategy \ overtaken : strategies[s] = asked[s]

\* The day of a clock change, by the time until then.
ChangeDay(p) == (p.at + p.zone) \div DayLength

InFirstHour(p, u, d) == LocalDay(p, u) = d /\ Clock(p, u) < d * DayLength + HourLength
InLastHour(p, u, d) == LocalDay(p, u) = d /\ Clock(p, u) >= d * DayLength + DayLength - HourLength

\* A change that skips midnight, in a place west of Greenwich: time.Date starts the day
\* at 23:00 of the day before.
StartsEarly(p) ==
  p.by > 0 /\ p.zone < 0 /\ p.at + p.zone = ChangeDay(p) * DayLength

\* Midnight, in a day whose first hour comes twice.
MidnightRepeated(p, u) ==
  p.by < 0 /\ Clock(p, u) = Clock(p, p.at) /\ Clock(p, u) = LocalDay(p, u) * DayLength

\* Each trade is on the list of one day, that of its local time.  What a clock change
\* makes of it, as a day is taken to have 24 hours and times are compared as text: the
\* last hour of a longer day may be on no list; the first hour after a shorter day is on
\* that day's list too, or, if it started early, the hour before it; and a trade in the
\* very second of a midnight that comes twice may be on the wrong list, both or none.
EachTradeOneDay ==
  \A t \in TradeId, p \in Place : trades[t] # NoRow =>
    LET u == trades[t][1]
        d == LocalDay(p, u)
        lists == {e \in Day : t \in ListTradesByDate(p, e)}
        Listed(days) == lists = Day \cap days
    IN  \/ Listed({d})
        \/ p.by < 0 /\ InLastHour(p, u, LocalDay(p, p.at)) /\ Listed({})
        \/ p.by > 0 /\ ~ StartsEarly(p) /\ InFirstHour(p, u, ChangeDay(p) + 1) /\ Listed({d - 1, d})
        \/ StartsEarly(p) /\ InLastHour(p, u, ChangeDay(p) - 1) /\ Listed({d, d + 1})
        \/ MidnightRepeated(p, u) /\ \E days \in SUBSET {d - 1, d} : Listed(days)

\* An API key reads back as it was saved last, key and secret, under the encryption
\* key it was saved with, however often the program was started with others and the
\* row was written again; under another key neither part opens.
KeysReadBack ==
  apiKey # NoRow /\ gcm # NoKey =>
    GetAPIKey = IF gcm = kept.by THEN <<<<"key", kept.content>>, <<"secret", kept.content>>>>
                ELSE <<Garbled, Garbled>>
=============================================================================
