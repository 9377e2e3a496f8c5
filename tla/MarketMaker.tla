----------------------------- MODULE MarketMaker -----------------------------
(***************************************************************************)
(* The market of internal/market/market.go: the mock market maker requotes *)
(* the book on every tick while other goroutines send their orders to the  *)
(* same book.  The actions on the book are those of OrderBook; each is one *)
(* critical section of the book's mutex, and a refresh is many of them, so *)
(* an order can be matched in the middle of a refresh.                     *)
(*                                                                         *)
(* A start of the market makes a channel stopChan and a tick processor;    *)
(* both are named by the number of the start.  mockMMmu guards the flag,   *)
(* the field stopChan and the quotes: one goroutine at a time works on     *)
(* these, a tick processor in a refresh or a caller of StopFeeder that     *)
(* clears them.  quoting says what it is doing, holder who it is.          *)
(***************************************************************************)
EXTENDS OrderBook

CONSTANTS Tick,       \* prices of ticks
          Levels,     \* mockMMLevels
          SpreadBps,  \* mockMMSpreadBps
          QuoteQty,   \* mockMMQtyPerLevel
          TakerKind,  \* kinds of the orders others submit
          MaxStarts,  \* bound: calls of StartFeeder that start the market
          MaxTicks,   \* bound: ticks
          MaxTakers   \* bound: orders of others

ASSUME LevelsAssumption == Levels \in Nat
ASSUME SpreadAssumption == SpreadBps \in Nat \ {0}
ASSUME TickAssumption == Tick \subseteq Nat \ {0}
ASSUME QuoteQtyAssumption == QuoteQty \in AddQty
ASSUME TakerKindAssumption == TakerKind \subseteq Kind
ASSUME BoundsAssumption == MaxStarts \in Nat /\ MaxTicks \in Nat /\ MaxTakers \in Nat

VARIABLES running,   \* m.running
          chan,      \* the field stopChan: the last start, 0 before the first
          starting,  \* a StartFeeder has unlocked mockMMmu, its processor does not run yet
          alive,     \* the tick processors, named by their starts
          watched,   \* the channel a processor waits on in its select, 0 when it is not there
          waiting,   \* the starts whose StopFeeder has closed the channel and waits
          clearing,  \* those whose StopFeeder has done waiting and not returned
          late,      \* history: the last StopFeeder overtook the StartFeeder it answers
          quoting,   \* what is done under mockMMmu: free, cancel, add or clear
          holder,    \* the processor, or the StopFeeder, that does it
          at,        \* how far the loop of cancel, add or clear has come
          tick,      \* the price the refresh is for
          ids,       \* mockMMOrderIDs
          mine,      \* the orders whose StrategyID is the market maker's
          ticks,     \* bounded counter of ticks
          takers     \* bounded counter of the orders of others

feederVars == <<running, chan, starting, alive, watched, waiting, late>>
quoteVars == <<at, tick, ids, mine>>
mmVars == <<feederVars, clearing, quoting, holder, quoteVars, ticks, takers>>
marketVars == <<vars, mmVars>>

Start == 1..MaxStarts

\* The k-th order of a refresh: a bid, then an ask, on each level in turn.
BidPrice(p, i) == (p * (10000 - i * SpreadBps)) \div 10000

\* Mutant of AskPrice: the spread is taken off, as for a bid.
AskPriceBelow(p, i) == (p * (10000 - i * SpreadBps)) \div 10000

AskPrice(p, i) == (p * (10000 + i * SpreadBps)) \div 10000

Quote(p, k) ==
  LET i == (k + 1) \div 2
  IN  IF k % 2 = 1 THEN Limit("buy", BidPrice(p, i), QuoteQty)
                   ELSE Limit("sell", AskPrice(p, i), QuoteQty)

ASSUME QuotesArePrices ==
  \A p \in Tick : \A k \in 1..(2 * Levels) : Quote(p, k).price \in Price

MMInit ==
  /\ Init
  /\ running = FALSE /\ chan = 0
  /\ starting = FALSE
  /\ alive = {}
  /\ watched = [g \in Start |-> 0]
  /\ waiting = {} /\ clearing = {}
  /\ late = FALSE
  /\ quoting = "free" /\ holder = 0
  /\ at = 1
  /\ tick = 0
  /\ ids = <<>>
  /\ mine = {}
  /\ ticks = 0
  /\ takers = 0

-----------------------------------------------------------------------------
(***************************************************************************)
(* The life of the tick processors.                                        *)
(***************************************************************************)

\* StartFeeder up to its unlocking of mockMMmu.  Calls of StartFeeder do not overlap:
\* Engine.Start makes them under the engine's lock.
StartFeeder ==
  /\ quoting = "free"
  /\ ~ running /\ ~ starting /\ chan < MaxStarts
  /\ running' = TRUE
  /\ chan' = chan + 1
  /\ starting' = TRUE
  /\ late' = FALSE
  /\ UNCHANGED <<vars, alive, watched, waiting, clearing, quoting, holder, quoteVars, ticks, takers>>

\* The rest of StartFeeder: wg.Add and the go statement.
StartProcessor ==
  /\ starting
  /\ starting' = FALSE
  /\ alive' = alive \cup {chan}
  /\ UNCHANGED <<vars, running, chan, watched, waiting, late, clearing, quoting, holder,
                 quoteVars, ticks, takers>>

\* StopFeeder up to its unlocking of mockMMmu: the flag, and stopChan is closed.
StopFeeder ==
  /\ quoting = "free"
  /\ running
  /\ running' = FALSE
  /\ waiting' = waiting \cup {chan}
  /\ late' = starting
  /\ UNCHANGED <<vars, chan, starting, alive, watched, clearing, quoting, holder, quoteVars,
                 ticks, takers>>

\* Mutant of ChannelClosed: StopFeeder does not close stopChan.
ChannelReplaced(n) == n < chan

\* Every channel but that of a running market has been closed.
ChannelClosed(n) == n < chan \/ ~ running

\* A processor comes to its select and reads the field stopChan.
Select(g) ==
  /\ g \in alive /\ watched[g] = 0
  /\ ~ (quoting \in {"cancel", "add"} /\ holder = g)
  /\ watched' = [watched EXCEPT ![g] = chan]
  /\ UNCHANGED <<vars, running, chan, starting, alive, waiting, late, clearing, quoting, holder,
                 quoteVars, ticks, takers>>

\* The select takes a tick, when the channel is closed already, too, and updateMockMM
\* gets mockMMmu.
TakeTick(g, p) ==
  /\ watched[g] # 0
  /\ quoting = "free"
  /\ ticks < MaxTicks
  /\ ticks' = ticks + 1
  /\ tick' = p
  /\ watched' = [watched EXCEPT ![g] = 0]
  /\ quoting' = "cancel" /\ holder' = g
  /\ at' = 1
  /\ UNCHANGED <<vars, running, chan, starting, alive, waiting, late, clearing, ids, mine, takers>>

\* The select finds the channel closed.
ProcessorReturns(g) ==
  /\ watched[g] # 0 /\ ChannelClosed(watched[g])
  /\ alive' = alive \ {g}
  /\ watched' = [watched EXCEPT ![g] = 0]
  /\ UNCHANGED <<vars, running, chan, starting, waiting, late, clearing, quoting, holder,
                 quoteVars, ticks, takers>>

\* Mutant of AwaitProcessor: StopFeeder does not wait.
AwaitNobody(n) ==
  /\ n \in waiting
  /\ waiting' = waiting \ {n}
  /\ clearing' = clearing \cup {n}
  /\ UNCHANGED <<vars, running, chan, starting, alive, watched, late, quoting, holder, quoteVars,
                 ticks, takers>>

\* The wg.Wait of StopFeeder returns: no tick processor is running, of any start.
AwaitProcessor(n) ==
  /\ n \in waiting /\ alive = {}
  /\ waiting' = waiting \ {n}
  /\ clearing' = clearing \cup {n}
  /\ UNCHANGED <<vars, running, chan, starting, alive, watched, late, quoting, holder, quoteVars,
                 ticks, takers>>

-----------------------------------------------------------------------------
(***************************************************************************)
(* updateMockMM and clearMockMMOrders.                                     *)
(***************************************************************************)

\* clearMockMMOrders gets mockMMmu.
BeginClear(n) ==
  /\ n \in clearing
  /\ quoting = "free"
  /\ quoting' = "clear" /\ holder' = n
  /\ at' = 1
  /\ UNCHANGED <<vars, feederVars, clearing, tick, ids, mine, ticks, takers>>

\* One iteration of the loop that cancels the old quotes.
CancelQuote ==
  /\ quoting \in {"cancel", "clear"}
  /\ at <= Len(ids)
  /\ CancelOrder(ids[at])
  /\ at' = at + 1
  /\ UNCHANGED <<feederVars, clearing, quoting, holder, tick, ids, mine, ticks, takers>>

\* mockMMOrderIDs = nil
Forgotten == <<>>

\* The old quotes are cancelled; StopFeeder returns.
QuotesCancelled ==
  /\ quoting \in {"cancel", "clear"}
  /\ at > Len(ids)
  /\ ids' = Forgotten
  /\ IF quoting = "cancel"
     THEN quoting' = "add" /\ UNCHANGED <<holder, clearing>>
     ELSE quoting' = "free" /\ holder' = 0 /\ clearing' = clearing \ {holder}
  /\ at' = 1
  /\ UNCHANGED <<vars, feederVars, tick, mine, ticks, takers>>

\* Mutant of Remembered: only the bids are remembered.
RememberedBids(i, o) == IF o.side = "buy" THEN Append(ids, i) ELSE ids

\* mockMMOrderIDs = append(mockMMOrderIDs, id)
Remembered(i, o) == Append(ids, i)

\* One order of the loop that adds the new quotes.
AddQuote ==
  /\ quoting = "add"
  /\ at <= 2 * Levels
  /\ LET o == Quote(tick, at)
     IN  /\ AddOrder(o)
         /\ ids' = Remembered(arrived + 1, o)
  /\ mine' = mine \cup {arrived + 1}
  /\ at' = at + 1
  /\ UNCHANGED <<feederVars, clearing, quoting, holder, tick, ticks, takers>>

\* The new quotes are in the book; the tick goes on to outTickChan.
QuotesAdded ==
  /\ quoting = "add"
  /\ at > 2 * Levels
  /\ quoting' = "free" /\ holder' = 0
  /\ at' = 1
  /\ UNCHANGED <<vars, feederVars, clearing, tick, ids, mine, ticks, takers>>

Quoting == CancelQuote \/ QuotesCancelled \/ AddQuote \/ QuotesAdded

-----------------------------------------------------------------------------
(***************************************************************************)
(* The other users of the market.                                          *)
(***************************************************************************)

\* Market.ProcessOrder
ProcessOrder(o) ==
  /\ o.kind \in TakerKind
  /\ takers < MaxTakers
  /\ takers' = takers + 1
  /\ Submit(o)
  /\ UNCHANGED <<feederVars, clearing, quoting, holder, quoteVars, ticks>>

Matching == Loop /\ UNCHANGED mmVars

\* What the goroutines of the market do of themselves, but for the select.
Working ==
  \/ Quoting
  \/ \E n \in Start : Select(n) \/ AwaitProcessor(n) \/ BeginClear(n)

MMNext ==
  \/ StartFeeder \/ StartProcessor \/ StopFeeder
  \/ \E g \in Start, p \in Tick : TakeTick(g, p)
  \/ \E g \in Start : ProcessorReturns(g)
  \/ Working
  \/ \E s \in Side, q \in SubmitQty : ProcessOrder(Market(s, q))
  \/ \E s \in Side, p \in Price, q \in SubmitQty : ProcessOrder(Limit(s, p, q))
  \/ Matching

(***************************************************************************)
(* The goroutines are scheduled, and a goroutine that asks for a mutex     *)
(* gets it although others take it in between (a waiter of sync.Mutex that *)
(* has waited for a millisecond is served first): the market maker's work  *)
(* is strongly fair.  The select of a tick processor sees a closed         *)
(* stopChan in the end, which is strong fairness of ProcessorReturns.      *)
(* Nobody need start or stop the market, nor a StartFeeder come to its go  *)
(* statement.                                                              *)
(***************************************************************************)
MMSpec ==
  /\ MMInit /\ [][MMNext]_marketVars
  /\ WF_marketVars(Matching)
  /\ SF_marketVars(Working)
  /\ SF_marketVars(\E g \in Start : ProcessorReturns(g))

-----------------------------------------------------------------------------
(***************************************************************************)
(* Properties.                                                             *)
(***************************************************************************)

MMTypeOK ==
  /\ running \in BOOLEAN /\ starting \in BOOLEAN /\ late \in BOOLEAN
  /\ chan \in 0..MaxStarts
  /\ alive \subseteq Start /\ waiting \subseteq Start /\ clearing \subseteq Start
  /\ watched \in [Start -> 0..MaxStarts]
  /\ quoting \in {"free", "cancel", "add", "clear"}
  /\ holder \in 0..MaxStarts
  /\ at \in Nat \ {0}
  /\ tick \in Tick \cup {0}
  /\ ids \in Seq(Id)
  /\ mine \in SUBSET Id
  /\ ticks \in 0..MaxTicks
  /\ takers \in 0..MaxTakers

Quotes == mine \cap orderMap

\* A quote in the book is one the market maker still has the id of, and in a
\* loop that cancels, one it has still to come to: nothing else would ever
\* take a quote that does not trade out of the book.
QuotesTracked ==
  \A i \in Quotes : \E k \in 1..Len(ids) :
    ids[k] = i /\ (quoting \in {"cancel", "clear"} => at <= k)

\* The market is stopped, and the StopFeeder that stopped it has returned.
Stopped == ~ running /\ chan \notin waiting \cup clearing

\* When StopFeeder has returned no quote is left in the book, with starts and stops
\* overlapping and processors of former starts still at work.  Only a StopFeeder
\* that comes between the unlocking of mockMMmu in StartFeeder and its go statement
\* does not stop that start's processor, which may quote the stopped market.
NoQuoteLeft == Stopped /\ ~ late => Quotes = {}

\* Once StopFeeder has closed stopChan it returns, whatever refresh is under way,
\* with orders of others matched in between, unless the market is started again.
StopReturns == (~ running) ~> (running \/ waiting \cup clearing = {})

\* The market maker's quotes do not cross one another: the quotes of a tick are
\* all cancelled before those of the next one are added.  AddOrder does not match,
\* so a quote may well cross an order that somebody else rests in the book.
QuotesUncrossed ==
  \A i, j \in Quotes :
    order[i].side = "buy" /\ order[j].side = "sell" => order[i].price < order[j].price
=============================================================================
