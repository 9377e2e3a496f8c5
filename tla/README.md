# A formal model of the trading bot

TLA+ specifications of the trading bot in `src/`, model-checked with TLC, and
theorems about them checked by TLAPS.  `PROJECT.json` maps every definition to
the lines of Go it stands for and lists the runs, the mutants that show each
property can fail, the hazards and the theorems.

## 1. The system

A Go program (`cmd/bot`) that feeds mock prices to trading strategies, matches
their orders in a local order book, and shows the result on a web dashboard.

| component | state | operations | who calls it |
|---|---|---|---|
| order book, `market/orderbook.go` | two red-black trees of price levels, a FIFO list and a total per level, a map of orders | AddOrder, CancelOrder, and helpers of matching | matching engine, market maker; one mutex |
| matching engine, `market/matching.go` | none of its own | ProcessOrder: a loop over the best makers, under the book's mutex | live engine |
| market, `market/market.go` | flag, stop channel, ids of its quotes, bounded outgoing tick channel | StartFeeder, StopFeeder, tickProcessor, updateMockMM | live engine; its own goroutine |
| feeder, `market/feeder.go` | flag, stop channel, bounded tick channel | Start, Stop, feedLoop | market; its own goroutine |
| live engine, `live/engine.go` | balance, strategies, flag, stop channel, trade channel | Start, Stop, processTick, processOrder, checkStopOrders | HTTP handlers, main; its own goroutine |
| order, position and risk managers | orders; positions; daily loss and circuit breaker | Create/Update/CancelOrder; AddPosition; ValidateOrder, RecordPnL | live engine; one lock each |
| strategies, `strategy/` | prices seen, indicators, position flags | OnInit, OnTick | live engine, backtest |
| backtest, `backtest/engine.go` | balance, position, trades, daily profits | Run | command line |
| report, `report/report.go` | trades, profit of each sale | AddTrade, GetTradeDetail, GetSummary | push loop of the web server, handlers |
| web server, `web/` | WebSocket clients, bounded broadcast channel | handlers, pushLoop, broadcastLoop, a goroutine per WebSocket, Stop | HTTP; main; two goroutines of its own |
| command line, `cmd/bot/main.go` | none of its own | `run` and `serve`: start engine, start web server, wait for a signal, stop both | the user |
| storage, `storage/sqlite.go` | SQLite tables | CRUD, encryption of API keys | nobody yet: no package imports it, though PROMPT.txt:40 asks for persistence |

Ticks go feeder -> bounded channel -> market (which requotes the book) -> bounded
channel -> live engine -> strategies -> orders -> book; trades go live engine ->
bounded channel -> push loop -> report, and push loop -> bounded channel ->
broadcast loop -> browsers.  What is hard about it: goroutines that are started
and stopped from HTTP handlers and from main, and channels that outlive them;
quotes withdrawn and placed one by one between orders; an order's effects spread
over four components with a lock each and an early return between any two;
browsers that come and go while two goroutines write to them; a store whose
updates are two statements; a hand-written red-black tree; products of satoshi
amounts in 64 bits.  `hazards` in `PROJECT.json` lists these at their lines.

What makes each component correct: the book's four structures agree and every
trade has price-time priority; the tree is the set of prices it stands for;
the market maker never loses a quote; the engine never sells what it does not
hold, keeps its ledgers in line with the trades and stops at the loss limit;
starts and stops neither lose a stop nor close a channel twice, and engine and
market are stopped at exit; ticks are dispatched in order, after the book was quoted at
them; a browser lacks no trade of the report; the store holds what its callers
asked for; profit and average price account for the money.

## 2. The modules

| module | models | built on |
|---|---|---|
| `Exchange` | abstract: an exchange with price-time priority, as a set of live orders | |
| `OrderBook` | order book and matching engine; implements `Exchange` | |
| `RBTree` | the red-black tree, pointer by pointer | |
| `MarketMaker` | market and market maker, using the book with other users | `OrderBook` |
| `Position` | money arithmetic and one trade's effect on a position | |
| `PositionManager` | any calls of AddPosition and Reset | `Position` |
| `LiveEngine` | dispatch goroutine, processOrder, order and risk managers | `Position` |
| `Lifecycle` | Start and Stop of engine, market and feeder by concurrent callers | |
| `Pipeline` | the ticks' way through channels and goroutines, over stops and restarts | `Lifecycle` |
| `Shutdown` | main and the HTTP handlers that start and stop the engine | `Lifecycle` |
| `Report` | trades into positions, trade channel, push loop, FIFO profit | `PositionManager` |
| `Dashboard` | pushLoop, broadcastLoop, WebSockets, WebServer.Stop | |
| `Storage` | strategies, trades by day, API keys; failures and restarts | |
| `Strategies` | five strategies as functions of state and price | |
| `Backtest` | a backtest run with any of the strategies | `Position`, `Strategies` |

`MC*` modules give the constants values for TLC, `*Proofs` modules hold the
theorems: `MarketProofs` those of `OrderBook`, `MarketMaker` and `RBTree`,
`LifecycleProofs` those of `Lifecycle`, `Shutdown` and `Pipeline`, the others those of the module
they are named for.  `Sums` has what the proofs need to know of sums over finite
sets and sequences.

How state and steps correspond to the code:

- **OrderBook.** `levels` is the key set of each tree, `queue` and `total` a
  level's list and total, `orderMap` the map.  `AddOrder` and `CancelOrder` are
  one step, as they run under the mutex.  `ProcessOrder` is `Submit`, then
  `Fill` or `SkipExhausted` per iteration of the loop, then `FinishMarket` or
  `FinishLimit`; `taker` is the order being matched, and while there is one the
  mutex is taken.  Iterations are steps so that the properties speak of what
  the loop leaves at each of them.  Ids are numbers in order of arrival.
- **RBTree.** A record of parent pointers, children by direction and colours.
  `Rotate` and `Transplant` follow the code, `InsertRound` and `DeleteRound` are one
  round of the loops of insertFixup and deleteFixup, and `crashed` marks the place
  where the code would dereference nil.  `Fixed` repeats a round until the loop is
  over; the node it looks at goes up the tree, so `Rounds` of them are more than any
  loop has.  Walks down the tree are functions on nodes.  `OrderBook` uses the tree
  only through the set of its keys; `RepresentsKeys` is what allows it.
- **MarketMaker.** Starts are numbered; a tick processor and a waiting StopFeeder are
  named by their start.  StartFeeder is two steps, its critical section and
  the go statement after it (`StartFeeder`, `StartProcessor`), and StopFeeder is
  `StopFeeder`, `AwaitProcessor`, `BeginClear` and the loop that cancels, so that
  starts, stops and processors of former starts overlap as they can.  `quoting` is
  what is done under mockMMmu and `holder` who does it; `ids` is mockMMOrderIDs.
  Every call on the book is a step of `OrderBook`, so that orders of others come
  between two of them.  Calls of StartFeeder do not overlap: Engine.Start makes them
  under the engine's lock.
- **LiveEngine.** `pc` is where the dispatch goroutine is in processTick and
  processOrder; a step is the stretch up to the next lock.  The exchange fills
  an order as far and at what prices it likes within its quantity, which is
  what `OrderBook` guarantees (`NoOverfill`).  Strategies may give any signal.
  Owners of stop orders create, open and cancel them between any two steps
  (`CreateStop`, `OpenStop`, `CancelStop`); `hit` holds the copies that
  checkStopOrders works through.
- **Lifecycle.** Per part the flag, the channel in the field stopChan (a
  number), the closed channels and the goroutines alive.  A goroutine reads the
  field anew at each select (`Select`), as in the code.  Callers are `pc`s in
  Start or Stop, the critical sections of the three parts being steps.
- **Pipeline.** Every step of `Lifecycle` and, between them, a tick's: it is in a
  channel or in a goroutine's `hand`, and a select with a default is `Offered`.
  A goroutine comes to its select again when its hands are empty.  Ticks are
  numbered as they are made.  The channels are not drained by a stop, so ticks
  of one run wait for the next, as in the code.
- **Shutdown.** `step` is where main is in `Program`, the calls of runCmd and
  serveCmd in their order.  A handler serves a request from `Arrive` to
  `Answer` and makes calls of `Lifecycle` in between.  Starting a strategy
  starts the engine, stopping one stops it for all; `serve`, which says it
  starts the dashboard only, starts the engine as well.
- **Dashboard.** `sender` is broadcastLoop with the lock's holder, `phase` the
  goroutine of each WebSocket, `step` is WebServer.Stop.  A write begins and
  ends in two steps.  When two overlap on a connection the library panics
  (`crashed`), or the connection fails, or both messages are `spoilt`: the second
  writer closes the first one's message or shares its buffer, the handler does not
  look at the error (`websocket.go:109`), and the page skips what it cannot parse
  (`index.html:291`), so that each of the two arrives or not with the connection up.
  `view` is what the page's updateTrades makes of messages.  The list of 20 and the
  page's cache of 50 trades hold all trades of an instance.
- **Storage.** A statement is a step, or fails; UpdateStrategy is two.  `asked`
  lays every call over the row as it then was.  UpdateStrategy fills empty
  fields from the row but always writes `enabled`, so a caller that leaves it
  out turns the strategy off.  A `Place` is a local time with a change of its clock or
  none.  Timestamps are compared as their texts are, the clock first and the offset
  after it, and `StartOfDay` looks offsets up as time.Date does (Go 1.25).
  `Restart` ends calls under way and may change the encryption key.
- **Report.** `chan` is tradeChan, `trades` the report's list, `pnl` the map of
  profits, recomputed from scratch at each trade as the code does.  `Touched`
  is what the shared backing array of a Go slice keeps: lots a sale uses up
  stay, the lot it ends in shrinks.
- **Strategies, Backtest.** OnTick maps a strategy's state and a price to the
  next state and a signal; floating-point values are exact fractions, and
  truncation rounds down.  One step of `Backtest` is one iteration of the loop
  of Run, the day's closing included.

## 3. What the runs check

| run | states | what it shows |
|---|---|---|
| `book` | 1.1 M | 2 prices, quantities 1 and 2 (0 too for AddOrder), 4 orders: structures agree at every iteration; totals and fills are right; price-time priority by refinement of `Exchange`; a resting remainder cannot trade |
| `rbtree` | 118 k | every insertion and removal over 8 prices, descending (bids): find, first and walk agree with the key set until the code panics; red-black until the first removal; no panic in the order the market maker uses levels |
| `mm` | 239 k | 2 ticks, one level a side, 5 orders, 1 taker, 2 starts and their stops in any overlap: no quote is lost, crossed or left behind; StopFeeder returns |
| `live` | 327 k | one strategy and a stop order that its owner opens and cancels, 2 ticks, prices moving between check and fill, all risk limits on |
| `live_overflow` | finding | int64 of the average price made narrow (MaxInt = 4): the position misses the trade |
| `lifecycle` | 21 k | 2 callers, 2 starts, every interleaving of critical sections and of three goroutines |
| `pipeline` | 66 k | 3 ticks, channels of 2 and 1, 2 starts by one caller: ticks in order, after their quotes, and none stuck |
| `shutdown` | 170 k | 2 handlers and main, 2 starts, a signal at any time: engine and market are stopped at exit |
| `report` | 735 k | 5 calls, prices 0, 2 and 5, quantities 0, 1 and 3, both sides and Reset, a channel of 2 that overflows, a narrow int64 |
| `dashboard` | 198 k | one browser, 2 trades, 2 state messages a tick, a queue of 1 that overflows, overlapping writes that panic, fail or are spoilt, Stop at any time |
| `backtest` | 170 k | 2 runs of 5 ticks, 3 prices, 5 strategies and the one that does anything |
| `storage` | 291 k | 2 callers, a strategy, a trade at each half-hour of the four 3-hour days around a clock change, in 19 places: at Greenwich, east and west of it, with the change forward or back at midnight, an hour after it or an hour before the next, and without one; 2 keys and none |

The bounds are the smallest at which the interesting cases happen.  Four orders
give two makers on a level, a level emptied and made again, and a taker that
crosses two levels.  Eight prices are enough for every case of insertFixup and
deleteFixup and for the panic; six for the panic on the other side.  Two
starts are what a race of Stop with the next Start takes (the feeder's lost stop
takes three).  `Scale` is 2 so
that divisions round; in `live` the limits are of the size of one order so that
each of them refuses some.  In `pipeline` three ticks fill both channels,
which is when a drop and a tick of an earlier start meet.  One browser is enough
in `dashboard`, as browsers share only the lock and the queue; a queue of 1 makes
pushes find it full.  In `storage` two callers make every overlap of an update
with another call, and the moments are those of the day before the clock change, its day
and the day after; half-hours, so that an hour has moments within it.  In `mm` the
second start is what a stop of the first can meet.

`CHECK_DEADLOCK FALSE` is set where the model has to stop: after the bounded
number of ticks, starts, runs or trades, and after a panic of the tree.

### Conditions in properties

Where a statement is true only under a condition, the property has the condition
and the code breaks the rest:

- `OneDispatcherInTurn`, `RunTogether`, `CallsReturn` hold when calls of Start
  and Stop do not overlap (`apart`).  When they do, a second dispatcher may
  survive: Stop lets go of the lock before it waits, and dispatchLoop reads
  stopChan anew (`live/engine.go:182`), where PROMPT.txt:35 asks for strategies
  that run in order and without a race.  The engine may also run without the
  market, and a Stop waits for the dispatcher of a later Start.
- `QuotedBeforeSeen` and `TicksInOrder` hold as long as no part ever had two
  goroutines (`lone`).  A stop does not wait for feedLoop, so even calls that do
  not overlap can leave two of them when the next start comes at once.
- `StoppedAtExit` holds unless WebServer.Stop gives up after its five seconds;
  then a request may start the engine while main stops it.  It does not speak of
  the feeder, whose stop can be lost (`FeederStops` of `Lifecycle`, which no run
  has; TLC finds it false in `lifecycle.cfg` with 3 starts in a few seconds).
  StartFeeder and StopFeeder set the market's flag under a lock and call the
  feeder after it (`market.go:70`, `market.go:86`).  A stop can overtake a start
  in between, and a market that does not run refuses to stop its feeder again.
- `NoPanicWhenQueued` holds for the use the program makes of the tree now: only
  the market maker rests orders, best to worst, and takes them out in that
  order.  Other orders of removal dereference a nil sibling or child
  (`orderbook.go:307`; six prices ascending are enough), where PROMPT.txt:50 asks
  to recover from failures of matching.  After a removal the tree need not be
  red-black (nil children are skipped in deleteFixup).
- `QuotesUncrossed` is about the market maker's quotes among themselves; AddOrder
  does not match, so another user's order can cross the book.  While quotes are
  being replaced (`market.go:125`) a market order finds an empty or one-sided
  book and fills nothing, where PROMPT.txt:32 has it trade at once.
- `NoQuoteLeft` holds for a stop that does not overtake the start it answers.
  StartFeeder unlocks (`market.go:70`) before it counts and starts the tick processor
  (`market.go:74`); a StopFeeder that closes the channel in between waits for nobody,
  clears the quotes and returns.  The late processor then finds its channel closed
  and may still take a tick that lies in the feeder's channel first, the select
  choosing at random, and quotes a market that is stopped (`late`).  Those quotes stay
  until the next start's first refresh or its stop.
- `StopFiresOnce` is about stops that were opened: they fire once at most, and not
  when cancelled, unless their owner cancels after checkStopOrders has copied
  them.  Such a cancellation succeeds and the copy fires all the same, as the error
  of CancelOrder is ignored (`live/engine.go:407`).  A stop still PENDING cannot be
  cancelled and fires at every tick.
- `PositionMatchesTrades` holds while the average price fits 64 bits
  (`live_overflow`) and is not rounded to nothing, which AddPosition refuses as
  well: a fill worth less than the smallest unit, at a price below a dollar.
- `TodayIsEarned` holds until the first purchase is used up.  From then on
  `recalculateTradePnL` matches sales with purchases sold before, and the
  day's profit on the dashboard is wrong.  `AvgCostIsFifo`, the other FIFO
  computation of the report, is right as long as its sum fits 64 bits.
- `WinsAreGains` holds for strategies that wait for their position (Turtle,
  Bollinger; at prices that slippage does not take all of, as a sale for nothing
  is refused when their flag is off already) and otherwise as long as no position
  is added to.  A second buy
  (Grid, RSI, crossovers give it) makes calculateWinRate forget the first, and a
  loss counts as a win.
- `FlatWhenFlagged` is one half of what the flags of Turtle and Bollinger stand
  for.  The other is false: a refused buy leaves the flag on with nothing held,
  and the strategy waits for a sale it cannot make.
- `NothingMissing` leaves out trades dropped from a full queue (`dropped`), those
  pushed before the list of trades a new browser is sent (`replaced`: the page replaces
  what it shows by the list), and those of a list or push spoilt by the handler of
  a new WebSocket and the hub writing to it at once (`lost`).
- `Delivered` and `StopEnds` hold up to a panic (`crashed`) of such writes.  A push
  counts as delivered to a browser that has its list, to which the hub alone
  writes.  They
  hold for browsers that read or go away (`Stuck` is empty in `dashboard`).  With
  one that stays and stops reading, a write blocks for ever with the hub's lock
  held and Stop does not return: `writeWait` (`websocket.go:11`) is never used.
  That the hub sends no pings ends every connection after a minute is in the
  model as a connection that may end at any time.
- `StrategiesAsAsked` leaves out strategies written by an update whose row changed
  between its SELECT and its INSERT (`sqlite.go:380`): such an update undoes a
  save, another update or a delete.
- `EachTradeOneDay` leaves out what adding 24 hours to the start of the day
  (`sqlite.go:590`) makes of a clock change, and says which lists are wrong: the
  last hour of a day of 25 hours may be on no list; the first hour after a day of 23
  is on the list of that day too.  When the change skips midnight in a place west of
  Greenwich, time.Date starts the day at 23:00 of the day before, and it is that
  hour which is on two lists.  A midnight that comes twice may be on the wrong list,
  both or none in its very second, since of two texts with one clock the offsets
  are compared.

Known and without a property: a market order with no trade stays OPEN for ever
(`live/engine.go:324`); a stop order to buy fills at a price beyond the one its
cost was checked at and can overdraw the account (`live/engine.go:292`); the
circuit breaker is never reset, ResetDaily having no caller (`risk.go:130`);
trades made after pushLoop has been stopped never reach the report.

### Fairness

`OrderBook`: the goroutine that holds the mutex in ProcessOrder runs on.
`MarketMaker`: a goroutine that asks for the book's mutex again and again gets
it although others take it in between (Go's mutex serves a waiter of more than
a millisecond first), and a select with a closed channel takes that case in the
end, Go choosing among ready cases at random: strong fairness.  `Lifecycle`: as
there, and callers run on once they have begun.  `Pipeline`: a goroutine with a
tick in its hands goes on, one at its select takes a tick that is there, and
`Lifecycle`'s fairness holds of the rest.  `Dashboard`: the hub's goroutines run
on, a write ends unless the browser has stopped reading, a select with a closed
stopChan takes that case in the end, and Stop gets the lock although the hub
takes it again and again (Go's mutex serves waiters in turn); browsers' own
goroutines owe nothing.  `LiveEngine`: the dispatch
goroutine goes on with the tick it has taken.  Nothing is assumed of ticks,
orders, calls, trades or signals: they need not come.

## 4. What is proved

The proofs hold for all values of the constants that satisfy the named
assumptions of the modules, which TLC evaluates for its instances:

- `OrderBook`: prices, quantities and the bound on orders are natural numbers,
  quantities of ProcessOrder above zero.  `MarketMaker` adds: levels and bounds are
  natural numbers, spread and prices of ticks above zero; the quantity of a quote is
  one of AddOrder's, takers' kinds are the book's, and a quote's price is one of
  `Price` (`QuotesArePrices`), which is no more than a choice of that set.
- `RBTree`: finitely many keys above zero (0 is nil), in one of two orders.
- `Position`, `PositionManager`, `Report`: `Scale`, `MaxInt` above zero; prices,
  quantities, bounds and capacities natural numbers.
- `LiveEngine`: prices of ticks, quantities of stops and `MaxInt` above zero; balance,
  fee, limits and bounds natural numbers.
- `Lifecycle`, `Pipeline`, `Dashboard`: bounds and capacities natural numbers; `Stuck`
  are connections.  `Shutdown`: the callers are the handlers and main.
- `Storage`: a day and an hour are above zero, an hour no more than half a day
  (`DayAssumption`); a place has one offset, or one change by an hour at midnight or
  an hour or more from it by its clock until then (`PlaceAssumption`), so half-hour
  changes and changes at half past midnight are left out.
- `Backtest`, `Strategies`: prices, the first balance and the periods above zero, fee
  and slippage below 10000 basis points, bounds natural numbers.

One theorem has a hypothesis of its own: `TradesReachPosition` assumes `FillFits`.

### The book and the market (`MarketProofs`)

- `IInv` adds three facts to types, `BookConsistent` and `NoOverfill`: ids not yet
  used are blank, the taker is the order that arrived last and is not in the book,
  and an order in the book has a status that says it is live.  The second is what
  makes the remainder of a limit order the youngest of its level when it rests; the
  third keeps finished orders out.  From it follow `TypeCorrect`,
  `BookStaysConsistent`, `NeverOverfilled`, `FinalStaysFinal`, and
  `BookImplementsExchange`: every step of the book is a step of `Exchange` under the
  mapping live <- orderMap, because the first element of the first level's list is
  the best price and earliest arrival.
- `RestingOrdersUncrossed`: at the step that rests a remainder the loop has found
  the best price of the other side out of reach, so every other level is.
- `TotalsAreRight` and `FillsAreBalanced`: each step changes one term of a sum, or
  one on either side; `Sums` says what that does to the whole.
- `MarketUsesBook`: every step of the market is a step of the book or leaves it
  alone, so `IInv` is an invariant of it as well.  `MMInv` adds that the remembered
  ids have arrived, that a quote still in the book is at a place the cancelling
  loop has yet to come to, who may hold the market maker's lock (`FeederKnown`), and
  `StopInTime`: with a stop that came after its start's go statement, no processor is
  left once the wait is over, none is to come, and the ids are forgotten when the
  quotes have been cleared.  `QuotesStayTracked`, `StopClearsQuotes`,
  `MarketKeepsBook` follow.
- `QuotesDoNotCross`: the quotes in the book are all of one tick, that of the
  refresh that placed them; between a refresh's withdrawals and its first quote
  there are none.  Within a tick bids are below asks as the spread is above zero.

### The tree (`MarketProofs`)

`TreeHoldsThePrices`: until the code follows a nil pointer, find, first, the in-order
walk and the size are those of the set of prices put in and not taken out since, for
any prices in either order.  `Has` is the invariant: every node but the root is a
child of its parent and every child's parent is the node (`Linked`), and there is a
set of prices for each node, the ones at or below it, whose smaller ones are its left
child's and whose larger ones are its right child's (`Ordered`).

- A rotation, a new leaf, a node spliced out and a successor put in a removed node's
  place each keep `Has`, with the sets of one or two nodes changed
  (`RotateHas`, `LeafedHas`, `TakenOutHas`, `SucceededHas`).  Removal of a node with
  two children is the successor spliced out and then given the other's place.
- The fixups rotate and paint and do nothing else, so they keep `Has` whatever the
  colours are (`RoundSound`, `FixedHas`).  That is why the set is right even after
  removals have cost the tree its balance.
- The functions that go down the tree are evaluated by showing that every way down
  ends, the sets getting strictly smaller (`Descend`): `FindFinds`, `LeftmostLeast`,
  `LandingLands`, `WalkLists`.

`GrowingTreeIsRedBlack` and `InsertionNeverPanics`: as long as nothing has been
removed, the tree is red-black and insert and insertFixup have followed no nil pointer.
`Coloured` gives every node a height, the number of black nodes on each way down from
it, and names the one node that may be red below a red parent or as the root.

- A round of insertFixup either moves that node up to its grandparent and changes
  colours only (`Climbing`), or turns the tree once or twice so that the node's
  parent is black (`Settled`), or finds it so and ends.  `TurnColours`, `LiftColours`
  and `RecolourColours` say what each of them does to the heights.
- The set at or below the node grows with every move (`MoreBelow`), so the loop ends
  within `Rounds` (`FixupEnds`): the model cuts none short.
- Heights that agree on both sides make `BlackHeights` one number (`OneBlackHeight`).

### The live engine (`LiveEngineProofs`)

- `IInv` carries what processOrder has checked along its way to where it is used:
  `CoveredSale` (a sale under way is no larger than the position), `RoomForPurchase`
  (a purchase under way fits the limit), `FillWithinOrder`, `GainUnderway` (the two
  ledgers differ by the gain not yet recorded) and `LossBreaks` (a loss beyond the
  limit has set the breaker).  From it: `LiveTypeCorrect`, `StaysLong`,
  `PositionStaysCapped`, `LedgersStayAgreed`, `LossStops`.
- `StopsFireOnce`: `StopInv` says of every stop order that one still to be cancelled
  has not fired, and that a copy about to fire is of one that is not cancelled, or
  was by an owner who came too late and has not fired yet (`StopKnown`).
- `TradesReachPosition`: under `FillFits`, that every mean price fits 64 bits and is
  above zero.  `MatchInv` says that the order underway is open, so that
  UpdateOrderFill does not refuse it, and that trades and position differ by the fill
  underway; AddPosition then has no reason left to refuse it.

### Starts, stops and the pipeline (`LifecycleProofs`)

- `RunningStaysOpen`: channels closed are no newer than the field's, so a start's
  channel is open until its own stop.
- `StopComesThrough`: a start has the engine's lock until the last part runs
  (`LockHeld`), so the engine is not stopped in the middle of one; and while it does
  not run, a market that runs has a stop on its way to it, and a dispatcher that is
  alive has a stop that will wait for it (`StopGoesOn`).
- `DispatchersInTurn` and `PartsRunTogether`: with calls one after another the
  place of the one caller under way says of each part whether it runs
  (`RunsInTurn`) and which goroutines it has (`GoroutinesInTurn`); a goroutine
  waits on its own channel or on a later one (`Numbered`).
- `ExitsStopped`: requests are served from the start of the web server to its end
  (`ServedInTime`), so main's own Stop is the last call (`StoppedLast`), and what
  `StopComesThrough` rests on applies when it returns.
- `PipelineUsesLifecycle`: every step is one of `Lifecycle` or leaves its variables
  alone.  `PInv` lines up the places a tick can be in, against its way: dispatched
  last, in dispatchLoop's hands, outChan, requoted, taken, feedChan, just made, made
  last; every tick of one place is no later than every tick of the next, both
  channels are sorted, the quotes are no older than what has passed tickProcessor,
  and a goroutine with a tick in its hands is alive and not at its select.  The last
  is what makes one goroutine hold one tick.  `QuotedFirst` and `DispatchedInOrder`
  follow, for channels of any capacity, any drops, and any number of stops and
  restarts.

### The dashboard (`DashboardProofs`)

`ClientsRemembered` rests on `SenderWrites`: broadcastLoop writes to one client at a
time, so a failed write takes away the client it was for.  `NothingGoesMissing` says
of each trade reported since the list was read for a browser where it is
(`NothingLost`): in the list, on the screen, underway, dropped, taken off the
screen by the list, or lost in a spoilt write; each step moves it from one of these
to another.

### The report and backtests (`ReportProofs`, `BacktestProofs`)

- `AverageInRange` and `MoneyIsAccountedFor`: `PositionInv` holds both through each
  way a trade can change a position (grow it, shrink it, close it, turn it from short
  to long), one lemma each with the arithmetic of the code's divisions.
- `AverageCostIsFifo` and `ProfitIsEarned`: lay the units bought out on a line, each
  purchase an interval after the one before it.  `RecordInv` says that the trades the
  report has are trades and `pnl` is what it works out from them.  After n trades the
  lots left are the line from the last unit sold on, by induction over the trades
  (`IntervalInduction` of `Sums`); so the lots a sale takes cover the very units that
  follow those sold, and the sum over lots is the sum over units (`SumFlat`).
  recalculateTradePnL's own lots agree with these until the first purchase is used
  up, and each lot of a sale loses less than one to rounding, which `SumBetween` adds
  up to the slack of `TodayIsEarned`.
- `DaysAddUp`: the sum of the days closed is the value at the last close less the
  initial balance.
- `NothingHeldWithFlagOff`: the flag of Turtle and Bollinger goes off only with a
  sell signal, and that sale is of the whole position and not refused.
- `WinsCountGains`: the last trade tells whether anything is held (`LastTells`), so
  that purchases and sales take turns unless a position is added to; then the trades
  are the round trips one after the other, and each gain is that of its purchase and
  sale (`Paired`).

### The store (`StorageProofs`)

`StrategyInv` adds that an update whose row nobody has written since it was read is
about to write the row with the caller's fields laid over it; `SealedAsKept` says of
the stored key that both parts and both nonces are of one save.
`StrategiesStayAsAsked` and `KeysStayReadable` follow.  `TradesHaveOneDay` is about
days as intervals of texts.  `StartIs` works out the moment time.Date makes of a
midnight before, at and after the change; `Within` puts the comparison of texts in
terms of clocks and of which side of the change two moments with one clock are on;
`ListsOf` says, for a change forward, back and none, which lists a moment is on, the
property's exceptions being the cases that are left.

### What the proofs found

Three properties the runs had passed turned out not to follow and were false beyond
the runs' bounds.  `StoppedAtExit` spoke of the feeder as well: with a third start
its stop can be lost (`FeederStops` above).
`WinsAreGains` needs prices at which a sale brings in something.
`PositionMatchesTrades` can fail by rounding as well as by overflow.

### Limits

Some of what is proved is not run, as another property of the run implies it or
the run would repeat it: `TypeOK` of the book and of the live engine, `NoOverfill`,
`OverIsFinal`, `PositionCapped`, `StopReaches`.

The prover cannot use the library's induction theorems, which take a predicate as an
operator.  `Sums` does induction with a set in the predicate's place: a set of
subsets of a finite set that is not empty has a minimal member, by the
well-foundedness of strict inclusion; and a set of numbers that has 0 and, with a
number, the next is all of an interval.

Only model-checked: liveness and ENABLED, which are out of the prover's reach, and
`NoPanicWhenQueued`, which needs an invariant of trees that removals have unbalanced,
of which it is known only that the runs find none that panics.

## 5. What is not modelled

- Of the store: the tables of orders, position snapshots, daily profits and the
  balance log, written and read row by row like the trades; the parsing of rows.
- Of the report: CSV, strategy and position reports, the daily list, which nothing
  fills; its locks (GetAllStrategyReports takes the read lock twice,
  `report.go:370`, and has no caller).
- Of the web server: routing, JSON, handlers that only read; GetEquity's two reads
  of balance and positions (`live/engine.go:423`), whose value is only shown.
- Of the command line: flags, wiring, and commands that only print.
- The feeder's random walk and the backtest's data sets (models take any price);
  MACD (any signal); Sharpe ratio and drawdown (statistics).
- handleReconnect, which runs only when a channel nobody closes is closed; Reset
  and Add/RemoveStrategy of the live engine; UpdateConfig, ResetDaily and
  RecordDailyPnL, which nothing calls.
- The panic of a `sync.WaitGroup` that is added to while it is waited on
  (`live/engine.go:106` and `:126`, `market.go:74` and `:89`), which overlapping starts
  and stops can also bring about; `Lifecycle` and `MarketMaker` let the wait return
  when no goroutine is counted.
- A change of a clock by less than an hour, or within the hour after midnight or
  before it.
- That the program comes to its end after a signal, over engine and hub together:
  `CallsReturn` and `StopEnds` are its two halves, checked apart.

Indicators in floating point may differ from exact fractions by a rounding at a
threshold.

## 6. Plan

Done in this order: the book and its abstraction; the tree; the market maker
on top of the book; position and live engine; starts and stops; report; strategies
and backtest; the tick pipeline; main and shutdown; the hub of the dashboard; the
store; proofs about each of them, the report's matching and the tree last.

Next: strategies driven by the live engine, where orders are refused for more reasons
than in a backtest; and an invariant of the trees removals leave, for
`NoPanicWhenQueued`.
