------------------------------- MODULE Pipeline -------------------------------
(***************************************************************************)
(* The way of a tick: feedLoop makes it (feeder.go), tickProcessor requotes *)
(* the book at its price and passes it on (market.go), dispatchLoop gives  *)
(* it to the strategies (live/engine.go).  The channels between them are   *)
(* bounded; a tick that finds one full is dropped.  They are never drained: *)
(* ticks of one run of the engine wait there for the next.                 *)
(*                                                                         *)
(* The goroutines are those of Lifecycle, started and stopped as there.    *)
(* Ticks are numbered as they are made, which stands for their exchange    *)
(* time.                                                                   *)
(***************************************************************************)
EXTENDS Lifecycle, Sequences

CONSTANTS FeedCap,  \* capacity of the feeder's tickChan (1024 in the code)
          OutCap,   \* capacity of the market's outTickChan
          MaxTicks  \* bound: ticks made

ASSUME PipelineAssumption == FeedCap \in Nat /\ OutCap \in Nat /\ MaxTicks \in Nat

VARIABLES made,     \* ticks made so far
          feedChan, \* the feeder's tickChan
          outChan,  \* the market's outTickChan
          hand,     \* the tick in a goroutine's hands, at each stage of its way
          quoted,   \* the tick the book is quoted at, None when the quotes are withdrawn
          seen,     \* history: the tick dispatched last
          lone      \* history: no part ever had two goroutines

tickVars == <<made, feedChan, outChan, hand, quoted, seen>>
pipelineVars == <<vars, tickVars, lone>>

\* made and not offered yet; taken by tickProcessor; the book requoted; being dispatched
Stage == {"fed", "taken", "requoted", "dispatched"}

Tick == 1..MaxTicks

PipelineInit ==
  /\ Init
  /\ made = 0
  /\ feedChan = <<>> /\ outChan = <<>>
  /\ hand = [s \in Stage |-> [g \in Channel |-> None]]
  /\ quoted = None
  /\ seen = None
  /\ lone = TRUE

-----------------------------------------------------------------------------

\* Mutant of Offered: in a full channel the new tick takes the place of the oldest.
OfferedInPlace(queue, cap, t) == IF Len(queue) < cap THEN Append(queue, t) ELSE <<t>> \o Tail(queue)

\* The select with a default: the tick is sent, or dropped when the channel is full.
Offered(queue, cap, t) == IF Len(queue) < cap THEN Append(queue, t) ELSE queue

Pass(from, to, g) ==
  hand' = [hand EXCEPT ![to][g] = hand[from][g], ![from][g] = None]

\* feedLoop: the ticker fires, generateTick makes a tick.
Generate(g) ==
  /\ Work("feeder", g)
  /\ made < MaxTicks /\ made' = made + 1
  /\ hand' = [hand EXCEPT !["fed"][g] = made']
  /\ UNCHANGED <<feedChan, outChan, quoted, seen>>

\* feedLoop offers it to tickChan.
Offer(g) ==
  /\ hand["fed"][g] # None
  /\ feedChan' = Offered(feedChan, FeedCap, hand["fed"][g])
  /\ hand' = [hand EXCEPT !["fed"][g] = None]
  /\ UNCHANGED <<vars, made, outChan, quoted, seen>>

\* tickProcessor takes a tick.
TakeTick(g) ==
  /\ Work("market", g)
  /\ feedChan # <<>> /\ feedChan' = Tail(feedChan)
  /\ hand' = [hand EXCEPT !["taken"][g] = Head(feedChan)]
  /\ UNCHANGED <<made, outChan, quoted, seen>>

\* Mutant of Requote: quotes that are there already are left.
RequoteOnce(g) ==
  /\ hand["taken"][g] # None
  /\ quoted' = IF quoted = None THEN hand["taken"][g] ELSE quoted
  /\ Pass("taken", "requoted", g)
  /\ UNCHANGED <<vars, made, feedChan, outChan, seen>>

\* updateMockMM, under the market's lock.
Requote(g) ==
  /\ hand["taken"][g] # None
  /\ quoted' = hand["taken"][g]
  /\ Pass("taken", "requoted", g)
  /\ UNCHANGED <<vars, made, feedChan, outChan, seen>>

\* tickProcessor passes the tick on to outTickChan.
Relay(g) ==
  /\ hand["requoted"][g] # None
  /\ outChan' = Offered(outChan, OutCap, hand["requoted"][g])
  /\ hand' = [hand EXCEPT !["requoted"][g] = None]
  /\ UNCHANGED <<vars, made, feedChan, quoted, seen>>

\* dispatchLoop takes a tick, for processTick.
Dispatch(g) ==
  /\ Work("engine", g)
  /\ outChan # <<>> /\ outChan' = Tail(outChan)
  /\ hand' = [hand EXCEPT !["dispatched"][g] = Head(outChan)]
  /\ seen' = Head(outChan)
  /\ UNCHANGED <<made, feedChan, quoted>>

\* Mutant of Processed: the loop is left after a tick.
ProcessedLast(g) ==
  /\ hand["dispatched"][g] # None
  /\ hand' = [hand EXCEPT !["dispatched"][g] = None]
  /\ alive' = [alive EXCEPT !["engine"] = @ \ {g}]
  /\ UNCHANGED <<running, chan, closed, watched, mu, pc, apart, made, feedChan, outChan, quoted, seen>>

\* processTick returns, and dispatchLoop goes on to its next select.
Processed(g) ==
  /\ hand["dispatched"][g] # None
  /\ hand' = [hand EXCEPT !["dispatched"][g] = None]
  /\ UNCHANGED <<vars, made, feedChan, outChan, quoted, seen>>

\* A goroutine comes to its select when it has dealt with the tick in its hands.
EmptyHanded(p, g) ==
  \A s \in CASE p = "feeder" -> {"fed"}
             [] p = "market" -> {"taken", "requoted"}
             [] p = "engine" -> {"dispatched"} : hand[s][g] = None

SelectNext(p, g) ==
  /\ EmptyHanded(p, g)
  /\ Select(p, g)
  /\ UNCHANGED tickVars

Leave(p, g) == Return(p, g) /\ UNCHANGED tickVars

\* StopFeeder's last act: the quotes are withdrawn.
Withdraw(c) ==
  /\ ClearQuotes(c)
  /\ quoted' = None
  /\ UNCHANGED <<made, feedChan, outChan, hand, seen>>

\* The other steps of starts and stops leave the ticks where they are.
Call(c) ==
  \/ /\ StartEngine(c) \/ StartMarket(c) \/ StartFeeder(c) \/ StartProcessor(c)
     /\ UNCHANGED tickVars
  \/ /\ StopEngine(c) \/ StopMarket(c) \/ StopFeeder(c) \/ AwaitMarket(c) \/ AwaitEngine(c)
     /\ UNCHANGED tickVars

TickStep(g) ==
  \/ Generate(g) \/ Offer(g)
  \/ TakeTick(g) \/ Requote(g) \/ Relay(g)
  \/ Dispatch(g) \/ Processed(g)

PipelineNext ==
  /\ \/ \E c \in Caller : Call(c) \/ Withdraw(c)
     \/ \E g \in Channel : TickStep(g)
     \/ \E p \in Part, g \in Channel : SelectNext(p, g) \/ Leave(p, g)
  /\ lone' = (lone /\ \A p \in Part : \A g, h \in alive'[p] : g = h)

(***************************************************************************)
(* As in Lifecycle, goroutines are scheduled.  A goroutine at its select    *)
(* with a tick there and an open stopChan has nothing else to take.        *)
(***************************************************************************)
PipelineSpec ==
  /\ PipelineInit /\ [][PipelineNext]_pipelineVars
  /\ \A c \in Caller : WF_<<vars, tickVars>>((Call(c) \/ Withdraw(c)) /\ Continue(c))
  /\ \A g \in Channel :
       /\ WF_<<vars, tickVars>>(Offer(g)) /\ WF_<<vars, tickVars>>(Requote(g))
       /\ WF_<<vars, tickVars>>(Relay(g)) /\ WF_<<vars, tickVars>>(Processed(g))
       /\ WF_<<vars, tickVars>>(TakeTick(g)) /\ WF_<<vars, tickVars>>(Dispatch(g))
  /\ \A p \in Part, g \in Channel :
       WF_<<vars, tickVars>>(SelectNext(p, g)) /\ SF_<<vars, tickVars>>(Leave(p, g))

-----------------------------------------------------------------------------
(***************************************************************************)
(* Properties.                                                             *)
(***************************************************************************)

\* While a tick is being dispatched the book is quoted at that tick or a later one,
\* or not at all: no strategy acts on a tick before the market maker has seen it, be
\* it one that waited in outTickChan since an earlier run.
QuotedBeforeSeen ==
  lone => \A g \in Channel : hand["dispatched"][g] # None =>
            quoted = None \/ quoted >= hand["dispatched"][g]

\* Ticks are dispatched in the order of their exchange time (PROMPT.txt:41), drops,
\* stops and restarts or not, as long as no part has two goroutines: a stop does not
\* wait for feedLoop, and one that is making a tick meanwhile lives on beside the
\* next start's.
InOrder == lone' => seen' >= seen
TicksInOrder == [][InOrder]_pipelineVars

\* The tick is somewhere on its way.
Underway(t) ==
  \/ \E i \in DOMAIN feedChan : feedChan[i] = t
  \/ \E i \in DOMAIN outChan : outChan[i] = t
  \/ \E s \in Stage, g \in Channel : hand[s][g] = t

\* A tick does not get stuck: it is dispatched or dropped, unless the engine or the
\* market is stopped.
TickMovesOn ==
  \A t \in Tick : Underway(t) ~> ~ Underway(t) \/ ~ running["engine"] \/ ~ running["market"]
=============================================================================
