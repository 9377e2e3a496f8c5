------------------------------- MODULE Lifecycle -------------------------------
(***************************************************************************)
(* Starting and stopping of the live engine, the market and its feeder     *)
(* (internal/live/engine.go, internal/market/market.go and feeder.go).     *)
(*                                                                         *)
(* The three are built alike.  Each has a flag running, a field stopChan,  *)
(* and a goroutine with a loop around a select: starting makes a new       *)
(* channel and a goroutine, stopping closes the channel.  The goroutine    *)
(* reads the field stopChan anew for each select, without the lock the     *)
(* field is written under.  Engine.Start and Engine.Stop start and stop    *)
(* all three, in several critical sections, and are called by main and by  *)
(* the HTTP handlers, each in a goroutine of its own.                      *)
(***************************************************************************)
EXTENDS Naturals, FiniteSets

CONSTANTS Caller,    \* goroutines that call Engine.Start and Engine.Stop
          MaxStarts  \* bound: starts of the engine

ASSUME MaxStartsAssumption == MaxStarts \in Nat

VARIABLES running,  \* the flag of each part
          chan,     \* the field stopChan of each part: the number of the channel
          closed,   \* the channels of each part that are closed
          alive,    \* the goroutines of each part, each named after the channel it was made with
          watched,  \* the channel a goroutine waits on in its select, None when it is not there
          mu,       \* the caller that holds the engine's lock across its steps, if any
          pc,       \* where each caller is
          apart     \* history: no call began before the calls of others had returned

vars == <<running, chan, closed, alive, watched, mu, pc, apart>>

Part == {"engine", "market", "feeder"}
Channel == 1..MaxStarts
None == 0

Init ==
  /\ running = [p \in Part |-> FALSE]
  /\ chan = [p \in Part |-> None]
  /\ closed = [p \in Part |-> {}]
  /\ alive = [p \in Part |-> {}]
  /\ watched = [p \in Part |-> [g \in Channel |-> None]]
  /\ mu = {}
  /\ pc = [c \in Caller |-> "idle"]
  /\ apart = TRUE

Begin(c, next) ==
  /\ pc[c] = "idle" /\ pc' = [pc EXCEPT ![c] = next]
  /\ apart' = (apart /\ \A d \in Caller : pc[d] = "idle")

At(c, here, next) == pc[c] = here /\ pc' = [pc EXCEPT ![c] = next] /\ UNCHANGED apart

\* Mutant of Open: the channel of the last time is used again.
OpenReused(p) ==
  /\ running' = [running EXCEPT ![p] = TRUE]
  /\ chan' = [chan EXCEPT ![p] = IF @ = None THEN 1 ELSE @]
  /\ UNCHANGED closed

\* running = true and a new stopChan.
Open(p) ==
  /\ running' = [running EXCEPT ![p] = TRUE]
  /\ chan' = [chan EXCEPT ![p] = @ + 1]
  /\ UNCHANGED closed

\* Mutant of Close: the flag is reset, the channel stays open.
CloseNothing(p) ==
  /\ running' = [running EXCEPT ![p] = FALSE]
  /\ UNCHANGED <<chan, closed>>

\* running = false and close(stopChan), when it runs.
Close(p) ==
  /\ running' = [running EXCEPT ![p] = FALSE]
  /\ closed' = [closed EXCEPT ![p] = @ \cup {chan[p]}]
  /\ UNCHANGED chan

-----------------------------------------------------------------------------
(***************************************************************************)
(* Engine.Start, under the engine's lock throughout.                       *)
(***************************************************************************)

\* The flag, the channel and dispatchLoop.  A running engine refuses.
StartEngine(c) ==
  /\ Begin(c, "startMarket")
  /\ mu = {} /\ mu' = {c}
  /\ ~ running["engine"]
  /\ chan["engine"] < MaxStarts
  /\ Open("engine")
  /\ alive' = [alive EXCEPT !["engine"] = @ \cup {chan'["engine"]}]
  /\ UNCHANGED watched

\* Market.StartFeeder: it returns at once when the market is running.
StartMarket(c) ==
  /\ IF running["market"]
     THEN /\ At(c, "startMarket", "idle")
          /\ mu' = {}
          /\ UNCHANGED <<running, chan, closed>>
     ELSE /\ At(c, "startMarket", "startFeeder")
          /\ Open("market")
          /\ UNCHANGED mu
  /\ UNCHANGED <<alive, watched>>

\* MockFeeder.Start
StartFeeder(c) ==
  /\ At(c, "startFeeder", "startProcessor")
  /\ IF running["feeder"]
     THEN UNCHANGED <<running, chan, closed, alive>>
     ELSE /\ Open("feeder")
          /\ alive' = [alive EXCEPT !["feeder"] = @ \cup {chan'["feeder"]}]
  /\ UNCHANGED <<watched, mu>>

\* go tickProcessor; Engine.Start returns.
StartProcessor(c) ==
  /\ At(c, "startProcessor", "idle")
  /\ mu' = {}
  /\ alive' = [alive EXCEPT !["market"] = @ \cup {chan["market"]}]
  /\ UNCHANGED <<running, chan, closed, watched>>

-----------------------------------------------------------------------------
(***************************************************************************)
(* Engine.Stop: one critical section of the engine, then StopFeeder.       *)
(***************************************************************************)

StopEngine(c) ==
  /\ Begin(c, "stopMarket")
  /\ mu = {}
  /\ running["engine"]
  /\ Close("engine")
  /\ UNCHANGED <<alive, watched, mu>>

\* Market.StopFeeder: it returns at once when the market is not running.
StopMarket(c) ==
  /\ IF running["market"]
     THEN At(c, "stopMarket", "stopFeeder") /\ Close("market")
     ELSE At(c, "stopMarket", "awaitEngine") /\ UNCHANGED <<running, chan, closed>>
  /\ UNCHANGED <<alive, watched, mu>>

\* MockFeeder.Stop
StopFeeder(c) ==
  /\ At(c, "stopFeeder", "awaitMarket")
  /\ IF running["feeder"] THEN Close("feeder") ELSE UNCHANGED <<running, chan, closed>>
  /\ UNCHANGED <<alive, watched, mu>>

\* Mutant of Gone: nobody is waited for.
GoneAnyway(p) == TRUE

\* wg.Wait() of a part comes back.
Gone(p) == alive[p] = {}

\* The market's wg.Wait.
AwaitMarket(c) ==
  /\ At(c, "awaitMarket", "clearQuotes")
  /\ Gone("market")
  /\ UNCHANGED <<running, chan, closed, alive, watched, mu>>

\* clearMockMMOrders, under the market's lock.
ClearQuotes(c) ==
  /\ At(c, "clearQuotes", "awaitEngine")
  /\ UNCHANGED <<running, chan, closed, alive, watched, mu>>

\* The engine's wg.Wait; Engine.Stop returns.
AwaitEngine(c) ==
  /\ At(c, "awaitEngine", "idle")
  /\ Gone("engine")
  /\ UNCHANGED <<running, chan, closed, alive, watched, mu>>

-----------------------------------------------------------------------------
(***************************************************************************)
(* The loops of dispatchLoop, tickProcessor and feedLoop.                  *)
(***************************************************************************)

\* The goroutine comes to its select and finds a channel in the field stopChan.
Select(p, g) ==
  /\ g \in alive[p] /\ watched[p][g] = None
  /\ watched' = [watched EXCEPT ![p][g] = chan[p]]
  /\ UNCHANGED <<running, chan, closed, alive, mu, pc, apart>>

\* There is a tick, and it is dealt with, be the channel closed or not.
Work(p, g) ==
  /\ g \in alive[p] /\ watched[p][g] # None
  /\ watched' = [watched EXCEPT ![p][g] = None]
  /\ UNCHANGED <<running, chan, closed, alive, mu, pc, apart>>

\* The channel it waits on is closed: the goroutine returns.
Return(p, g) ==
  /\ g \in alive[p] /\ watched[p][g] \in closed[p]
  /\ alive' = [alive EXCEPT ![p] = @ \ {g}]
  /\ watched' = [watched EXCEPT ![p][g] = None]
  /\ UNCHANGED <<running, chan, closed, mu, pc, apart>>

-----------------------------------------------------------------------------

\* What a caller goes on with once it has begun.
Continue(c) ==
  \/ StartMarket(c) \/ StartFeeder(c) \/ StartProcessor(c)
  \/ StopMarket(c) \/ StopFeeder(c) \/ AwaitMarket(c) \/ ClearQuotes(c) \/ AwaitEngine(c)

Next ==
  \/ \E c \in Caller : StartEngine(c) \/ StopEngine(c) \/ Continue(c)
  \/ \E p \in Part, g \in Channel : Select(p, g) \/ Work(p, g) \/ Return(p, g)

(***************************************************************************)
(* Goroutines are scheduled, and a select with a closed channel takes it   *)
(* in the end, ticks coming in or not: Go chooses among the ready cases at *)
(* random.                                                                 *)
(***************************************************************************)
Spec ==
  /\ Init /\ [][Next]_vars
  /\ \A c \in Caller : WF_vars(Continue(c))
  /\ \A p \in Part, g \in Channel : WF_vars(Select(p, g)) /\ SF_vars(Return(p, g))

-----------------------------------------------------------------------------
(***************************************************************************)
(* Properties.                                                             *)
(***************************************************************************)

\* Nobody is starting or stopping anything; a call may still wait for the end
\* of the dispatcher.
Quiet == \A c \in Caller : pc[c] \in {"idle", "awaitEngine"}

\* A running part has a channel that is still open: no stop closes a channel
\* twice, which would panic, and none closes that of a later start.
OpenWhileRunning == \A p \in Part : running[p] => chan[p] \notin closed[p]

\* A stop is not lost although goroutines read the field stopChan while starts
\* replace it: when a part stays stopped, all its goroutines return, those of
\* earlier starts among them.
StopIsNotLost == \A p \in Part : (~ running[p]) ~> (running[p] \/ alive[p] = {})

\* One goroutine dispatches ticks, so strategies see them one after the other.
\* False when a start comes while a stop still waits for the dispatcher to end.
OneDispatcher == Cardinality(alive["engine"]) <= 1

\* As long as each call has returned before the next begins, no start leaves a
\* second dispatcher beside that of an earlier one.
OneDispatcherInTurn == apart => OneDispatcher

\* As long as each call has returned before the next begins: when nothing is being
\* started or stopped, the engine, the market and the feeder run together, each with
\* the goroutine of its last start, or none of them does.
RunTogether ==
  apart /\ Quiet => \A p \in Part :
    /\ running[p] = running["engine"]
    /\ running[p] => chan[p] \in alive[p]

\* When all calls have returned and the engine does not run, its stop has come to the
\* market and to dispatchLoop too, however the calls overlapped.
Returned == \A c \in Caller : pc[c] = "idle"
StopReaches ==
  Returned /\ ~ running["engine"] => ~ running["market"] /\ alive["engine"] = {}

\* It has come to the feeder as well ("Live trading engine stopped", main.go:425).
\* False when a stop that is late goes by while a start is between the market's flag
\* and its feeder: the market then refuses to stop the feeder, as it does not run.
FeederStops == Returned /\ ~ running["engine"] => ~ running["feeder"]

\* A call of Start or Stop returns, unless another begins before it has: a stop that
\* waits for the dispatcher to end can find a later start's dispatcher to wait for.
CallsReturn == \A c \in Caller : (pc[c] # "idle") ~> (pc[c] = "idle" \/ ~ apart)
=============================================================================
