------------------------------- MODULE Dashboard -------------------------------
(***************************************************************************)
(* The hub of the web dashboard: pushLoop, broadcastLoop and one goroutine  *)
(* for each WebSocket (web/server.go, web/websocket.go), and how they are  *)
(* stopped.                                                                *)
(*                                                                         *)
(* A write to a connection has a beginning and an end: between the two it  *)
(* may block, and another goroutine may begin one on the same connection.  *)
(* The engine's tradeChan may have a next trade at any time; Report has    *)
(* the channel itself.                                                     *)
(***************************************************************************)
EXTENDS Naturals, Sequences, FiniteSets

CONSTANTS Conn,         \* WebSocket connections, a reconnection being a new one
          Stuck,        \* those whose browser stops reading, so that a write to them blocks
          MaxTrades,    \* bound: trades
          BroadcastCap, \* capacity of the hub's broadcast (256 in the code)
          Kinds         \* state messages pushed at each tick of the ticker (5 in the code)

ASSUME DashboardAssumption ==
  /\ Stuck \subseteq Conn
  /\ {MaxTrades, BroadcastCap, Kinds} \subseteq Nat

VARIABLES reported,  \* the trades the report has, which are numbered
          pushing,   \* messages pushLoop is about to push, none when it is at its select
          broadcast, \* the hub's channel
          sender,    \* where broadcastLoop is, its message and the clients it has yet to write to
          up,        \* the goroutines of the hub that have not returned
          clients,   \* the map of clients
          phase,     \* where the goroutine of each connection is
          writing,   \* the goroutines that are writing to a connection
          spoilt,    \* those of them whose message may not arrive, as they write at the same time
          down,      \* connections closed, from either end
          listed,    \* the trades in the list a connection is about to be sent
          view,      \* the trades a browser shows
          step,      \* where WebServer.Stop is
          crashed,   \* a concurrent write made the program panic
          dropped,   \* history: trades dropped as broadcast was full
          replaced,  \* history: trades a browser showed before the initial list replaced them
          lost       \* history: trades a browser was to be sent by a write that was spoilt

pushVars == <<reported, pushing, broadcast, dropped>>
connVars == <<clients, phase, writing, spoilt, down, listed, view, replaced, lost>>
hubVars == <<pushVars, sender, up, connVars, step>>
vars == <<hubVars, crashed>>

State == 0              \* a message with account, positions, book, strategies or risk
Trade == 1..MaxTrades   \* a message with one trade
Idle == [at |-> "select", msg |-> State, todo |-> {}]

Init ==
  /\ reported = {} /\ pushing = <<>> /\ broadcast = <<>> /\ dropped = {}
  /\ sender = Idle /\ up = {"pusher", "sender"}
  /\ clients = {}
  /\ phase = [c \in Conn |-> "away"]
  /\ writing = [c \in Conn |-> {}] /\ spoilt = [c \in Conn |-> {}]
  /\ down = {}
  /\ listed = [c \in Conn |-> {}] /\ view = [c \in Conn |-> {}]
  /\ replaced = [c \in Conn |-> {}] /\ lost = [c \in Conn |-> {}]
  /\ step = "serving"
  /\ crashed = FALSE

\* broadcastLoop holds the hub's lock while it writes to the clients.
Locked == sender.at \in {"next", "write"}

Stopped == step # "serving"
Listening == step \in {"serving", "stopped"}

-----------------------------------------------------------------------------
(***************************************************************************)
(* pushLoop.                                                               *)
(***************************************************************************)

AtSelect == "pusher" \in up /\ pushing = <<>>

\* The ticker fires: the five state messages, one after the other.
PushTick ==
  /\ AtSelect
  /\ pushing' = [k \in 1..Kinds |-> State]
  /\ UNCHANGED <<reported, broadcast, dropped, sender, up, connVars, step>>

\* A trade: reportGen.AddTrade, then pushTradeUpdate.
PushTrade ==
  /\ AtSelect
  /\ \E t \in Trade :
       /\ t = Cardinality(reported) + 1
       /\ reported' = reported \cup {t}
       /\ pushing' = <<t>>
  /\ UNCHANGED <<broadcast, dropped, sender, up, connVars, step>>

\* Mutant of Push: a send that waits for room.
PushBlocking ==
  /\ pushing # <<>> /\ pushing' = Tail(pushing)
  /\ Len(broadcast) < BroadcastCap
  /\ broadcast' = Append(broadcast, Head(pushing))
  /\ UNCHANGED <<reported, dropped, sender, up, connVars, step>>

\* The select with a default of each push.
Push ==
  /\ pushing # <<>> /\ pushing' = Tail(pushing)
  /\ IF Len(broadcast) < BroadcastCap
     THEN broadcast' = Append(broadcast, Head(pushing)) /\ UNCHANGED dropped
     ELSE dropped' = dropped \cup ({Head(pushing)} \ {State}) /\ UNCHANGED broadcast
  /\ UNCHANGED <<reported, sender, up, connVars, step>>

PusherReturns ==
  /\ AtSelect /\ Stopped
  /\ up' = up \ {"pusher"}
  /\ UNCHANGED <<pushVars, sender, connVars, step>>

-----------------------------------------------------------------------------
(***************************************************************************)
(* Writes to a connection, by broadcastLoop or the connection's goroutine. *)
(***************************************************************************)

\* The library allows one writer.  With another write under way it panics, which ends
\* the program when broadcastLoop does it; or the frames are mixed up and the browser ends
\* the connection (and a panic of the handler is recovered by the HTTP server, and closes
\* it); or the connection stays up, but the second write closes the first one's message
\* or shares its buffer, so that either may be cut off or garbled.
BeginWrite(who, c) ==
  /\ writing' = [writing EXCEPT ![c] = @ \cup {who}]
  /\ \/ writing[c] = {} /\ UNCHANGED <<crashed, down, spoilt>>
     \/ writing[c] # {} /\ crashed' = TRUE /\ UNCHANGED <<down, spoilt>>
     \/ writing[c] # {} /\ down' = down \cup {c} /\ UNCHANGED <<crashed, spoilt>>
     \/ writing[c] # {} /\ spoilt' = [spoilt EXCEPT ![c] = @ \cup writing[c] \cup {who}]
        /\ UNCHANGED <<crashed, down>>

\* No write has a deadline: one to a browser that does not read ends with the connection.
EndWrite(who, c) ==
  /\ who \in writing[c]
  /\ c \in Stuck => c \in down
  /\ writing' = [writing EXCEPT ![c] = @ \ {who}]
  /\ spoilt' = [spoilt EXCEPT ![c] = @ \ {who}]

\* What the browser makes of a trade (updateTrades of index.html).
Shows(c, msg) == view' = [view EXCEPT ![c] = @ \cup ({msg} \ {State})] /\ UNCHANGED lost

\* It skips what it cannot parse.
Misses(c, trades) == lost' = [lost EXCEPT ![c] = @ \cup (trades \ {State})] /\ UNCHANGED view

-----------------------------------------------------------------------------
(***************************************************************************)
(* broadcastLoop and sendToAllClients.                                     *)
(***************************************************************************)

TakeMessage ==
  /\ "sender" \in up /\ sender.at = "select"
  /\ broadcast # <<>> /\ broadcast' = Tail(broadcast)
  /\ sender' = [sender EXCEPT !.at = "lock", !.msg = Head(broadcast)]
  /\ UNCHANGED <<reported, pushing, dropped, up, connVars, step>>

\* Mutant of LockClients: clients that are still being greeted are spared.
LockGreeted ==
  /\ sender.at = "lock"
  /\ sender' = [sender EXCEPT !.at = "next", !.todo = {c \in clients : phase[c] = "reading"}]
  /\ UNCHANGED <<pushVars, up, connVars, step>>

LockClients ==
  /\ sender.at = "lock"
  /\ sender' = [sender EXCEPT !.at = "next", !.todo = clients]
  /\ UNCHANGED <<pushVars, up, connVars, step>>

WriteToClient(c) ==
  /\ sender.at = "next" /\ c \in sender.todo
  /\ sender' = [sender EXCEPT !.at = "write", !.todo = @ \ {c}]
  /\ BeginWrite("sender", c)
  /\ UNCHANGED <<pushVars, up, clients, phase, listed, view, replaced, lost, step>>

\* The write succeeds, which a garbled message does not prevent.
Wrote(c) ==
  /\ EndWrite("sender", c)
  /\ sender' = [sender EXCEPT !.at = "next"]
  /\ \/ c \in down /\ UNCHANGED <<view, lost>>
     \/ c \notin down /\ Shows(c, sender.msg)
     \/ c \notin down /\ "sender" \in spoilt[c] /\ Misses(c, {sender.msg})
  /\ UNCHANGED <<pushVars, up, clients, phase, down, listed, replaced, step>>

\* Mutant of WriteFailed: the client is forgotten, its connection left open.
WriteFailedOpen(c) ==
  /\ EndWrite("sender", c)
  /\ sender' = [sender EXCEPT !.at = "next"]
  /\ clients' = clients \ {c}
  /\ UNCHANGED <<pushVars, up, phase, down, listed, view, replaced, lost, step>>

\* The write fails, as the connection is down or for another reason: it is closed,
\* and the client deleted before the lock is released.
WriteFailed(c) ==
  /\ EndWrite("sender", c)
  /\ sender' = [sender EXCEPT !.at = "next"]
  /\ clients' = clients \ {c} /\ down' = down \cup {c}
  /\ UNCHANGED <<pushVars, up, phase, listed, view, replaced, lost, step>>

UnlockClients ==
  /\ sender.at = "next" /\ sender.todo = {}
  /\ sender' = Idle
  /\ UNCHANGED <<pushVars, up, connVars, step>>

\* Mutant of SenderReturns: it returns as well when there is nothing to send.
SenderReturnsEarly ==
  /\ "sender" \in up /\ sender.at = "select" /\ (Stopped \/ broadcast = <<>>)
  /\ up' = up \ {"sender"}
  /\ UNCHANGED <<pushVars, sender, connVars, step>>

SenderReturns ==
  /\ "sender" \in up /\ sender.at = "select" /\ Stopped
  /\ up' = up \ {"sender"}
  /\ UNCHANGED <<pushVars, sender, connVars, step>>

-----------------------------------------------------------------------------
(***************************************************************************)
(* handleWebSocket, a goroutine for each connection.                       *)
(***************************************************************************)

At(c, here, next) == phase[c] = here /\ phase' = [phase EXCEPT ![c] = next]

Others == <<pushVars, sender, up, step>>

\* The connection is taken over from the HTTP server, which forgets it.
Upgrade(c) ==
  /\ Listening
  /\ At(c, "away", "upgraded")
  /\ UNCHANGED <<Others, clients, writing, spoilt, down, listed, view, replaced, lost>>

Register(c) ==
  /\ At(c, "upgraded", "greet")
  /\ ~ Locked
  /\ clients' = clients \cup {c}
  /\ UNCHANGED <<Others, writing, spoilt, down, listed, view, replaced, lost>>

\* sendInitialState: the state messages, whose errors are ignored ...
Greet(c) ==
  /\ At(c, "greet", "greeting")
  /\ BeginWrite("handler", c)
  /\ UNCHANGED <<Others, clients, listed, view, replaced, lost>>

\* ... after which the report's list of trades is read ...
Greeted(c) ==
  /\ At(c, "greeting", "listed")
  /\ EndWrite("handler", c)
  /\ listed' = [listed EXCEPT ![c] = reported]
  /\ UNCHANGED <<Others, clients, down, view, replaced, lost>>

\* ... and sent.
SendList(c) ==
  /\ At(c, "listed", "sending")
  /\ BeginWrite("handler", c)
  /\ UNCHANGED <<Others, clients, listed, view, replaced, lost>>

\* The browser replaces what it shows by the list, if it gets it: the handler does not
\* look at the error of its write.
ListSent(c) ==
  /\ At(c, "sending", "reading")
  /\ EndWrite("handler", c)
  /\ listed' = [listed EXCEPT ![c] = {}]
  /\ \/ c \in down /\ UNCHANGED <<view, replaced, lost>>
     \/ /\ c \notin down /\ UNCHANGED lost
        /\ view' = [view EXCEPT ![c] = listed[c]]
        /\ replaced' = [replaced EXCEPT ![c] = view[c] \ listed[c]]
     \/ c \notin down /\ "handler" \in spoilt[c] /\ Misses(c, listed[c]) /\ UNCHANGED replaced
  /\ UNCHANGED <<Others, clients, down>>

\* ReadMessage fails, as the connection is down or nothing was read for pongWait, which
\* comes to every connection as no ping is ever sent; then the deferred function:
\* delete under the lock, and close.
Leave(c) ==
  /\ At(c, "reading", "left")
  /\ ~ Locked
  /\ clients' = clients \ {c}
  /\ down' = down \cup {c}
  /\ view' = [view EXCEPT ![c] = {}]
  /\ replaced' = [replaced EXCEPT ![c] = {}] /\ lost' = [lost EXCEPT ![c] = {}]
  /\ UNCHANGED <<Others, writing, spoilt, listed>>

\* The browser goes away.
Disconnect(c) ==
  /\ phase[c] # "away" /\ c \notin down \cup Stuck
  /\ down' = down \cup {c}
  /\ UNCHANGED <<Others, clients, phase, writing, spoilt, listed, view, replaced, lost>>

-----------------------------------------------------------------------------
(***************************************************************************)
(* WebServer.Stop, called by main after a signal.                          *)
(***************************************************************************)

StopTo(here, next) == step = here /\ step' = next

\* close(stopChan)
CloseStop == StopTo("serving", "stopped") /\ UNCHANGED <<pushVars, sender, up, connVars>>

\* server.Shutdown closes the listener and waits until no request is being served;
\* it knows nothing of the WebSockets.
Drain == StopTo("stopped", "drained") /\ UNCHANGED <<pushVars, sender, up, connVars>>

\* After five seconds it gives up, and Stop returns at once.
DrainTimeout == StopTo("stopped", "returned") /\ UNCHANGED <<pushVars, sender, up, connVars>>

\* ws.wg.Wait()
Wait ==
  /\ StopTo("drained", "waited")
  /\ up = {}
  /\ UNCHANGED <<pushVars, sender, up, connVars>>

\* The clients that are left are closed and deleted, under the lock.
Cleanup ==
  /\ StopTo("waited", "returned")
  /\ ~ Locked
  /\ down' = down \cup clients /\ clients' = {}
  /\ UNCHANGED <<pushVars, sender, up, phase, writing, spoilt, listed, view, replaced, lost>>

Stop == CloseStop \/ Drain \/ DrainTimeout \/ Wait \/ Cleanup

-----------------------------------------------------------------------------

\* Steps that begin no write.
Quiet ==
  \/ PushTick \/ PushTrade \/ Push \/ PusherReturns
  \/ TakeMessage \/ LockClients \/ UnlockClients \/ SenderReturns
  \/ \E c \in Conn : Wrote(c) \/ WriteFailed(c) \/ Upgrade(c) \/ Register(c) \/ Greeted(c)
                     \/ ListSent(c) \/ Leave(c) \/ Disconnect(c)
  \/ Stop

\* The program runs.  When Stop has returned, main stops the engine and exits.
Live == ~ crashed /\ step # "returned"

Next ==
  /\ Live
  /\ \/ Quiet /\ UNCHANGED crashed
     \/ \E c \in Conn : WriteToClient(c) \/ Greet(c) \/ SendList(c)

(***************************************************************************)
(* The goroutines of the hub run on.  A select with a closed stopChan      *)
(* takes that case in the end, messages or not.  A write ends, unless the  *)
(* browser has stopped reading; Stop gets the lock although broadcastLoop  *)
(* takes it again and again (a waiting writer is served).  Browsers, trades *)
(* and the signal need not come.                                           *)
(***************************************************************************)
Spec ==
  /\ Init /\ [][Next]_vars
  /\ WF_hubVars(Live /\ Push) /\ SF_hubVars(Live /\ PusherReturns)
  /\ WF_hubVars(Live /\ TakeMessage)
  /\ WF_hubVars(Live /\ LockClients) /\ WF_hubVars(Live /\ UnlockClients)
  /\ SF_hubVars(Live /\ SenderReturns)
  /\ WF_hubVars(Live /\ \E c \in Conn : WriteToClient(c))
  /\ WF_hubVars(Live /\ \E c \in Conn : Wrote(c) \/ WriteFailed(c))
  /\ WF_hubVars(Live /\ (Drain \/ DrainTimeout)) /\ WF_hubVars(Live /\ Wait)
  /\ SF_hubVars(Live /\ Cleanup)

-----------------------------------------------------------------------------
(***************************************************************************)
(* Properties.                                                             *)
(***************************************************************************)

Queued == {broadcast[i] : i \in DOMAIN broadcast}

\* Messages on their way to a client.
Underway(c) ==
  {pushing[i] : i \in DOMAIN pushing} \cup Queued
  \cup (IF sender.at = "lock" \/ c \in sender.todo \/ "sender" \in writing[c] THEN {sender.msg} ELSE {})

\* A browser that was sent the initial list lacks no trade of the report, whenever it
\* connected: the client is registered before the list is read, and the report gets a
\* trade before it is pushed.  Left out are trades dropped as the queue was full; those
\* that overtook the list, as the browser replaces what it shows by the older list; and
\* those of a list or push that was spoilt as the hub and the handler both wrote.
NothingMissing ==
  \A c \in Conn : phase[c] = "reading" /\ c \notin down =>
    reported \subseteq view[c] \cup Underway(c) \cup dropped \cup replaced[c] \cup lost[c]

\* A browser whose connection is up gets the pushes: no client is deleted from the map
\* and left connected, with an old picture on its screen.
NoClientForgotten ==
  \A c \in Conn : phase[c] \notin {"away", "upgraded"} /\ c \notin down => c \in clients

\* A trade in the queue comes to every browser that has its list and stays.
Delivered ==
  \A c \in Conn, t \in Trade :
    (t \in Queued /\ phase[c] = "reading")
      ~> (t \in view[c] \/ c \in down \/ Stopped \/ crashed)

\* WebServer.Stop returns, so that main goes on to stop the engine.
StopEnds == Stopped ~> (step = "returned" \/ crashed)
=============================================================================
