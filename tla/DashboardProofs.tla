---------------------------- MODULE DashboardProofs ----------------------------
(***************************************************************************)
(* Proofs about Dashboard, for any connections, trades and capacity of the *)
(* hub's queue.                                                            *)
(***************************************************************************)
EXTENDS Dashboard, SequenceTheorems, TLAPS

Writer == {"sender", "handler"}
Phase == {"away", "upgraded", "greet", "greeting", "listed", "sending", "reading", "left"}

DType ==
  /\ reported \subseteq Trade
  /\ pushing \in Seq(Nat) /\ broadcast \in Seq(Nat)
  /\ sender \in [at : {"select", "lock", "next", "write"}, msg : Nat, todo : SUBSET Conn]
  /\ clients \subseteq Conn
  /\ phase \in [Conn -> Phase]
  /\ writing \in [Conn -> SUBSET Writer] /\ spoilt \in [Conn -> SUBSET Writer]
  /\ listed \in [Conn -> SUBSET Nat] /\ view \in [Conn -> SUBSET Nat]
  /\ replaced \in [Conn -> SUBSET Nat] /\ lost \in [Conn -> SUBSET Nat]

\* broadcastLoop writes to one client at a time, and to none outside of its write.
SenderWrites ==
  /\ sender.at = "select" => sender.todo = {}
  /\ \A c \in Conn : "sender" \in writing[c] => sender.at = "write"
  /\ \A c, d \in Conn : "sender" \in writing[c] /\ "sender" \in writing[d] => c = d

\* Since the list was read for a browser, each trade is in the list, on the screen, on
\* its way, dropped, taken off the screen by the list, or lost in a write that was spoilt.
OffScreen(c) == IF phase[c] = "reading" THEN replaced[c] ELSE listed[c]
Covered(c) == view[c] \cup OffScreen(c) \cup Underway(c) \cup dropped \cup lost[c]
HasList(c) == phase[c] \in {"listed", "sending", "reading"} /\ c \notin down

NothingLost == \A c \in Conn : HasList(c) => reported \subseteq Covered(c)

DInv == DType /\ SenderWrites /\ NoClientForgotten /\ NothingLost

-----------------------------------------------------------------------------
(***************************************************************************)
(* The messages of a queue.                                                *)
(***************************************************************************)

Messages(s) == {s[i] : i \in DOMAIN s}

LEMMA HeadOrTail ==
  ASSUME NEW s \in Seq(Nat), s # <<>>
  PROVE  /\ Head(s) \in Nat /\ Tail(s) \in Seq(Nat)
         /\ Messages(s) = {Head(s)} \cup Messages(Tail(s))
<1>1. Head(s) \in Nat /\ Tail(s) \in Seq(Nat) /\ Len(s) \in Nat \ {0} /\ DOMAIN s = 1..Len(s)
  OBVIOUS
<1>2. DOMAIN Tail(s) = 1..(Len(s) - 1) /\ \A i \in 1..(Len(s) - 1) : Tail(s)[i] = s[i + 1]
  BY <1>1
<1>3. ASSUME NEW i \in 1..Len(s)
      PROVE  s[i] = Head(s) \/ \E j \in 1..(Len(s) - 1) : s[i] = Tail(s)[j]
  <2>1. CASE i = 1
    BY <2>1
  <2>2. CASE i # 1
    <3>1. i - 1 \in 1..(Len(s) - 1) /\ s[i] = Tail(s)[i - 1]
      BY <1>1, <1>2, <2>2
    <3>. QED
      BY <3>1
  <2>. QED
    BY <2>1, <2>2
<1>4. \A j \in 1..(Len(s) - 1) : \E i \in 1..Len(s) : Tail(s)[j] = s[i]
  BY <1>1, <1>2
<1>5. Head(s) = s[1] /\ 1 \in 1..Len(s)
  BY <1>1
<1>6. ASSUME NEW m PROVE m \in Messages(s) <=> m \in {Head(s)} \cup Messages(Tail(s))
  <2>1. CASE m \in Messages(s)
    BY <1>1, <1>2, <1>3, <2>1 DEF Messages
  <2>2. CASE m = Head(s)
    BY <1>1, <1>5, <2>2 DEF Messages
  <2>3. CASE m \in Messages(Tail(s))
    BY <1>1, <1>2, <1>4, <2>3 DEF Messages
  <2>. QED
    BY <2>1, <2>2, <2>3
<1>. QED
  BY <1>1, <1>6

LEMMA OneMore ==
  ASSUME NEW s \in Seq(Nat), NEW m \in Nat
  PROVE  Append(s, m) \in Seq(Nat) /\ Messages(Append(s, m)) = Messages(s) \cup {m}
<1>1. /\ Append(s, m) \in Seq(Nat) /\ DOMAIN Append(s, m) = 1..(Len(s) + 1)
      /\ DOMAIN s = 1..Len(s) /\ Len(s) \in Nat
      /\ Append(s, m)[Len(s) + 1] = m
      /\ \A i \in 1..Len(s) : Append(s, m)[i] = s[i]
  OBVIOUS
<1>2. 1..(Len(s) + 1) = 1..Len(s) \cup {Len(s) + 1}
  BY <1>1
<1>. QED
  BY <1>1, <1>2 DEF Messages

-----------------------------------------------------------------------------
(***************************************************************************)
(* Steps of pushLoop and broadcastLoop that write to nobody, and of Stop.  *)
(***************************************************************************)

\* A step that touches no connection loses no message.
LEMMA Carried ==
  ASSUME DInv, UNCHANGED connVars,
         \A c \in Conn : HasList(c) => reported' \subseteq reported \cup Underway(c)' \cup dropped',
         \A c \in Conn : HasList(c) => Underway(c) \cap Trade \subseteq Underway(c)' \cup dropped',
         dropped \subseteq dropped'
  PROVE  NoClientForgotten' /\ NothingLost'
<1>1. UNCHANGED <<clients, phase, down, listed, view, replaced, lost>>
  BY DEF connVars
<1>2. NoClientForgotten'
  BY <1>1 DEF DInv, NoClientForgotten
<1>3. ASSUME NEW c \in Conn, HasList(c)' PROVE reported' \subseteq Covered(c)'
  <2>1. HasList(c) /\ reported \subseteq Trade
    BY <1>1, <1>3 DEF HasList, DInv, DType
  <2>2. reported \subseteq Covered(c)
    BY <2>1 DEF DInv, NothingLost
  <2>3. OffScreen(c)' = OffScreen(c) /\ view' = view /\ lost' = lost
    BY <1>1 DEF OffScreen
  <2>. QED
    BY <2>1, <2>2, <2>3 DEF Covered
<1>. QED
  BY <1>2, <1>3 DEF NothingLost

\* What broadcastLoop has for a client.
Sending(c) ==
  IF sender.at = "lock" \/ c \in sender.todo \/ "sender" \in writing[c] THEN {sender.msg} ELSE {}

LEMMA UnderwayIs ==
  ASSUME NEW c
  PROVE  /\ Underway(c) = Messages(pushing) \cup Messages(broadcast) \cup Sending(c)
         /\ Underway(c)' = Messages(pushing') \cup Messages(broadcast') \cup Sending(c)'
BY DEF Underway, Queued, Messages, Sending

LEMMA EmptyMessages == Messages(<<>>) = {}
BY DEF Messages

LEMMA PushTickKeeps == ASSUME DInv, PushTick PROVE DInv'
<1>1. UNCHANGED connVars /\ UNCHANGED <<reported, broadcast, dropped, sender>>
  BY DEF PushTick
<1>2. UNCHANGED <<clients, phase, writing, spoilt, listed, view, replaced, lost>>
  BY <1>1 DEF connVars
<1>3. pushing' \in Seq(Nat)
  BY DashboardAssumption DEF PushTick, State
<1>4. \A c \in Conn : Underway(c) \subseteq Underway(c)'
  <2>1. Messages(pushing) = {}
    BY EmptyMessages DEF PushTick, AtSelect
  <2>. QED
    BY <1>1, <1>2, <2>1, UnderwayIs DEF Sending
<1>5. NoClientForgotten' /\ NothingLost'
  BY <1>1, <1>4, Carried
<1>. QED
  BY <1>1, <1>2, <1>3, <1>5 DEF DInv, DType, SenderWrites

LEMMA PushTradeKeeps == ASSUME DInv, PushTrade PROVE DInv'
<1>1. UNCHANGED connVars /\ UNCHANGED <<broadcast, dropped, sender>>
  BY DEF PushTrade
<1>2. UNCHANGED <<clients, phase, writing, spoilt, listed, view, replaced, lost>>
  BY <1>1 DEF connVars
<1>3. PICK t \in Trade : reported' = reported \cup {t} /\ pushing' = <<t>>
  BY DEF PushTrade
<1>4. pushing' \in Seq(Nat) /\ t \in Messages(pushing')
  BY <1>3 DEF Trade, Messages
<1>5. \A c \in Conn : Underway(c) \subseteq Underway(c)' /\ t \in Underway(c)'
  <2>1. Messages(pushing) = {}
    BY EmptyMessages DEF PushTrade, AtSelect
  <2>. QED
    BY <1>1, <1>2, <1>4, <2>1, UnderwayIs DEF Sending
<1>6. NoClientForgotten' /\ NothingLost'
  BY <1>1, <1>3, <1>5, Carried
<1>. QED
  BY <1>1, <1>2, <1>3, <1>4, <1>6 DEF DInv, DType, SenderWrites

LEMMA PushKeeps == ASSUME DInv, Push PROVE DInv'
<1>1. UNCHANGED connVars /\ UNCHANGED <<reported, sender>> /\ pushing \in Seq(Nat) /\ pushing # <<>>
  BY DEF Push, DInv, DType
<1>2. UNCHANGED <<clients, phase, writing, spoilt, listed, view, replaced, lost>>
  BY <1>1 DEF connVars
<1>3. /\ Head(pushing) \in Nat /\ pushing' \in Seq(Nat)
      /\ Messages(pushing) = {Head(pushing)} \cup Messages(pushing')
  BY <1>1, HeadOrTail DEF Push
<1>4. /\ broadcast' \in Seq(Nat) /\ dropped \subseteq dropped' /\ Messages(broadcast) \subseteq Messages(broadcast')
      /\ Head(pushing) \in Messages(broadcast') \cup dropped' \cup {State}
  <2>1. CASE Len(broadcast) < BroadcastCap
    <3>1. broadcast' = Append(broadcast, Head(pushing)) /\ dropped' = dropped
      BY <2>1 DEF Push
    <3>2. broadcast \in Seq(Nat) /\ Head(pushing) \in Nat
      BY <1>3 DEF DInv, DType
    <3>3. broadcast' \in Seq(Nat) /\ Messages(broadcast') = Messages(broadcast) \cup {Head(pushing)}
      BY <3>1, <3>2, OneMore
    <3>. QED
      BY <3>1, <3>3
  <2>2. CASE ~ (Len(broadcast) < BroadcastCap)
    BY <2>2 DEF Push, DInv, DType
  <2>. QED
    BY <2>1, <2>2
<1>5. \A c \in Conn : Underway(c) \cap Trade \subseteq Underway(c)' \cup dropped'
  <2>1. State \notin Trade
    BY DEF State, Trade
  <2>. QED
    BY <1>1, <1>2, <1>3, <1>4, <2>1, UnderwayIs DEF Sending
<1>6. NoClientForgotten' /\ NothingLost'
  BY <1>1, <1>4, <1>5, Carried
<1>. QED
  BY <1>1, <1>2, <1>3, <1>4, <1>6 DEF DInv, DType, SenderWrites

LEMMA TakeMessageKeeps == ASSUME DInv, TakeMessage PROVE DInv'
<1>1. UNCHANGED connVars /\ UNCHANGED <<reported, pushing, dropped>>
      /\ broadcast \in Seq(Nat) /\ broadcast # <<>>
  BY DEF TakeMessage, DInv, DType
<1>2. UNCHANGED <<clients, phase, writing, spoilt, listed, view, replaced, lost>>
  BY <1>1 DEF connVars
<1>3. /\ Head(broadcast) \in Nat /\ broadcast' \in Seq(Nat)
      /\ Messages(broadcast) = {Head(broadcast)} \cup Messages(broadcast')
  BY <1>1, HeadOrTail DEF TakeMessage
<1>4. /\ sender.at = "select" /\ sender.todo = {}
      /\ sender' = [at |-> "lock", msg |-> Head(broadcast), todo |-> {}]
      /\ \A c \in Conn : "sender" \notin writing[c]
  BY DEF TakeMessage, DInv, DType, SenderWrites
<1>5. \A c \in Conn : Underway(c) \subseteq Underway(c)'
  BY <1>1, <1>2, <1>3, <1>4, UnderwayIs DEF Sending
<1>6. NoClientForgotten' /\ NothingLost'
  BY <1>1, <1>5, Carried
<1>7. SenderWrites'
  BY <1>2, <1>4 DEF SenderWrites
<1>. QED
  BY <1>1, <1>2, <1>3, <1>4, <1>6, <1>7 DEF DInv, DType

LEMMA LockClientsKeeps == ASSUME DInv, LockClients PROVE DInv'
<1>1. UNCHANGED connVars /\ UNCHANGED <<reported, pushing, broadcast, dropped>>
  BY DEF LockClients, pushVars
<1>2. UNCHANGED <<clients, phase, writing, spoilt, listed, view, replaced, lost>>
  BY <1>1 DEF connVars
<1>3. /\ sender.at = "lock" /\ sender.msg \in Nat /\ clients \in SUBSET Conn
      /\ sender' = [at |-> "next", msg |-> sender.msg, todo |-> clients]
      /\ \A c \in Conn : "sender" \notin writing[c]
  BY DEF LockClients, DInv, DType, SenderWrites
<1>4. \A c \in Conn : HasList(c) => Underway(c) \subseteq Underway(c)'
  <2>1. \A c \in Conn : HasList(c) => c \in clients
    BY DEF HasList, DInv, NoClientForgotten
  <2>. QED
    BY <1>1, <1>3, <2>1, UnderwayIs DEF Sending
<1>5. NoClientForgotten' /\ NothingLost'
  BY <1>1, <1>4, Carried
<1>6. SenderWrites'
  BY <1>2, <1>3 DEF SenderWrites
<1>. QED
  BY <1>1, <1>2, <1>3, <1>5, <1>6 DEF DInv, DType

LEMMA UnlockClientsKeeps == ASSUME DInv, UnlockClients PROVE DInv'
<1>1. UNCHANGED connVars /\ UNCHANGED <<reported, pushing, broadcast, dropped>>
  BY DEF UnlockClients, pushVars
<1>2. UNCHANGED <<clients, phase, writing, spoilt, listed, view, replaced, lost>>
  BY <1>1 DEF connVars
<1>3. /\ sender.at = "next" /\ sender.todo = {} /\ sender' = Idle
      /\ \A c \in Conn : "sender" \notin writing[c]
  BY DEF UnlockClients, DInv, DType, SenderWrites
<1>4. \A c \in Conn : Underway(c) \subseteq Underway(c)'
  BY <1>1, <1>2, <1>3, UnderwayIs DEF Sending
<1>5. NoClientForgotten' /\ NothingLost'
  BY <1>1, <1>4, Carried
<1>6. SenderWrites' /\ sender' \in [at : {"select", "lock", "next", "write"}, msg : Nat, todo : SUBSET Conn]
  BY <1>2, <1>3 DEF SenderWrites, Idle, State
<1>. QED
  BY <1>1, <1>2, <1>5, <1>6 DEF DInv, DType

\* Steps that touch neither a message nor a connection.
LEMMA AsideKeeps ==
  ASSUME DInv, UNCHANGED <<pushVars, sender, connVars>>
  PROVE  DInv'
<1>1. UNCHANGED <<reported, pushing, broadcast, dropped, clients, phase, writing, spoilt, down, listed, view, replaced,
                 lost, sender>>
  BY DEF pushVars, connVars
<1>2. \A c \in Conn : Underway(c)' = Underway(c)
  BY <1>1, UnderwayIs DEF Sending
<1>3. NoClientForgotten' /\ NothingLost'
  BY <1>1, <1>2, Carried
<1>. QED
  BY <1>1, <1>3 DEF DInv, DType, SenderWrites

-----------------------------------------------------------------------------
(***************************************************************************)
(* Writes, and the goroutines of the connections.                          *)
(***************************************************************************)

LEMMA BeginEffect ==
  ASSUME DInv, NEW who \in Writer, NEW c \in Conn, BeginWrite(who, c)
  PROVE  /\ writing' \in [Conn -> SUBSET Writer] /\ writing'[c] = writing[c] \cup {who}
         /\ \A d \in Conn \ {c} : writing'[d] = writing[d]
         /\ down \subseteq down' /\ spoilt' \in [Conn -> SUBSET Writer]
<1>1. down \subseteq down'
  BY DEF BeginWrite
<1>2. writing' = [writing EXCEPT ![c] = @ \cup {who}]
  BY DEF BeginWrite
<1>3. writing[c] \cup {who} \subseteq Writer
  BY DEF DInv, DType
<1>4. spoilt' = spoilt \/ spoilt' = [spoilt EXCEPT ![c] = @ \cup writing[c] \cup {who}]
  BY DEF BeginWrite
<1>5. spoilt' \in [Conn -> SUBSET Writer]
  BY <1>3, <1>4 DEF DInv, DType
<1>. QED
  BY <1>1, <1>2, <1>5 DEF DInv, DType

LEMMA EndEffect ==
  ASSUME DInv, NEW who \in Writer, NEW c \in Conn, EndWrite(who, c)
  PROVE  /\ writing' \in [Conn -> SUBSET Writer] /\ writing'[c] = writing[c] \ {who}
         /\ \A d \in Conn \ {c} : writing'[d] = writing[d]
         /\ who \in writing[c] /\ spoilt' \in [Conn -> SUBSET Writer]
BY DEF EndWrite, DInv, DType

LEMMA AtEffect ==
  ASSUME DInv, NEW c \in Conn, NEW here, NEW next \in Phase, At(c, here, next)
  PROVE  /\ phase[c] = here /\ phase' \in [Conn -> Phase] /\ phase'[c] = next
         /\ \A d \in Conn \ {c} : phase'[d] = phase[d]
BY DEF At, DInv, DType

\* A connection that a step leaves alone, or closes.
LEMMA LeftAlone ==
  ASSUME DInv, NEW d \in Conn, reported' = reported, dropped' = dropped,
         phase'[d] = phase[d], listed'[d] = listed[d], view'[d] = view[d],
         replaced'[d] = replaced[d], lost'[d] = lost[d], down \subseteq down',
         Underway(d)' = Underway(d)
  PROVE  HasList(d)' => reported' \subseteq Covered(d)'
BY DEF DInv, NothingLost, HasList, Covered, OffScreen

LEMMA WriteToClientKeeps == ASSUME DInv, NEW c \in Conn, WriteToClient(c) PROVE DInv'
<1>1. UNCHANGED <<reported, pushing, broadcast, dropped, clients, phase, listed, view, replaced, lost>>
  BY DEF WriteToClient, pushVars
<1>2. /\ sender.at = "next" /\ c \in sender.todo /\ sender.msg \in Nat /\ sender.todo \subseteq Conn
      /\ sender' = [at |-> "write", msg |-> sender.msg, todo |-> sender.todo \ {c}]
      /\ \A d \in Conn : "sender" \notin writing[d]
  BY DEF WriteToClient, DInv, DType, SenderWrites
<1>3. /\ writing' \in [Conn -> SUBSET Writer] /\ writing'[c] = writing[c] \cup {"sender"}
      /\ \A d \in Conn \ {c} : writing'[d] = writing[d]
      /\ down \subseteq down' /\ spoilt' \in [Conn -> SUBSET Writer]
  BY BeginEffect DEF WriteToClient, Writer
<1>4. \A d \in Conn : Sending(d)' = Sending(d)
  BY <1>2, <1>3 DEF Sending
<1>5. NothingLost'
  BY <1>1, <1>3, <1>4, UnderwayIs, LeftAlone DEF NothingLost
<1>6. NoClientForgotten'
  BY <1>1, <1>3 DEF DInv, NoClientForgotten
<1>7. SenderWrites'
  BY <1>2, <1>3 DEF SenderWrites
<1>. QED
  BY <1>1, <1>2, <1>3, <1>5, <1>6, <1>7 DEF DInv, DType

LEMMA WrittenKeeps == ASSUME DInv, NEW c \in Conn, Wrote(c) \/ WriteFailed(c) PROVE DInv'
<1>1. /\ UNCHANGED <<reported, pushing, broadcast, dropped, phase, listed, replaced>>
      /\ down \subseteq down' /\ clients' \subseteq clients
      /\ \A d \in Conn \ {c} : d \in clients => d \in clients'
      /\ c \in clients' \/ c \in down' \/ c \notin clients
  BY DEF Wrote, WriteFailed, pushVars
<1>2. /\ writing' \in [Conn -> SUBSET Writer] /\ writing'[c] = writing[c] \ {"sender"}
      /\ \A d \in Conn \ {c} : writing'[d] = writing[d]
      /\ "sender" \in writing[c] /\ spoilt' \in [Conn -> SUBSET Writer]
  BY EndEffect DEF Wrote, WriteFailed, Writer
<1>3. /\ sender.at = "write" /\ sender.msg \in Nat /\ sender.todo \subseteq Conn
      /\ sender' = [at |-> "next", msg |-> sender.msg, todo |-> sender.todo]
      /\ \A d \in Conn \ {c} : "sender" \notin writing[d]
  BY <1>2 DEF Wrote, WriteFailed, DInv, DType, SenderWrites
<1>4. /\ view' \in [Conn -> SUBSET Nat] /\ \A d \in Conn \ {c} : view'[d] = view[d]
      /\ lost' \in [Conn -> SUBSET Nat] /\ \A d \in Conn \ {c} : lost'[d] = lost[d]
      /\ \/ c \in down'
         \/ view'[c] = view[c] \cup ({sender.msg} \ {State}) /\ lost'[c] = lost[c]
         \/ view'[c] = view[c] /\ lost'[c] = lost[c] \cup ({sender.msg} \ {State})
  <2>1. CASE Wrote(c) /\ Shows(c, sender.msg)
    BY <1>3, <2>1 DEF Shows, DInv, DType
  <2>2. CASE Wrote(c) /\ Misses(c, {sender.msg})
    BY <1>3, <2>2 DEF Misses, DInv, DType
  <2>3. CASE c \in down' /\ UNCHANGED <<view, lost>>
    BY <2>3 DEF DInv, DType
  <2>. QED
    BY <1>1, <2>1, <2>2, <2>3 DEF Wrote, WriteFailed
<1>5. \A d \in Conn \ {c} : Sending(d)' = Sending(d)
  BY <1>2, <1>3 DEF Sending
<1>6. ASSUME NEW d \in Conn, HasList(d)' PROVE reported' \subseteq Covered(d)'
  <2>1. CASE d # c
    BY <1>1, <1>4, <1>5, <1>6, <2>1, UnderwayIs, LeftAlone
  <2>2. CASE d = c
    <3>1. HasList(c) /\ c \notin down' /\ reported \subseteq Trade /\ State \notin Trade
      BY <1>1, <1>6, <2>2 DEF HasList, DInv, DType, State, Trade
    <3>2. Underway(c) \subseteq Underway(c)' \cup {sender.msg}
      BY <1>1, UnderwayIs DEF Sending
    <3>3. OffScreen(c)' = OffScreen(c)
      BY <1>1 DEF OffScreen
    <3>4. reported \subseteq Covered(c)
      BY <3>1 DEF DInv, NothingLost
    <3>. QED
      BY <1>1, <1>4, <2>2, <3>1, <3>2, <3>3, <3>4 DEF Covered
  <2>. QED
    BY <2>1, <2>2
<1>7. NoClientForgotten'
  BY <1>1 DEF DInv, NoClientForgotten
<1>8. SenderWrites'
  BY <1>2, <1>3 DEF SenderWrites
<1>. QED
  BY <1>1, <1>2, <1>3, <1>4, <1>6, <1>7, <1>8 DEF DInv, DType, NothingLost

\* A step of a connection's goroutine, or of its browser, as the hub sees it.
ByConnection(c) ==
  /\ UNCHANGED <<reported, pushing, broadcast, dropped, sender>>
  /\ writing' \in [Conn -> SUBSET Writer] /\ spoilt' \in [Conn -> SUBSET Writer]
  /\ \A d \in Conn : ("sender" \in writing'[d]) = ("sender" \in writing[d])
  /\ phase' \in [Conn -> Phase] /\ \A d \in Conn \ {c} : phase'[d] = phase[d]
  /\ down \subseteq down'

LEMMA ConnectionEffect ==
  ASSUME DInv, NEW c \in Conn,
         \/ Upgrade(c) \/ Register(c) \/ Greet(c) \/ Greeted(c) \/ SendList(c) \/ ListSent(c)
         \/ Leave(c) \/ Disconnect(c)
  PROVE  ByConnection(c)
<1>1. UNCHANGED <<reported, pushing, broadcast, dropped, sender>>
  BY DEF Upgrade, Register, Greet, Greeted, SendList, ListSent, Leave, Disconnect, Others, pushVars
<1>2. /\ writing' \in [Conn -> SUBSET Writer] /\ spoilt' \in [Conn -> SUBSET Writer]
      /\ \A d \in Conn : ("sender" \in writing'[d]) = ("sender" \in writing[d])
  <2>1. CASE Upgrade(c) \/ Register(c) \/ Leave(c) \/ Disconnect(c)
    BY <2>1 DEF Upgrade, Register, Leave, Disconnect, DInv, DType
  <2>2. CASE Greet(c) \/ SendList(c)
    BY <2>2, BeginEffect DEF Greet, SendList, Writer
  <2>3. CASE Greeted(c) \/ ListSent(c)
    BY <2>3, EndEffect DEF Greeted, ListSent, Writer
  <2>. QED
    BY <2>1, <2>2, <2>3
<1>3. phase' \in [Conn -> Phase] /\ \A d \in Conn \ {c} : phase'[d] = phase[d]
  <2>1. CASE Disconnect(c)
    BY <2>1 DEF Disconnect, DInv, DType
  <2>2. CASE Upgrade(c) \/ Register(c)
    BY <2>2, AtEffect DEF Upgrade, Register, Phase
  <2>3. CASE Greet(c) \/ Greeted(c)
    BY <2>3, AtEffect DEF Greet, Greeted, Phase
  <2>4. CASE SendList(c) \/ ListSent(c)
    BY <2>4, AtEffect DEF SendList, ListSent, Phase
  <2>5. CASE Leave(c)
    BY <2>5, AtEffect DEF Leave, Phase
  <2>. QED
    BY <2>1, <2>2, <2>3, <2>4, <2>5
<1>4. down \subseteq down'
  <2>1. CASE Greet(c) \/ SendList(c)
    BY <2>1, BeginEffect DEF Greet, SendList, Writer
  <2>2. CASE ~ (Greet(c) \/ SendList(c))
    BY <2>2 DEF Upgrade, Register, Greeted, ListSent, Leave, Disconnect
  <2>. QED
    BY <2>1, <2>2
<1>. QED
  BY <1>1, <1>2, <1>3, <1>4 DEF ByConnection

\* So the goroutine has to answer for its own connection only.
LEMMA ForItself ==
  ASSUME DInv, NEW c \in Conn, ByConnection(c),
         clients' \subseteq Conn /\ \A d \in Conn \ {c} : d \in clients => d \in clients',
         listed' \in [Conn -> SUBSET Nat] /\ \A d \in Conn \ {c} : listed'[d] = listed[d],
         view' \in [Conn -> SUBSET Nat] /\ \A d \in Conn \ {c} : view'[d] = view[d],
         replaced' \in [Conn -> SUBSET Nat] /\ \A d \in Conn \ {c} : replaced'[d] = replaced[d],
         lost' \in [Conn -> SUBSET Nat] /\ \A d \in Conn \ {c} : lost'[d] = lost[d],
         phase'[c] \notin {"away", "upgraded"} /\ c \notin down' => c \in clients',
         HasList(c)' => reported \subseteq Covered(c)'
  PROVE  DInv'
<1>1. \A d \in Conn : Underway(d)' = Underway(d)
  <2>1. UNCHANGED <<pushing, broadcast>> /\ \A d \in Conn : Sending(d)' = Sending(d)
    BY DEF ByConnection, Sending
  <2>. QED
    BY <2>1, UnderwayIs
<1>2. NoClientForgotten'
  BY DEF ByConnection, DInv, NoClientForgotten
<1>3. NothingLost'
  BY <1>1, LeftAlone DEF ByConnection, NothingLost
<1>4. SenderWrites'
  BY DEF ByConnection, DInv, SenderWrites
<1>. QED
  BY <1>2, <1>3, <1>4 DEF ByConnection, DInv, DType

LEMMA BeforeTheList ==
  ASSUME DInv, NEW c \in Conn, Upgrade(c) \/ Register(c) \/ Greet(c)
  PROVE  DInv'
<1>1. ByConnection(c)
  BY ConnectionEffect
<1>2. UNCHANGED <<listed, view, replaced, lost>> /\ clients' \subseteq clients \cup {c} /\ clients \subseteq clients'
  BY DEF Upgrade, Register, Greet
<1>3. phase'[c] \in {"upgraded", "greet", "greeting"}
  BY AtEffect DEF Upgrade, Register, Greet, Phase
<1>4. phase'[c] \notin {"away", "upgraded"} /\ c \notin down' => c \in clients'
  <2>1. CASE Upgrade(c)
    BY <2>1, AtEffect DEF Upgrade, Phase
  <2>2. CASE Register(c)
    BY <2>2 DEF Register
  <2>3. CASE Greet(c)
    <3>1. phase[c] = "greet"
      BY <2>3 DEF Greet, At
    <3>. QED
      BY <1>1, <1>2, <3>1 DEF ByConnection, DInv, NoClientForgotten
  <2>. QED
    BY <2>1, <2>2, <2>3
<1>. QED
  BY <1>1, <1>2, <1>3, <1>4, ForItself DEF HasList, DInv, DType

LEMMA GreetedKeeps == ASSUME DInv, NEW c \in Conn, Greeted(c) PROVE DInv'
<1>1. ByConnection(c)
  BY ConnectionEffect
<1>2. phase[c] = "greeting" /\ phase'[c] = "listed" /\ UNCHANGED <<clients, down, view, replaced, lost>>
  BY AtEffect DEF Greeted, Phase
<1>3. /\ listed' \in [Conn -> SUBSET Nat] /\ listed'[c] = reported
      /\ \A d \in Conn \ {c} : listed'[d] = listed[d]
  <2>1. reported \subseteq Nat
    BY DEF DInv, DType, Trade
  <2>. QED
    BY <2>1 DEF Greeted, DInv, DType
<1>4. reported \subseteq Covered(c)'
  BY <1>2, <1>3 DEF Covered, OffScreen
<1>5. phase'[c] \notin {"away", "upgraded"} /\ c \notin down' => c \in clients'
  BY <1>2 DEF DInv, NoClientForgotten
<1>. QED
  BY <1>1, <1>2, <1>3, <1>4, <1>5, ForItself DEF DInv, DType

LEMMA SendListKeeps == ASSUME DInv, NEW c \in Conn, SendList(c) PROVE DInv'
<1>1. ByConnection(c)
  BY ConnectionEffect
<1>2. /\ phase[c] = "listed" /\ phase'[c] = "sending"
      /\ UNCHANGED <<clients, listed, view, replaced, lost>>
  BY AtEffect DEF SendList, Phase
<1>3. Underway(c)' = Underway(c) /\ down \subseteq down' /\ dropped' = dropped
  BY <1>1, UnderwayIs DEF ByConnection, Sending
<1>4. HasList(c)' => reported \subseteq Covered(c)'
  BY <1>2, <1>3 DEF DInv, NothingLost, HasList, Covered, OffScreen
<1>5. phase'[c] \notin {"away", "upgraded"} /\ c \notin down' => c \in clients'
  BY <1>2, <1>3 DEF DInv, NoClientForgotten
<1>. QED
  BY <1>1, <1>2, <1>4, <1>5, ForItself DEF DInv, DType

\* What the list takes off the screen is kept account of.
LEMMA ListSentKeeps == ASSUME DInv, NEW c \in Conn, ListSent(c) PROVE DInv'
<1>1. ByConnection(c)
  BY ConnectionEffect
<1>2. phase[c] = "sending" /\ phase'[c] = "reading" /\ UNCHANGED <<clients, down>>
  BY AtEffect DEF ListSent, Phase
<1>3. Underway(c)' = Underway(c) /\ dropped' = dropped
  BY <1>1, UnderwayIs DEF ByConnection, Sending
<1>4. /\ listed' \in [Conn -> SUBSET Nat]
      /\ \A d \in Conn \ {c} : listed'[d] = listed[d]
  BY DEF ListSent, DInv, DType
<1>5. /\ view' \in [Conn -> SUBSET Nat] /\ \A d \in Conn \ {c} : view'[d] = view[d]
      /\ replaced' \in [Conn -> SUBSET Nat] /\ \A d \in Conn \ {c} : replaced'[d] = replaced[d]
      /\ lost' \in [Conn -> SUBSET Nat] /\ \A d \in Conn \ {c} : lost'[d] = lost[d]
      /\ \/ c \in down
         \/ view'[c] = listed[c] /\ replaced'[c] = view[c] \ listed[c] /\ lost'[c] = lost[c]
         \/ view'[c] = view[c] /\ lost'[c] = lost[c] \cup (listed[c] \ {State})
  <2>1. CASE c \in down /\ UNCHANGED <<view, replaced, lost>>
    BY <2>1 DEF DInv, DType
  <2>2. CASE /\ view' = [view EXCEPT ![c] = listed[c]]
             /\ replaced' = [replaced EXCEPT ![c] = view[c] \ listed[c]]
             /\ UNCHANGED lost
    <3>1. listed[c] \in SUBSET Nat /\ view[c] \ listed[c] \in SUBSET Nat
      BY DEF DInv, DType
    <3>2. view' \in [Conn -> SUBSET Nat] /\ view'[c] = listed[c]
          /\ \A d \in Conn \ {c} : view'[d] = view[d]
      BY <2>2, <3>1 DEF DInv, DType
    <3>3. replaced' \in [Conn -> SUBSET Nat] /\ replaced'[c] = view[c] \ listed[c]
          /\ \A d \in Conn \ {c} : replaced'[d] = replaced[d]
      BY <2>2, <3>1 DEF DInv, DType
    <3>. QED
      BY <2>2, <3>2, <3>3 DEF DInv, DType
  <2>3. CASE Misses(c, listed[c]) /\ UNCHANGED replaced
    BY <2>3 DEF Misses, DInv, DType
  <2>. QED
    BY <2>1, <2>2, <2>3 DEF ListSent
<1>6. HasList(c)' => reported \subseteq Covered(c)'
  <2>1. reported \subseteq Trade /\ State \notin Trade
    BY DEF DInv, DType, State, Trade
  <2>2. HasList(c)' => reported \subseteq Covered(c) /\ OffScreen(c) = listed[c] /\ c \notin down
    BY <1>2 DEF DInv, NothingLost, HasList, OffScreen
  <2>3. OffScreen(c)' = replaced'[c]
    BY <1>2 DEF OffScreen
  <2>. QED
    BY <1>3, <1>5, <2>1, <2>2, <2>3 DEF Covered
<1>7. phase'[c] \notin {"away", "upgraded"} /\ c \notin down' => c \in clients'
  BY <1>2 DEF DInv, NoClientForgotten
<1>. QED
  BY <1>1, <1>2, <1>4, <1>5, <1>6, <1>7, ForItself DEF DInv, DType

LEMMA GoneKeeps == ASSUME DInv, NEW c \in Conn, Leave(c) \/ Disconnect(c) PROVE DInv'
<1>1. ByConnection(c)
  BY ConnectionEffect
<1>2. c \in down' /\ listed' = listed /\ clients' \subseteq clients
      /\ \A d \in Conn \ {c} : d \in clients => d \in clients'
  BY DEF Leave, Disconnect
<1>3. /\ view' \in [Conn -> SUBSET Nat] /\ \A d \in Conn \ {c} : view'[d] = view[d]
      /\ replaced' \in [Conn -> SUBSET Nat] /\ \A d \in Conn \ {c} : replaced'[d] = replaced[d]
      /\ lost' \in [Conn -> SUBSET Nat] /\ \A d \in Conn \ {c} : lost'[d] = lost[d]
  BY DEF Leave, Disconnect, DInv, DType
<1>. QED
  BY <1>1, <1>2, <1>3, ForItself DEF HasList, DInv, DType

LEMMA StopKeeps == ASSUME DInv, Stop PROVE DInv'
<1>1. CASE Cleanup
  <2>1. /\ UNCHANGED <<reported, pushing, broadcast, dropped, sender, phase, writing, spoilt, listed, view,
                    replaced, lost>>
        /\ down' = down \cup clients /\ clients' = {}
    BY <1>1 DEF Cleanup, pushVars
  <2>2. \A d \in Conn : Underway(d)' = Underway(d)
    BY <2>1, UnderwayIs DEF Sending
  <2>3. NothingLost'
    BY <2>1, <2>2, LeftAlone DEF NothingLost
  <2>4. NoClientForgotten'
    BY <2>1 DEF DInv, NoClientForgotten
  <2>. QED
    BY <2>1, <2>3, <2>4 DEF DInv, DType, SenderWrites
<1>2. CASE CloseStop \/ Drain \/ DrainTimeout \/ Wait
  BY <1>2, AsideKeeps DEF CloseStop, Drain, DrainTimeout, Wait
<1>. QED
  BY <1>1, <1>2 DEF Stop

LEMMA StepKeepsDashboard == ASSUME DInv, [Next]_vars PROVE DInv'
<1>1. CASE UNCHANGED vars
  BY <1>1, AsideKeeps DEF vars, hubVars
<1>2. CASE PusherReturns \/ SenderReturns
  BY <1>2, AsideKeeps DEF PusherReturns, SenderReturns
<1>. QED
  BY <1>1, <1>2, PushTickKeeps, PushTradeKeeps, PushKeeps, TakeMessageKeeps, LockClientsKeeps,
     UnlockClientsKeeps, WriteToClientKeeps, WrittenKeeps, BeforeTheList, GreetedKeeps,
     SendListKeeps, ListSentKeeps, GoneKeeps, StopKeeps DEF Next, Quiet

LEMMA InitDashboard == ASSUME Init PROVE DInv
<1>1. DType
  BY DEF Init, DType, Idle, State, Writer, Phase
<1>2. SenderWrites
  BY DEF Init, SenderWrites, Idle
<1>3. NoClientForgotten /\ NothingLost
  BY DEF Init, NoClientForgotten, NothingLost, HasList
<1>. QED
  BY <1>1, <1>2, <1>3 DEF DInv

\* Whatever writes fail, and whenever browsers come and go: a browser whose connection
\* is up after it was registered is in the map that the hub sends to.
THEOREM ClientsRemembered == Spec => []NoClientForgotten
<1>1. DInv => NoClientForgotten
  BY DEF DInv
<1>. QED
  BY <1>1, InitDashboard, StepKeepsDashboard, PTL DEF Spec

\* However pushes and the greeting of a new browser interleave: a browser that was sent
\* its list lacks no trade but those dropped at a full queue, those the list took away and
\* those of a list or push that was spoilt as two goroutines wrote at the same time.
THEOREM NothingGoesMissing == Spec => []NothingMissing
<1>1. DInv => NothingMissing
  BY DEF DInv, NothingLost, NothingMissing, HasList, Covered, OffScreen
<1>. QED
  BY <1>1, InitDashboard, StepKeepsDashboard, PTL DEF Spec
=============================================================================
