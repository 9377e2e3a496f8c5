--------------------------- MODULE LifecycleProofs ---------------------------
(***************************************************************************)
(* Proofs about Lifecycle, Shutdown and Pipeline, for any capacities and   *)
(* any number of callers, starts, requests and ticks.                      *)
(***************************************************************************)
EXTENDS Shutdown, Pipeline, FiniteSetTheorems, SequenceTheorems, TLAPS

\* The channels of a part are numbered as they are made.
ChannelsInOrder ==
  /\ running \in [Part -> BOOLEAN]
  /\ chan \in [Part -> Nat]
  /\ closed \in [Part -> SUBSET Nat]
  /\ \A p \in Part : \A g \in closed[p] : g <= chan[p]

IInv == ChannelsInOrder /\ OpenWhileRunning

LEMMA OpenEffect ==
  ASSUME ChannelsInOrder, NEW p \in Part, Open(p)
  PROVE  /\ running' \in [Part -> BOOLEAN] /\ running'[p]
         /\ \A q \in Part \ {p} : running'[q] = running[q]
         /\ chan' \in [Part -> Nat] /\ chan'[p] = chan[p] + 1
         /\ \A q \in Part \ {p} : chan'[q] = chan[q]
         /\ closed' = closed
<1>1. running' \in [Part -> BOOLEAN] /\ running'[p] /\ \A q \in Part \ {p} : running'[q] = running[q]
  BY Zenon DEF ChannelsInOrder, Open
<1>. QED
  BY <1>1 DEF ChannelsInOrder, Open

LEMMA CloseEffect ==
  ASSUME ChannelsInOrder, NEW p \in Part, Close(p)
  PROVE  /\ running' \in [Part -> BOOLEAN] /\ ~ running'[p]
         /\ \A q \in Part \ {p} : running'[q] = running[q]
         /\ closed' \in [Part -> SUBSET Nat] /\ closed'[p] = closed[p] \cup {chan[p]}
         /\ \A q \in Part \ {p} : closed'[q] = closed[q]
         /\ chan' = chan
<1>1. running' \in [Part -> BOOLEAN]
  BY Zenon DEF ChannelsInOrder, Close
<1>2. ~ running'[p] /\ \A q \in Part \ {p} : running'[q] = running[q]
  BY Zenon DEF ChannelsInOrder, Close
<1>. QED
  BY <1>1, <1>2 DEF ChannelsInOrder, Close

LEMMA OpenKeeps == ASSUME IInv, NEW p \in Part, Open(p) PROVE IInv'
BY OpenEffect DEF IInv, ChannelsInOrder, OpenWhileRunning

LEMMA CloseKeeps == ASSUME IInv, NEW p \in Part, Close(p) PROVE IInv'
BY CloseEffect DEF IInv, ChannelsInOrder, OpenWhileRunning

LEMMA OthersKeep == ASSUME IInv, UNCHANGED <<running, chan, closed>> PROVE IInv'
BY DEF IInv, ChannelsInOrder, OpenWhileRunning

\* Every step opens a channel, closes the current one, or does neither.
LEMMA StepForms ==
  ASSUME [Next]_vars
  PROVE  \/ \E p \in Part : Open(p) \/ Close(p)
         \/ UNCHANGED <<running, chan, closed>>
<1>1. CASE \E c \in Caller : StartEngine(c) \/ StopEngine(c)
  BY <1>1, Zenon DEF StartEngine, StopEngine, Begin, Part
<1>2. CASE \E c \in Caller : Continue(c)
  BY <1>2, Zenon DEF Continue, StartMarket, StartFeeder, StartProcessor, StopMarket, StopFeeder,
                     AwaitMarket, ClearQuotes, AwaitEngine, At, Part
<1>3. CASE \E p \in Part, g \in Channel : Select(p, g) \/ Work(p, g) \/ Return(p, g)
  BY <1>3 DEF Select, Work, Return
<1>4. CASE UNCHANGED vars
  BY <1>4 DEF vars
<1>. QED
  BY <1>1, <1>2, <1>3, <1>4 DEF Next

\* However many callers start and stop the engine at the same time, a running
\* part waits on an open channel: none is closed twice, none too early.
THEOREM RunningStaysOpen == Spec => []OpenWhileRunning
<1>1. Init => IInv
  BY DEF Init, IInv, ChannelsInOrder, OpenWhileRunning, None
<1>2. ASSUME IInv, [Next]_vars PROVE IInv'
  BY <1>2, StepForms, OpenKeeps, CloseKeeps, OthersKeep
<1>3. IInv => OpenWhileRunning
  BY DEF IInv
<1>. QED
  BY <1>1, <1>2, <1>3, PTL DEF Spec

-----------------------------------------------------------------------------
(***************************************************************************)
(* A stop reaches the market and the dispatcher.                           *)
(***************************************************************************)

Starting == {"startMarket", "startFeeder", "startProcessor"}
Stopping == {"stopMarket", "stopFeeder", "awaitMarket", "clearQuotes", "awaitEngine"}

CallType ==
  /\ alive \in [Part -> SUBSET Nat]
  /\ pc \in [Caller -> {"idle"} \cup Starting \cup Stopping]
  /\ apart \in BOOLEAN

\* A start has the lock until the last part runs, so the engine is not stopped under it.
LockHeld == \A c \in Caller : pc[c] \in Starting => mu = {c} /\ running["engine"]

\* Whoever stopped the engine last has yet to stop the market and await the dispatcher.
StopGoesOn ==
  ~ running["engine"] =>
    /\ running["market"] => \E c \in Caller : pc[c] = "stopMarket"
    /\ alive["engine"] # {} => \E c \in Caller : pc[c] \in Stopping

CInv == IInv /\ CallType /\ LockHeld /\ StopGoesOn

LEMMA PcEffect ==
  ASSUME CallType, NEW c \in Caller, NEW next \in {"idle"} \cup Starting \cup Stopping,
         pc' = [pc EXCEPT ![c] = next]
  PROVE  /\ pc' \in [Caller -> {"idle"} \cup Starting \cup Stopping]
         /\ pc'[c] = next /\ \A d \in Caller \ {c} : pc'[d] = pc[d]
BY DEF CallType

\* What a call does to the parts, the lock and the place of its caller.
LEMMA StartEngineKeeps == ASSUME CInv, NEW c \in Caller, StartEngine(c) PROVE CInv'
<1>1. "engine" \in Part /\ "startMarket" \in Starting
  BY DEF Part, Starting
<1>2. IInv'
  BY <1>1, OpenKeeps DEF CInv, StartEngine
<1>3. running'["engine"] /\ alive' \in [Part -> SUBSET Nat]
  BY <1>1, OpenEffect DEF CInv, CallType, IInv, StartEngine
<1>4. /\ pc'[c] = "startMarket" /\ \A d \in Caller \ {c} : pc'[d] = pc[d]
      /\ pc' \in [Caller -> {"idle"} \cup Starting \cup Stopping]
  BY <1>1, PcEffect DEF CInv, StartEngine, Begin
<1>5. apart' \in BOOLEAN
  BY DEF StartEngine, Begin
<1>6. LockHeld'
  BY <1>3, <1>4 DEF CInv, LockHeld, StartEngine
<1>. QED
  BY <1>2, <1>3, <1>4, <1>5, <1>6 DEF CInv, CallType, StopGoesOn

LEMMA StartMarketKeeps == ASSUME CInv, NEW c \in Caller, StartMarket(c) PROVE CInv'
<1>1. {"market", "engine"} \subseteq Part /\ "startMarket" \in Starting
  BY DEF Part, Starting
<1>2. running["engine"] /\ mu = {c}
  BY <1>1 DEF CInv, LockHeld, StartMarket, At
<1>3. alive' = alive /\ apart' = apart
  BY DEF StartMarket, At
<1>4. CASE running["market"]
  <2>1. UNCHANGED <<running, chan, closed>>
    BY <1>4 DEF StartMarket
  <2>2. /\ pc'[c] = "idle" /\ \A d \in Caller \ {c} : pc'[d] = pc[d]
        /\ pc' \in [Caller -> {"idle"} \cup Starting \cup Stopping]
    BY <1>4, PcEffect DEF CInv, StartMarket, At
  <2>3. LockHeld'
    BY <1>2, <2>1, <2>2 DEF CInv, LockHeld, Starting
  <2>. QED
    BY <1>2, <1>3, <2>1, <2>2, <2>3, OthersKeep DEF CInv, CallType, StopGoesOn
<1>5. CASE ~ running["market"]
  <2>1. IInv' /\ running'["engine"]
    BY <1>1, <1>2, <1>5, OpenKeeps, OpenEffect DEF CInv, IInv, StartMarket
  <2>2. /\ pc'[c] = "startFeeder" /\ \A d \in Caller \ {c} : pc'[d] = pc[d]
        /\ pc' \in [Caller -> {"idle"} \cup Starting \cup Stopping]
    BY <1>5, PcEffect DEF CInv, StartMarket, At, Starting
  <2>3. LockHeld'
    BY <1>2, <1>5, <2>1, <2>2 DEF CInv, LockHeld, StartMarket
  <2>. QED
    BY <1>3, <2>1, <2>2, <2>3 DEF CInv, CallType, StopGoesOn
<1>. QED
  BY <1>4, <1>5

LEMMA StartFeederKeeps == ASSUME CInv, NEW c \in Caller, StartFeeder(c) PROVE CInv'
<1>1. {"feeder", "engine"} \subseteq Part /\ "startFeeder" \in Starting /\ "startProcessor" \in Starting
  BY DEF Part, Starting
<1>2. running["engine"] /\ mu = {c}
  BY <1>1 DEF CInv, LockHeld, StartFeeder, At
<1>3. IInv' /\ running'["engine"] /\ alive' \in [Part -> SUBSET Nat]
  <2>1. CASE running["feeder"]
    BY <2>1, <1>2, OthersKeep DEF CInv, CallType, StartFeeder
  <2>2. CASE ~ running["feeder"]
    BY <2>2, <1>1, <1>2, OpenKeeps, OpenEffect DEF CInv, CallType, IInv, StartFeeder
  <2>. QED
    BY <2>1, <2>2
<1>4. /\ pc'[c] = "startProcessor" /\ \A d \in Caller \ {c} : pc'[d] = pc[d]
      /\ pc' \in [Caller -> {"idle"} \cup Starting \cup Stopping]
  BY <1>1, PcEffect DEF CInv, StartFeeder, At
<1>5. LockHeld'
  BY <1>2, <1>3, <1>4 DEF CInv, LockHeld, StartFeeder
<1>. QED
  BY <1>3, <1>4, <1>5 DEF CInv, CallType, StopGoesOn, StartFeeder, At

LEMMA StartProcessorKeeps == ASSUME CInv, NEW c \in Caller, StartProcessor(c) PROVE CInv'
<1>1. {"market", "engine"} \subseteq Part /\ "startProcessor" \in Starting
  BY DEF Part, Starting
<1>2. running["engine"] /\ mu = {c}
  BY <1>1 DEF CInv, LockHeld, StartProcessor, At
<1>3. /\ pc'[c] = "idle" /\ \A d \in Caller \ {c} : pc'[d] = pc[d]
      /\ pc' \in [Caller -> {"idle"} \cup Starting \cup Stopping]
  BY PcEffect DEF CInv, StartProcessor, At
<1>4. alive' \in [Part -> SUBSET Nat] /\ running' = running
  BY ZenonT(60) DEF CInv, CallType, IInv, ChannelsInOrder, StartProcessor
<1>5. LockHeld'
  BY <1>2, <1>3, <1>4 DEF CInv, LockHeld, Starting
<1>. QED
  BY <1>2, <1>3, <1>4, <1>5, OthersKeep DEF CInv, CallType, StopGoesOn, StartProcessor, At

LEMMA StopEngineKeeps == ASSUME CInv, NEW c \in Caller, StopEngine(c) PROVE CInv'
<1>1. "engine" \in Part /\ "stopMarket" \in Stopping /\ "stopMarket" \notin Starting
  BY DEF Part, Starting, Stopping
<1>2. IInv'
  BY <1>1, CloseKeeps DEF CInv, StopEngine
<1>3. /\ pc'[c] = "stopMarket" /\ \A d \in Caller \ {c} : pc'[d] = pc[d]
      /\ pc' \in [Caller -> {"idle"} \cup Starting \cup Stopping]
  BY <1>1, PcEffect DEF CInv, StopEngine, Begin
<1>4. LockHeld'
  BY <1>1, <1>3 DEF CInv, LockHeld, StopEngine
<1>. QED
  BY <1>1, <1>2, <1>3, <1>4 DEF CInv, CallType, StopGoesOn, StopEngine, Begin

LEMMA StopMarketKeeps == ASSUME CInv, NEW c \in Caller, StopMarket(c) PROVE CInv'
<1>1. {"market", "engine"} \subseteq Part
      /\ {"stopFeeder", "awaitEngine"} \subseteq Stopping \ Starting
  BY DEF Part, Starting, Stopping
<1>2. IInv' /\ ~ running'["market"] /\ running'["engine"] = running["engine"]
  <2>1. CASE running["market"]
    BY <2>1, <1>1, CloseKeeps, CloseEffect DEF CInv, IInv, StopMarket
  <2>2. CASE ~ running["market"]
    BY <2>2, OthersKeep DEF CInv, StopMarket
  <2>. QED
    BY <2>1, <2>2
<1>3. /\ pc'[c] \in Stopping \ Starting /\ \A d \in Caller \ {c} : pc'[d] = pc[d]
      /\ pc' \in [Caller -> {"idle"} \cup Starting \cup Stopping]
  BY <1>1, PcEffect DEF CInv, StopMarket, At
<1>4. LockHeld'
  BY <1>2, <1>3 DEF CInv, LockHeld, StopMarket
<1>. QED
  BY <1>2, <1>3, <1>4 DEF CInv, CallType, StopGoesOn, StopMarket, At

LEMMA StopFeederKeeps == ASSUME CInv, NEW c \in Caller, StopFeeder(c) PROVE CInv'
<1>1. {"market", "feeder", "engine"} \subseteq Part /\ "awaitMarket" \in Stopping \ Starting
  BY DEF Part, Starting, Stopping
<1>2. /\ IInv' /\ running'["engine"] = running["engine"] /\ running'["market"] = running["market"]
  <2>1. CASE running["feeder"]
    BY <2>1, <1>1, CloseKeeps, CloseEffect DEF CInv, IInv, StopFeeder
  <2>2. CASE ~ running["feeder"]
    BY <2>2, OthersKeep DEF CInv, StopFeeder
  <2>. QED
    BY <2>1, <2>2
<1>3. /\ pc[c] = "stopFeeder" /\ pc'[c] = "awaitMarket" /\ \A d \in Caller \ {c} : pc'[d] = pc[d]
      /\ pc' \in [Caller -> {"idle"} \cup Starting \cup Stopping]
  BY <1>1, PcEffect DEF CInv, StopFeeder, At
<1>4. LockHeld'
  BY <1>1, <1>2, <1>3 DEF CInv, LockHeld, StopFeeder
<1>5. running["market"] /\ ~ running["engine"] => \E d \in Caller : pc'[d] = "stopMarket"
  BY <1>3 DEF CInv, StopGoesOn
<1>. QED
  BY <1>1, <1>2, <1>3, <1>4, <1>5 DEF CInv, CallType, StopGoesOn, StopFeeder, At

\* Waiting for the market, and clearing its quotes, change nothing but the place.
LEMMA WaitKeeps ==
  ASSUME CInv, NEW c \in Caller, AwaitMarket(c) \/ ClearQuotes(c) \/ AwaitEngine(c)
  PROVE  CInv'
<1>1. "engine" \in Part /\ {"clearQuotes", "awaitEngine"} \subseteq Stopping
      /\ {"clearQuotes", "awaitEngine", "idle"} \cap Starting = {}
  BY DEF Part, Starting, Stopping
<1>2. /\ pc[c] # "stopMarket" /\ pc'[c] \in {"clearQuotes", "awaitEngine", "idle"}
      /\ \A d \in Caller \ {c} : pc'[d] = pc[d]
      /\ pc' \in [Caller -> {"idle"} \cup Starting \cup Stopping]
      /\ pc'[c] = "idle" => alive["engine"] = {}
  BY <1>1, PcEffect DEF CInv, AwaitMarket, ClearQuotes, AwaitEngine, At, Gone
<1>3. UNCHANGED <<running, chan, closed, alive, mu, apart>>
  BY DEF AwaitMarket, ClearQuotes, AwaitEngine, At
<1>4. LockHeld'
  BY <1>1, <1>2, <1>3 DEF CInv, LockHeld
<1>5. StopGoesOn'
  BY <1>1, <1>2, <1>3 DEF CInv, StopGoesOn
<1>. QED
  BY <1>2, <1>3, <1>4, <1>5, OthersKeep DEF CInv, CallType

LEMMA LoopKeeps ==
  ASSUME CInv, NEW p \in Part, NEW g \in Channel, Select(p, g) \/ Work(p, g) \/ Return(p, g)
  PROVE  CInv'
<1>1. UNCHANGED <<running, chan, closed, mu, pc, apart>>
  BY DEF Select, Work, Return
<1>2. alive' \in [Part -> SUBSET Nat] /\ \A q \in Part : alive'[q] \subseteq alive[q]
  BY DEF CInv, CallType, Select, Work, Return
<1>3. "engine" \in Part
  BY DEF Part
<1>. QED
  BY <1>1, <1>2, <1>3, OthersKeep DEF CInv, CallType, LockHeld, StopGoesOn

LEMMA StepKeepsCalls == ASSUME CInv, [Next]_vars PROVE CInv'
<1>1. CASE UNCHANGED vars
  BY <1>1, OthersKeep DEF vars, CInv, CallType, LockHeld, StopGoesOn
<1>2. ASSUME NEW c \in Caller, Continue(c) PROVE CInv'
  BY <1>2, StartMarketKeeps, StartFeederKeeps, StartProcessorKeeps, StopMarketKeeps,
     StopFeederKeeps, WaitKeeps DEF Continue
<1>. QED
  BY <1>1, <1>2, StartEngineKeeps, StopEngineKeeps, LoopKeeps DEF Next

LEMMA InitCalls == ASSUME Init PROVE CInv
BY DEF Init, CInv, IInv, ChannelsInOrder, OpenWhileRunning, CallType, LockHeld, StopGoesOn, None,
       Part, Starting, Stopping

\* However many calls of Start and Stop overlap: when all have returned and the engine
\* does not run, neither does the market, and no dispatcher is left.
THEOREM StopComesThrough == Spec => []StopReaches
<1>1. CInv => StopReaches
  BY DEF CInv, StopGoesOn, StopReaches, Returned, Stopping
<1>. QED
  BY <1>1, InitCalls, StepKeepsCalls, PTL DEF Spec

-----------------------------------------------------------------------------
(***************************************************************************)
(* Calls one after another.                                                *)
(***************************************************************************)

\* A goroutine waits on its own channel or a later one.
Numbered ==
  /\ watched \in [Part -> [Channel -> Nat]]
  /\ \A p \in Part : None \notin closed[p] /\ (running[p] => chan[p] # None)
  /\ \A p \in Part : \A g \in alive[p] : g <= chan[p]
  /\ \A p \in Part : \A g \in Channel :
       watched[p][g] # None => g <= watched[p][g] /\ watched[p][g] <= chan[p]

NInv == CInv /\ Numbered

LEMMA OpenForms ==
  ASSUME NInv, NEW p \in Part, Open(p)
  PROVE  /\ \A q \in Part : chan[q] \in Nat /\ chan'[q] \in Nat /\ chan[q] <= chan'[q]
         /\ \A q \in Part : None \notin closed'[q] /\ (running'[q] => chan'[q] # None)
<1>1. \A q \in Part : running'[q] => chan'[q] # None
  BY OpenEffect DEF NInv, CInv, IInv, ChannelsInOrder, Numbered, None
<1>2. closed' = closed
  BY DEF Open
<1>. QED
  BY <1>1, <1>2, OpenEffect DEF NInv, CInv, IInv, ChannelsInOrder, Numbered

\* A channel more leaves those that are waited on in their order.
LEMMA LaterWaits ==
  ASSUME NInv, NEW p \in Part, Open(p), watched' = watched, NEW q \in Part, NEW g \in Channel,
         watched'[q][g] # None
  PROVE  g <= watched'[q][g] /\ watched'[q][g] <= chan'[q]
<1>1. watched[q][g] \in Nat /\ g <= watched[q][g] /\ watched[q][g] <= chan[q]
  BY DEF NInv, Numbered
<1>. QED
  BY <1>1, OpenForms DEF Channel

LEMMA OpenNumbers ==
  ASSUME NInv, NEW p \in Part, Open(p), alive' = alive, watched' = watched
  PROVE  Numbered'
<1>1. ASSUME NEW q \in Part, NEW g \in alive'[q] PROVE g <= chan'[q]
  <2>1. g \in Nat /\ g <= chan[q]
    BY <1>1 DEF NInv, CInv, CallType, Numbered
  <2>. QED
    BY <2>1, OpenForms
<1>. QED
  BY <1>1, OpenForms, LaterWaits DEF NInv, Numbered

LEMMA OpenForkNumbers ==
  ASSUME NInv, NEW p \in Part, Open(p), watched' = watched,
         alive' = [alive EXCEPT ![p] = @ \cup {chan'[p]}]
  PROVE  Numbered'
<1>1. alive'[p] = alive[p] \cup {chan'[p]} /\ \A q \in Part \ {p} : alive'[q] = alive[q]
  BY DEF NInv, CInv, CallType
<1>2. ASSUME NEW q \in Part, NEW g \in alive'[q] PROVE g <= chan'[q]
  <2>1. CASE g \in alive[q]
    <3>1. g \in Nat /\ g <= chan[q]
      BY <2>1 DEF NInv, CInv, CallType, Numbered
    <3>. QED
      BY <3>1, OpenForms
  <2>2. CASE g = chan'[q]
    BY <2>2, OpenForms
  <2>. QED
    BY <1>1, <1>2, <2>1, <2>2
<1>. QED
  BY <1>2, OpenForms, LaterWaits DEF NInv, Numbered

LEMMA CloseNumbers ==
  ASSUME NInv, NEW p \in Part, running[p], Close(p), alive' = alive, watched' = watched
  PROVE  Numbered'
BY CloseEffect DEF NInv, CInv, IInv, ChannelsInOrder, CallType, Numbered, None, Channel

LEMMA SameNumbers ==
  ASSUME NInv, UNCHANGED <<running, chan, closed, alive, watched>>
  PROVE  Numbered'
BY DEF NInv, Numbered

LEMMA CallNumbers ==
  ASSUME NInv, NEW c \in Caller, StartEngine(c) \/ StopEngine(c) \/ Continue(c)
  PROVE  Numbered'
<1>1. {"engine", "market", "feeder"} \subseteq Part
  BY DEF Part
<1>2. CASE StartEngine(c)
  BY <1>1, <1>2, OpenForkNumbers DEF StartEngine
<1>3. CASE StopEngine(c)
  BY <1>1, <1>3, CloseNumbers DEF StopEngine
<1>4. CASE StartMarket(c)
  BY <1>1, <1>4, OpenNumbers, SameNumbers DEF StartMarket
<1>5. CASE StartFeeder(c)
  BY <1>1, <1>5, OpenForkNumbers, SameNumbers DEF StartFeeder
<1>6. CASE StartProcessor(c)
  <2>1. /\ alive'["market"] = alive["market"] \cup {chan["market"]}
        /\ \A q \in Part \ {"market"} : alive'[q] = alive[q]
    BY <1>1, <1>6 DEF NInv, CInv, CallType, StartProcessor
  <2>. QED
    BY <1>1, <1>6, <2>1 DEF NInv, CInv, IInv, ChannelsInOrder, Numbered, StartProcessor
<1>7. CASE StopMarket(c)
  BY <1>1, <1>7, CloseNumbers, SameNumbers DEF StopMarket
<1>8. CASE StopFeeder(c)
  BY <1>1, <1>8, CloseNumbers, SameNumbers DEF StopFeeder
<1>9. CASE AwaitMarket(c) \/ ClearQuotes(c) \/ AwaitEngine(c)
  BY <1>9, SameNumbers DEF AwaitMarket, ClearQuotes, AwaitEngine
<1>. QED
  BY <1>2, <1>3, <1>4, <1>5, <1>6, <1>7, <1>8, <1>9 DEF Continue

\* The goroutine of a running part is not one that finds its channel closed.
LEMMA LastStays ==
  ASSUME NInv, NEW p \in Part, NEW g \in Channel, Return(p, g), running[p]
  PROVE  g # chan[p]
BY DEF NInv, CInv, IInv, ChannelsInOrder, OpenWhileRunning, Numbered, None, Channel, Return

LEMMA LoopNumbers ==
  ASSUME NInv, NEW p \in Part, NEW g \in Channel, Select(p, g) \/ Work(p, g) \/ Return(p, g)
  PROVE  Numbered'
<1>1. UNCHANGED <<running, chan, closed>> /\ \A q \in Part : alive'[q] \subseteq alive[q]
  BY DEF NInv, CInv, CallType, Select, Work, Return
<1>2. /\ watched'[p][g] = None \/ (g \in alive[p] /\ watched'[p][g] = chan[p])
      /\ \A q \in Part : \A h \in Channel : q # p \/ h # g => watched'[q][h] = watched[q][h]
      /\ watched' \in [Part -> [Channel -> Nat]]
  <2>1. watched \in [Part -> [Channel -> Nat]] /\ chan[p] \in Nat /\ None \in Nat
    BY DEF NInv, CInv, IInv, ChannelsInOrder, Numbered, None
  <2>2. CASE Select(p, g)
    BY <2>1, <2>2 DEF Select
  <2>3. CASE Work(p, g) \/ Return(p, g)
    BY <2>1, <2>3, SMTT(30) DEF Work, Return
  <2>. QED
    BY <2>2, <2>3
<1>3. ASSUME NEW q \in Part, NEW h \in Channel, watched'[q][h] # None
      PROVE  h <= watched'[q][h] /\ watched'[q][h] <= chan'[q]
  <2>1. CASE q = p /\ h = g
    <3>1. g <= chan[p] /\ chan[p] \in Nat /\ watched'[q][h] = chan[p] /\ chan' = chan
      BY <1>1, <1>2, <1>3, <2>1 DEF NInv, CInv, IInv, ChannelsInOrder, Numbered
    <3>. QED
      BY <2>1, <3>1
  <2>2. CASE q # p \/ h # g
    BY <1>1, <1>2, <1>3, <2>2 DEF NInv, Numbered
  <2>. QED
    BY <2>1, <2>2
<1>. QED
  BY <1>1, <1>2, <1>3 DEF NInv, Numbered

LEMMA StepKeepsNumbers == ASSUME NInv, [Next]_vars PROVE NInv'
<1>1. CASE UNCHANGED vars
  BY <1>1, StepKeepsCalls, SameNumbers DEF vars, NInv
<1>. QED
  BY <1>1, StepKeepsCalls, CallNumbers, LoopNumbers DEF NInv, Next

\* The parts that run while the only call is at a place.
Runs(here) ==
  CASE here = "startMarket" -> {"engine"}
    [] here = "startFeeder" -> {"engine", "market"}
    [] here = "startProcessor" -> Part
    [] here = "stopMarket" -> {"market", "feeder"}
    [] here = "stopFeeder" -> {"feeder"}
    [] OTHER -> {}

OneCall == \A c, d \in Caller : pc[c] # "idle" /\ pc[d] # "idle" => c = d

RunsInTurn ==
  /\ \A c \in Caller : pc[c] # "idle" => \A p \in Part : running[p] <=> p \in Runs(pc[c])
  /\ Returned => \A p \in Part : running[p] <=> running["engine"]

\* The engine's goroutine is that of its last start; a running part has its own, the
\* market from the end of its start on.
GoroutinesInTurn ==
  /\ \A g \in alive["engine"] : g = chan["engine"]
  /\ \A p \in Part : running[p] =>
       \/ chan[p] \in alive[p]
       \/ p = "market" /\ \E c \in Caller : pc[c] \in {"startFeeder", "startProcessor"}

TInv == NInv /\ (apart => OneCall /\ RunsInTurn /\ GoroutinesInTurn)

\* The call that has begun is the only one.
LEMMA OneCallKept ==
  ASSUME TInv, apart', NEW c \in Caller, StartEngine(c) \/ StopEngine(c) \/ Continue(c)
  PROVE  /\ apart /\ OneCall' /\ \A d \in Caller \ {c} : pc[d] = "idle" /\ pc'[d] = "idle"
         /\ StartEngine(c) \/ StopEngine(c) => Returned
<1>1. {"startMarket", "startFeeder", "startProcessor", "stopMarket", "stopFeeder", "awaitMarket",
       "clearQuotes", "awaitEngine"} \subseteq {"idle"} \cup Starting \cup Stopping
  BY DEF Starting, Stopping
<1>2. CallType
  BY DEF TInv, NInv, CInv
<1>3. CASE StartEngine(c) \/ StopEngine(c)
  <2>1. apart /\ Returned
    BY <1>3, Zenon DEF StartEngine, StopEngine, Begin, Returned
  <2>2. \A d \in Caller \ {c} : pc'[d] = pc[d]
    BY <1>1, <1>2, <1>3, PcEffect DEF StartEngine, StopEngine, Begin
  <2>. QED
    BY <2>1, <2>2 DEF Returned, OneCall
<1>4. CASE Continue(c)
  <2>1. apart' = apart /\ pc[c] # "idle" /\ \A d \in Caller \ {c} : pc'[d] = pc[d]
    BY <1>1, <1>2, <1>4, PcEffect DEF Continue, StartMarket, StartFeeder, StartProcessor,
         StopMarket, StopFeeder, AwaitMarket, ClearQuotes, AwaitEngine, At
  <2>2. apart
    BY <2>1, Zenon
  <2>3. ~ StartEngine(c) /\ ~ StopEngine(c)
    BY <2>1 DEF StartEngine, StopEngine, Begin
  <2>. QED
    BY <2>1, <2>2, <2>3 DEF TInv, OneCall
<1>. QED
  BY <1>3, <1>4

\* What the call that has begun finds, and what it leaves.
LEMMA CallInTurn ==
  ASSUME TInv, apart', NEW c \in Caller, StartEngine(c) \/ StopEngine(c) \/ Continue(c)
  PROVE  RunsInTurn' /\ GoroutinesInTurn'
<1>1. {"engine", "market", "feeder"} = Part
  BY DEF Part
<1>2. /\ CallType /\ IInv /\ ChannelsInOrder /\ LockHeld /\ StopGoesOn
      /\ RunsInTurn /\ GoroutinesInTurn /\ c \in Caller
      /\ \A d \in Caller \ {c} : pc[d] = "idle" /\ pc'[d] = "idle"
  BY OneCallKept DEF TInv, NInv, CInv, IInv
<1>3. CASE StartEngine(c)
  <2>1. Returned /\ pc'[c] = "startMarket"
    BY <1>2, <1>3, OneCallKept, PcEffect DEF StartEngine, Begin, Starting
  <2>2. ~ running["engine"] /\ ~ running["market"] /\ ~ running["feeder"] /\ alive["engine"] = {}
    BY <1>1, <1>2, <1>3, <2>1 DEF StartEngine, RunsInTurn, StopGoesOn, Returned, Stopping
  <2>3. running'["engine"] /\ ~ running'["market"] /\ ~ running'["feeder"]
    BY <1>1, <1>2, <1>3, <2>2, OpenEffect DEF StartEngine
  <2>4. alive'["engine"] = {chan'["engine"]}
    BY <1>1, <1>2, <1>3, <2>2 DEF StartEngine, CallType
  <2>. QED
    BY <1>1, <1>2, <2>1, <2>3, <2>4 DEF RunsInTurn, GoroutinesInTurn, Returned, Runs
<1>4. CASE StopEngine(c)
  <2>1. Returned /\ pc'[c] = "stopMarket"
    BY <1>2, <1>4, OneCallKept, PcEffect DEF StopEngine, Begin, Stopping
  <2>2. running["engine"] /\ running["market"] /\ running["feeder"]
    BY <1>1, <1>2, <1>4, <2>1 DEF StopEngine, RunsInTurn
  <2>3. ~ running'["engine"] /\ running'["market"] /\ running'["feeder"]
    BY <1>1, <1>2, <1>4, <2>2, CloseEffect DEF StopEngine
  <2>4. chan' = chan /\ alive' = alive
    BY <1>4 DEF StopEngine, Close
  <2>5. \A p \in {"market", "feeder"} : chan[p] \in alive[p]
    BY <1>1, <1>2, <2>1, <2>2 DEF GoroutinesInTurn, Returned
  <2>. QED
    BY <1>1, <1>2, <2>1, <2>3, <2>4, <2>5 DEF RunsInTurn, GoroutinesInTurn, Returned, Runs
<1>5. CASE StartMarket(c)
  <2>1. pc[c] = "startMarket" /\ running["engine"] /\ ~ running["market"] /\ ~ running["feeder"]
    BY <1>1, <1>2, <1>5 DEF StartMarket, At, RunsInTurn, Runs
  <2>2. pc'[c] = "startFeeder"
    BY <1>2, <1>5, <2>1, PcEffect DEF StartMarket, At, Starting
  <2>3. running'["engine"] /\ running'["market"] /\ ~ running'["feeder"]
        /\ chan'["engine"] = chan["engine"] /\ alive' = alive
    BY <1>1, <1>2, <1>5, <2>1, OpenEffect DEF StartMarket
  <2>4. chan["engine"] \in alive["engine"]
    BY <1>1, <1>2, <2>1 DEF GoroutinesInTurn
  <2>. QED
    BY <1>1, <1>2, <2>2, <2>3, <2>4 DEF RunsInTurn, GoroutinesInTurn, Returned, Runs
<1>6. CASE StartFeeder(c)
  <2>1. pc[c] = "startFeeder" /\ running["engine"] /\ running["market"] /\ ~ running["feeder"]
    BY <1>1, <1>2, <1>6 DEF StartFeeder, At, RunsInTurn, Runs
  <2>2. pc'[c] = "startProcessor"
    BY <1>2, <1>6, <2>1, PcEffect DEF StartFeeder, At, Starting
  <2>3. running'["engine"] /\ running'["market"] /\ running'["feeder"]
        /\ chan'["engine"] = chan["engine"]
    BY <1>1, <1>2, <1>6, <2>1, OpenEffect DEF StartFeeder
  <2>4. alive'["engine"] = alive["engine"] /\ chan'["feeder"] \in alive'["feeder"]
    BY <1>1, <1>2, <1>6, <2>1 DEF StartFeeder, CallType
  <2>5. chan["engine"] \in alive["engine"]
    BY <1>1, <1>2, <2>1 DEF GoroutinesInTurn
  <2>. QED
    BY <1>1, <1>2, <2>2, <2>3, <2>4, <2>5 DEF RunsInTurn, GoroutinesInTurn, Returned, Runs
<1>7. CASE StartProcessor(c)
  <2>1. pc[c] = "startProcessor" /\ running["engine"] /\ running["market"] /\ running["feeder"]
    BY <1>1, <1>2, <1>7 DEF StartProcessor, At, RunsInTurn, Runs
  <2>2. pc'[c] = "idle" /\ running' = running /\ chan' = chan
    BY <1>2, <1>7, <2>1, PcEffect DEF StartProcessor, At
  <2>3. /\ alive'["engine"] = alive["engine"] /\ alive'["feeder"] = alive["feeder"]
        /\ chan'["market"] \in alive'["market"]
    BY <1>1, <1>2, <1>7 DEF StartProcessor, CallType
  <2>4. chan["engine"] \in alive["engine"] /\ chan["feeder"] \in alive["feeder"]
    BY <1>1, <1>2, <2>1 DEF GoroutinesInTurn
  <2>. QED
    BY <1>1, <1>2, <2>1, <2>2, <2>3, <2>4 DEF RunsInTurn, GoroutinesInTurn, Returned, Runs
<1>8. CASE StopMarket(c)
  <2>1. pc[c] = "stopMarket" /\ ~ running["engine"] /\ running["market"] /\ running["feeder"]
    BY <1>1, <1>2, <1>8 DEF StopMarket, At, RunsInTurn, Runs
  <2>2. pc'[c] = "stopFeeder"
    BY <1>2, <1>8, <2>1, PcEffect DEF StopMarket, At, Stopping
  <2>3. ~ running'["engine"] /\ ~ running'["market"] /\ running'["feeder"] /\ chan' = chan
    BY <1>1, <1>2, <1>8, <2>1, CloseEffect DEF StopMarket
  <2>4. alive' = alive /\ chan["feeder"] \in alive["feeder"]
    BY <1>1, <1>2, <1>8, <2>1 DEF StopMarket, GoroutinesInTurn
  <2>. QED
    BY <1>1, <1>2, <2>2, <2>3, <2>4 DEF RunsInTurn, GoroutinesInTurn, Returned, Runs
<1>9. CASE StopFeeder(c)
  <2>1. pc[c] = "stopFeeder" /\ ~ running["engine"] /\ ~ running["market"] /\ running["feeder"]
    BY <1>1, <1>2, <1>9 DEF StopFeeder, At, RunsInTurn, Runs
  <2>2. pc'[c] = "awaitMarket"
    BY <1>2, <1>9, <2>1, PcEffect DEF StopFeeder, At, Stopping
  <2>3. ~ running'["engine"] /\ ~ running'["market"] /\ ~ running'["feeder"] /\ chan' = chan
    BY <1>1, <1>2, <1>9, <2>1, CloseEffect DEF StopFeeder
  <2>4. alive' = alive
    BY <1>9 DEF StopFeeder
  <2>. QED
    BY <1>1, <1>2, <2>2, <2>3, <2>4 DEF RunsInTurn, GoroutinesInTurn, Returned, Runs
<1>10. CASE AwaitMarket(c) \/ ClearQuotes(c) \/ AwaitEngine(c)
  <2>1. pc[c] \in {"awaitMarket", "clearQuotes", "awaitEngine"} /\ UNCHANGED <<running, chan, alive>>
    BY <1>10 DEF AwaitMarket, ClearQuotes, AwaitEngine, At
  <2>2. ~ running["engine"] /\ ~ running["market"] /\ ~ running["feeder"]
    BY <1>1, <1>2, <2>1 DEF RunsInTurn, Runs
  <2>3. pc'[c] \in {"clearQuotes", "awaitEngine", "idle"}
    BY <1>2, <1>10, PcEffect DEF AwaitMarket, ClearQuotes, AwaitEngine, At, Stopping
  <2>. QED
    BY <1>1, <1>2, <2>1, <2>2, <2>3 DEF RunsInTurn, GoroutinesInTurn, Returned, Runs
<1>. QED
  BY <1>3, <1>4, <1>5, <1>6, <1>7, <1>8, <1>9, <1>10 DEF Continue

LEMMA LoopInTurn ==
  ASSUME TInv, apart', NEW p \in Part, NEW g \in Channel, Select(p, g) \/ Work(p, g) \/ Return(p, g)
  PROVE  OneCall' /\ RunsInTurn' /\ GoroutinesInTurn'
<1>1. UNCHANGED <<running, chan, closed, pc, apart>>
  BY DEF Select, Work, Return
<1>2. apart
  BY <1>1, Zenon
<1>3. /\ \A q \in Part : alive'[q] \subseteq alive[q]
      /\ \A q \in Part : running[q] /\ chan[q] \in alive[q] => chan[q] \in alive'[q]
  BY LastStays DEF TInv, NInv, CInv, CallType, Select, Work, Return
<1>4. "engine" \in Part
  BY DEF Part
<1>5. OneCall' /\ RunsInTurn'
  BY <1>1, <1>2 DEF TInv, OneCall, RunsInTurn, Returned
<1>6. GoroutinesInTurn'
  BY <1>1, <1>2, <1>3, <1>4 DEF TInv, GoroutinesInTurn
<1>. QED
  BY <1>5, <1>6

LEMMA StepKeepsTurns == ASSUME TInv, [Next]_vars PROVE TInv'
<1>1. NInv'
  BY StepKeepsNumbers DEF TInv
<1>2. CASE UNCHANGED vars
  BY <1>1, <1>2 DEF vars, TInv, OneCall, RunsInTurn, GoroutinesInTurn, Returned
<1>. QED
  BY <1>1, <1>2, OneCallKept, CallInTurn, LoopInTurn DEF TInv, Next

LEMMA InitTurns == ASSUME Init PROVE TInv
<1>1. NInv
  BY InitCalls DEF Init, NInv, Numbered, None, Channel
<1>2. OneCall /\ RunsInTurn /\ GoroutinesInTurn
  BY DEF Init, OneCall, RunsInTurn, GoroutinesInTurn, Part
<1>. QED
  BY <1>1, <1>2 DEF TInv

\* Calls one after another, however many: a start waits for the dispatcher before it,
\* so that strategies never see ticks from two.
THEOREM DispatchersInTurn == Spec => []OneDispatcherInTurn
<1>1. TInv => OneDispatcherInTurn
  <2>. SUFFICES ASSUME TInv, apart PROVE OneDispatcher
    BY DEF OneDispatcherInTurn
  <2>1. alive["engine"] = {} \/ alive["engine"] = {chan["engine"]}
    BY DEF TInv, GoroutinesInTurn
  <2>2. Cardinality({}) = 0 /\ Cardinality({chan["engine"]}) = 1
    BY FS_EmptySet, FS_Singleton
  <2>. QED
    BY <2>1, <2>2 DEF OneDispatcher
<1>. QED
  BY <1>1, InitTurns, StepKeepsTurns, PTL DEF Spec

\* Calls one after another, however many: between them the engine, the market and the
\* feeder all run, each with the goroutine of its last start, or none does.
THEOREM PartsRunTogether == Spec => []RunTogether
<1>1. TInv => RunTogether
  <2>. SUFFICES ASSUME TInv, apart, Quiet, NEW p \in Part
                PROVE  running[p] = running["engine"] /\ (running[p] => chan[p] \in alive[p])
    BY DEF RunTogether
  <2>1. \A c \in Caller : pc[c] \in {"idle", "awaitEngine"}
    BY DEF Quiet
  <2>2. running[p] => chan[p] \in alive[p]
    BY <2>1 DEF TInv, GoroutinesInTurn
  <2>3. running[p] <=> running["engine"]
    BY <2>1 DEF TInv, RunsInTurn, Returned, Runs, Part
  <2>4. running \in [Part -> BOOLEAN] /\ "engine" \in Part
    BY DEF TInv, NInv, CInv, IInv, ChannelsInOrder, Part
  <2>. QED
    BY <2>2, <2>3, <2>4, Zenon
<1>. QED
  BY <1>1, InitTurns, StepKeepsTurns, PTL DEF Spec

-----------------------------------------------------------------------------
(***************************************************************************)
(* The end of the program.                                                 *)
(***************************************************************************)

ProgramType == step \in 1..7 /\ serving \in SUBSET Handler /\ timedOut \in BOOLEAN

\* Who is in a call of Start or Stop: a handler in a request, or main at its place.
CallersKnown ==
  /\ \A h \in Handler : pc[h] # "idle" => h \in serving
  /\ pc[main] # "idle" => step \in {2, 7}

\* Requests are served from the start of the server to its end.
ServedInTime == step \notin {3, 4} /\ ~ timedOut => serving = {}

\* Main's stop is the last call: the engine does not run after it.
StoppedLast == step = 7 /\ ~ timedOut => ~ running["engine"]

EInv == CInv /\ ProgramType /\ CallersKnown /\ ServedInTime /\ StoppedLast

LEMMA ProgramSteps ==
  ASSUME ProgramType
  PROVE  /\ (Here = "start") = (step = 1)
         /\ (Here = "listen") = (step = 2)
         /\ (Here = "run") = (step = 3)
         /\ (Here = "drain") = (step = 4)
         /\ (Here = "hub") = (step = 5)
         /\ (Here = "stop") = (step = 6)
         /\ (Here = "exit") = (step = 7)
         /\ GoTo("stop") => step' = 6
<1>1. DOMAIN Program = 1..7 /\ \A i \in 1..7 : Program[i] = "stop" <=> i = 6
  BY DEF Program
<1>2. (CHOOSE i \in DOMAIN Program : Program[i] = "stop") = 6
  BY <1>1
<1>3. GoTo("stop") => step' = 6
  BY <1>2, Zenon DEF GoTo
<1>. QED
  BY <1>3 DEF ProgramType, Here, Program

\* Every step of the program is a step of Lifecycle.
LEMMA ProgramStepIsNext == ASSUME [ProgramNext]_programVars PROVE [Next]_vars
<1>1. main \in Caller /\ Handler \subseteq Caller
  BY ShutdownAssumption
<1>2. CASE UNCHANGED programVars
  BY <1>2 DEF programVars
<1>3. CASE Main
  BY <1>3, <1>1 DEF Main, MainStarts, Listen, ListenFails, Signal, Drain, DrainTimeout, StopHub,
                    MainStops, Next
<1>4. CASE \E h \in Handler : Arrive(h) \/ HandlerCalls(h) \/ Answer(h)
  BY <1>4, <1>1 DEF Arrive, HandlerCalls, Answer, Next
<1>5. CASE \E c \in Caller : GoesOn(c)
  BY <1>5 DEF GoesOn, Next
<1>6. CASE \E p \in Part, g \in Channel : Loop(p, g)
  BY <1>6 DEF Loop, Next
<1>. QED
  BY <1>2, <1>3, <1>4, <1>5, <1>6 DEF ProgramNext

\* The engine's flag and the places of others change only as a call begins.
LEMMA CallEffect ==
  ASSUME CInv, NEW c \in Caller, StartEngine(c) \/ StopEngine(c)
  PROVE  /\ \A d \in Caller \ {c} : pc'[d] = pc[d]
         /\ StopEngine(c) => ~ running'["engine"]
<1>1. {"startMarket", "stopMarket"} \subseteq {"idle"} \cup Starting \cup Stopping /\ "engine" \in Part
  BY DEF Starting, Stopping, Part
<1>2. \A d \in Caller \ {c} : pc'[d] = pc[d]
  BY <1>1, PcEffect DEF CInv, StartEngine, StopEngine, Begin
<1>. QED
  BY <1>1, <1>2, CloseEffect DEF CInv, IInv, StopEngine

\* A call that goes on is one that had begun, and never starts the engine again.
LEMMA ContinueEffect ==
  ASSUME CInv, NEW c \in Caller, Continue(c)
  PROVE  /\ pc[c] # "idle" /\ \A d \in Caller \ {c} : pc'[d] = pc[d]
         /\ running'["engine"] = running["engine"]
<1>1. /\ {"startFeeder", "startProcessor", "stopFeeder", "awaitMarket", "clearQuotes", "awaitEngine"}
           \subseteq {"idle"} \cup Starting \cup Stopping
      /\ {"market", "feeder", "engine"} \subseteq Part
  BY DEF Starting, Stopping, Part
<1>2. pc[c] # "idle" /\ \A d \in Caller \ {c} : pc'[d] = pc[d]
  BY <1>1, PcEffect DEF CInv, Continue, StartMarket, StartFeeder, StartProcessor, StopMarket,
                        StopFeeder, AwaitMarket, ClearQuotes, AwaitEngine, At
<1>3. \/ \E p \in {"market", "feeder"} : Open(p) \/ Close(p)
      \/ UNCHANGED <<running, chan, closed>>
  BY Zenon DEF Continue, StartMarket, StartFeeder, StartProcessor, StopMarket, StopFeeder,
               AwaitMarket, ClearQuotes, AwaitEngine
<1>4. running'["engine"] = running["engine"]
  BY <1>1, <1>3, OpenEffect, CloseEffect DEF CInv, IInv
<1>. QED
  BY <1>2, <1>4

LEMMA MainKeepsEnd == ASSUME EInv, Main PROVE EInv'
<1>1. CInv' /\ main \in Caller /\ main \notin Handler /\ Handler \subseteq Caller
  BY ProgramStepIsNext, StepKeepsCalls, ShutdownAssumption DEF ProgramNext, EInv
<1>2. CASE MainStarts
  <2>1. step = 1 /\ step' = 2 /\ UNCHANGED <<serving, timedOut>>
    BY <1>2, ProgramSteps DEF MainStarts, GoOn, EInv, ProgramType
  <2>2. \A h \in Handler : pc'[h] = pc[h]
    BY <1>1, <1>2, CallEffect DEF MainStarts, EInv
  <2>. QED
    BY <1>1, <2>1, <2>2 DEF EInv, ProgramType, CallersKnown, ServedInTime, StoppedLast
<1>3. CASE Listen \/ ListenFails \/ Signal \/ Drain \/ DrainTimeout \/ StopHub
  <2>1. UNCHANGED vars
    BY <1>3 DEF Listen, ListenFails, Signal, Drain, DrainTimeout, StopHub
  <2>2. serving' = serving /\ timedOut' \in BOOLEAN
    BY <1>3 DEF Listen, ListenFails, Signal, Drain, DrainTimeout, StopHub, EInv, ProgramType
  <2>3. /\ Listen => step = 2 /\ step' = 3
        /\ Signal => step = 3 /\ step' = 4
        /\ Drain => step = 4 /\ step' = 5
        /\ StopHub => step = 5 /\ step' = 6
    BY ProgramSteps DEF Listen, Signal, Drain, StopHub, GoOn, EInv
  <2>4. /\ ListenFails => step = 2 /\ step' = 6
        /\ DrainTimeout => step = 4 /\ step' = 6
    BY ProgramSteps DEF ListenFails, DrainTimeout, EInv
  <2>5. step \in 2..5 /\ step' \in 3..6
    BY <1>3, <2>3, <2>4
  <2>6. pc[main] = "idle"
    BY <1>3, <2>3, <2>4 DEF Listen, ListenFails, EInv, CallersKnown
  <2>7. ServedInTime'
    <3>1. CASE DrainTimeout
      BY <3>1, Zenon DEF DrainTimeout, ServedInTime
    <3>2. CASE ~ DrainTimeout
      <4>1. timedOut' = timedOut
        BY <1>3, <3>2 DEF Listen, ListenFails, Signal, Drain, StopHub
      <4>2. step' \in {3, 4} \/ serving = {} \/ step \notin {3, 4}
        BY <1>3, <2>3, <2>4, <3>2 DEF Drain
      <4>. QED
        BY <2>2, <4>1, <4>2 DEF EInv, ServedInTime
    <3>. QED
      BY <3>1, <3>2
  <2>. QED
    BY <1>1, <2>1, <2>2, <2>5, <2>6, <2>7 DEF vars, EInv, ProgramType, CallersKnown, StoppedLast
<1>4. CASE MainStops
  <2>1. step = 6 /\ step' = 7 /\ UNCHANGED <<serving, timedOut>>
    BY <1>4, ProgramSteps DEF MainStops, Here, GoOn, EInv, ProgramType
  <2>2. ~ running'["engine"] /\ \A h \in Handler : pc'[h] = pc[h]
    BY <1>1, <1>4, CallEffect DEF MainStops, vars, EInv
  <2>. QED
    BY <1>1, <2>1, <2>2 DEF EInv, ProgramType, CallersKnown, ServedInTime, StoppedLast
<1>. QED
  BY <1>2, <1>3, <1>4 DEF Main

LEMMA HandlerKeepsEnd ==
  ASSUME EInv, NEW h \in Handler, Arrive(h) \/ HandlerCalls(h) \/ Answer(h)
  PROVE  EInv'
<1>1. CInv' /\ main \in Caller /\ main \notin Handler /\ Handler \subseteq Caller
  BY ProgramStepIsNext, StepKeepsCalls, ShutdownAssumption DEF ProgramNext, EInv
<1>2. CASE Arrive(h) \/ Answer(h)
  BY <1>1, <1>2, ProgramSteps DEF Arrive, Answer, Here, vars, EInv, ProgramType, CallersKnown,
                                  ServedInTime, StoppedLast
<1>3. CASE HandlerCalls(h)
  BY <1>1, <1>3, CallEffect DEF HandlerCalls, mainVars, EInv, ProgramType, CallersKnown,
                                ServedInTime, StoppedLast
<1>. QED
  BY <1>2, <1>3

LEMMA StepKeepsEnd == ASSUME EInv, [ProgramNext]_programVars PROVE EInv'
<1>1. CInv' /\ main \in Caller /\ main \notin Handler /\ Caller = Handler \cup {main}
  BY ProgramStepIsNext, StepKeepsCalls, ShutdownAssumption DEF EInv
<1>2. CASE UNCHANGED programVars
  BY <1>1, <1>2 DEF programVars, mainVars, vars, EInv, ProgramType, CallersKnown, ServedInTime, StoppedLast
<1>3. ASSUME NEW c \in Caller, GoesOn(c) PROVE EInv'
  BY <1>1, <1>3, ContinueEffect DEF GoesOn, mainVars, EInv, ProgramType, CallersKnown,
                                    ServedInTime, StoppedLast
<1>4. ASSUME NEW p \in Part, NEW g \in Channel, Loop(p, g) PROVE EInv'
  BY <1>1, <1>4 DEF Loop, Select, Work, Return, mainVars, EInv, ProgramType, CallersKnown,
                    ServedInTime, StoppedLast
<1>. QED
  BY <1>2, <1>3, <1>4, MainKeepsEnd, HandlerKeepsEnd DEF ProgramNext

\* However the requests before the signal overlapped, and however many there were: when
\* the program exits neither the engine nor the market runs and no dispatcher is left.
THEOREM ExitsStopped == ProgramSpec => []StoppedAtExit
<1>1. ProgramInit => EInv
  <2>. SUFFICES ASSUME ProgramInit PROVE EInv
    OBVIOUS
  <2>1. CInv /\ \A c \in Caller : pc[c] = "idle"
    BY InitCalls DEF ProgramInit, Init
  <2>2. timedOut \in BOOLEAN
    BY Zenon DEF ProgramInit
  <2>. QED
    BY <2>1, <2>2, ShutdownAssumption DEF ProgramInit, EInv, ProgramType, CallersKnown, ServedInTime, StoppedLast
<1>2. EInv => StoppedAtExit
  <2>. SUFFICES ASSUME EInv, Exited, ~ timedOut
                PROVE  ~ running["engine"] /\ ~ running["market"] /\ alive["engine"] = {}
    BY DEF StoppedAtExit
  <2>1. step = 7
    BY ProgramSteps DEF Exited, Here, EInv, ProgramType
  <2>2. ~ running["engine"] /\ \A c \in Caller : pc[c] = "idle"
    BY <2>1, ShutdownAssumption DEF Exited, EInv, CallersKnown, ServedInTime, StoppedLast
  <2>. QED
    BY <2>2 DEF EInv, CInv, StopGoesOn, Stopping
<1>. QED
  BY <1>1, <1>2, StepKeepsEnd, PTL DEF ProgramSpec

-----------------------------------------------------------------------------
(***************************************************************************)
(* The pipeline: its goroutines are those of Lifecycle, and ticks keep     *)
(* their order all the way from feedLoop to dispatchLoop.                  *)
(***************************************************************************)

LifeType ==
  /\ running \in [Part -> BOOLEAN]
  /\ chan \in [Part -> Nat]
  /\ closed \in [Part -> SUBSET Nat]
  /\ alive \in [Part -> SUBSET Nat]
  /\ watched \in [Part -> [Channel -> Nat]]
  /\ \A p \in Part : None \notin closed[p] /\ (running[p] => chan[p] # None)

TickType ==
  /\ made \in Nat /\ seen \in Nat /\ quoted \in Nat
  /\ feedChan \in Seq(Nat) /\ outChan \in Seq(Nat)
  /\ hand \in [Stage -> [Channel -> Nat]]

\* The part whose goroutine has a tick in its hands at a stage.
Owner(s) == CASE s = "fed" -> "feeder" [] s = "dispatched" -> "engine" [] OTHER -> "market"

\* Who has a tick in its hands is there, and not at its select.
HandsHeld ==
  \A s \in Stage, g \in Channel :
    hand[s][g] # None => g \in alive[Owner(s)] /\ watched[Owner(s)][g] = None

MarketHand == \A g \in Channel : hand["taken"][g] = None \/ hand["requoted"][g] = None

Alone == \A p \in Part : \A g, h \in alive[p] : g = h

Held(f) == {f[g] : g \in Channel} \ {None}
Queued(q) == {q[i] : i \in 1..Len(q)}

\* The places of the ticks, against the way they take.
Place == [k \in 1..8 |->
  CASE k = 1 -> {seen}
    [] k = 2 -> Held(hand["dispatched"])
    [] k = 3 -> Queued(outChan)
    [] k = 4 -> Held(hand["requoted"])
    [] k = 5 -> Held(hand["taken"])
    [] k = 6 -> Queued(feedChan)
    [] k = 7 -> Held(hand["fed"])
    [] k = 8 -> {made}]

Ordered(P) == \A j, k \in 1..8 : j < k => \A t \in P[j], u \in P[k] : t <= u
Sorted(q) == \A i, j \in 1..Len(q) : i <= j => q[i] <= q[j]

\* The book is quoted at a tick no earlier than those that have passed tickProcessor.
QuotedAhead == quoted # None => \A k \in 1..4 : \A t \in Place[k] : t <= quoted

TickOrder == Ordered(Place) /\ Sorted(feedChan) /\ Sorted(outChan) /\ QuotedAhead

Hands == HandsHeld /\ MarketHand

PInv ==
  /\ LifeType /\ TickType /\ Hands
  /\ lone \in BOOLEAN
  /\ lone => Alone /\ TickOrder

-----------------------------------------------------------------------------
(***************************************************************************)
(* Every step is a step of Lifecycle or leaves its variables alone.        *)
(***************************************************************************)

LEMMA CallIsNext == ASSUME NEW c \in Caller, Call(c) PROVE Next
BY Zenon DEF Call, Next, Continue

LEMMA WithdrawIsNext == ASSUME NEW c \in Caller, Withdraw(c) PROVE Next
BY Zenon DEF Withdraw, Next, Continue

LEMMA TickStepIsNext == ASSUME NEW g \in Channel, TickStep(g) PROVE Next \/ UNCHANGED vars
<1>1. CASE Generate(g) \/ TakeTick(g) \/ Dispatch(g)
  BY <1>1, Zenon DEF Generate, TakeTick, Dispatch, Next, Part
<1>2. CASE Offer(g) \/ Requote(g) \/ Relay(g) \/ Processed(g)
  BY <1>2, Zenon DEF Offer, Requote, Relay, Processed
<1>. QED
  BY <1>1, <1>2 DEF TickStep

LEMMA StepIsLifecycle == [PipelineNext]_pipelineVars => [Next]_vars
<1>. SUFFICES ASSUME [PipelineNext]_pipelineVars PROVE [Next]_vars
  OBVIOUS
<1>1. CASE \E c \in Caller : Call(c) \/ Withdraw(c)
  BY <1>1, CallIsNext, WithdrawIsNext
<1>2. CASE \E g \in Channel : TickStep(g)
  BY <1>2, TickStepIsNext
<1>3. CASE \E p \in Part, g \in Channel : SelectNext(p, g) \/ Leave(p, g)
  BY <1>3, Zenon DEF SelectNext, Leave, Next
<1>4. CASE UNCHANGED pipelineVars
  BY <1>4 DEF pipelineVars
<1>. QED
  BY <1>1, <1>2, <1>3, <1>4 DEF PipelineNext

\* The goroutines and calls of the pipeline are those of Lifecycle: what is proved of
\* it holds here.
THEOREM PipelineUsesLifecycle == PipelineSpec => Init /\ [][Next]_vars
<1>1. PipelineInit => Init
  BY DEF PipelineInit
<1>. QED
  BY <1>1, StepIsLifecycle, PTL DEF PipelineSpec

-----------------------------------------------------------------------------
(***************************************************************************)
(* The goroutines.                                                         *)
(***************************************************************************)

LEMMA OpenTyped ==
  ASSUME LifeType, NEW p \in Part, Open(p)
  PROVE  /\ running' \in [Part -> BOOLEAN] /\ chan' \in [Part -> Nat] /\ closed' \in [Part -> SUBSET Nat]
         /\ \A q \in Part : None \notin closed'[q] /\ (running'[q] => chan'[q] # None)
<1>1. chan' \in [Part -> Nat] /\ \A q \in Part : chan[q] # None => chan'[q] # None
  BY DEF LifeType, Open, None
<1>2. chan'[p] # None
  BY DEF LifeType, Open, None
<1>3. running' \in [Part -> BOOLEAN] /\ \A q \in Part \ {p} : running'[q] = running[q]
  BY Zenon DEF LifeType, Open
<1>. QED
  BY <1>1, <1>2, <1>3, Zenon DEF LifeType, Open

LEMMA CloseTyped ==
  ASSUME LifeType, NEW p \in Part, running[p], Close(p)
  PROVE  /\ running' \in [Part -> BOOLEAN] /\ chan' \in [Part -> Nat] /\ closed' \in [Part -> SUBSET Nat]
         /\ \A q \in Part : None \notin closed'[q] /\ (running'[q] => chan'[q] # None)
<1>1. running' \in [Part -> BOOLEAN] /\ \A q \in Part : running'[q] => running[q]
  BY Zenon DEF LifeType, Close
<1>2. chan' = chan
  BY DEF Close
<1>3. closed' \in [Part -> SUBSET Nat] /\ \A q \in Part : None \notin closed'[q]
  BY DEF LifeType, Close, None
<1>. QED
  BY <1>1, <1>2, <1>3, Zenon DEF LifeType

\* A step of Lifecycle keeps the types of its variables.
LEMMA LifeKeeps == ASSUME LifeType, [Next]_vars PROVE LifeType'
<1>. DEFINE Flags == /\ running' \in [Part -> BOOLEAN] /\ chan' \in [Part -> Nat]
                     /\ closed' \in [Part -> SUBSET Nat]
                     /\ \A q \in Part : None \notin closed'[q] /\ (running'[q] => chan'[q] # None)
            Loops == alive' \in [Part -> SUBSET Nat] /\ watched' \in [Part -> [Channel -> Nat]]
<1>. SUFFICES Flags /\ Loops
  BY Zenon DEF LifeType
<1>1. ASSUME NEW c \in Caller, StartEngine(c) \/ StopEngine(c) \/ Continue(c) PROVE Flags /\ Loops
  <2>1. Flags
    <3>1. \/ \E p \in Part : Open(p) \/ (running[p] /\ Close(p))
          \/ UNCHANGED <<running, chan, closed>>
      BY <1>1, Zenon DEF Continue, StartEngine, StopEngine, StartMarket, StartFeeder, StartProcessor,
        StopMarket, StopFeeder, AwaitMarket, ClearQuotes, AwaitEngine, Part
    <3>2. CASE UNCHANGED <<running, chan, closed>>
      BY <3>2, Zenon DEF LifeType
    <3>. QED
      BY <3>1, <3>2, OpenTyped, CloseTyped
  <2>2. Loops
    <3>1. watched' = watched
      BY <1>1, Zenon DEF Continue, StartEngine, StopEngine, StartMarket, StartFeeder, StartProcessor,
        StopMarket, StopFeeder, AwaitMarket, ClearQuotes, AwaitEngine
    <3>2. \/ alive' = alive
          \/ \E p \in Part : alive' = [alive EXCEPT ![p] = @ \cup {chan'[p]}]
          \/ \E p \in Part : alive' = [alive EXCEPT ![p] = @ \cup {chan[p]}]
      BY <1>1, Zenon DEF Continue, StartEngine, StopEngine, StartMarket, StartFeeder, StartProcessor,
        StopMarket, StopFeeder, AwaitMarket, ClearQuotes, AwaitEngine, Part
    <3>. QED
      BY <3>1, <3>2, <2>1 DEF LifeType
  <2>. QED
    BY <2>1, <2>2
<1>2. ASSUME NEW p \in Part, NEW g \in Channel, Select(p, g) \/ Work(p, g) \/ Return(p, g)
      PROVE  Flags /\ Loops
  <2>1. Flags
    BY <1>2, Zenon DEF Select, Work, Return, LifeType
  <2>2. alive' \in [Part -> SUBSET Nat]
    BY <1>2 DEF Select, Work, Return, LifeType
  <2>3. watched' \in [Part -> [Channel -> Nat]]
    <3>1. PICK n \in Nat : watched' = [watched EXCEPT ![p][g] = n]
      <4>1. chan[p] \in Nat /\ None \in Nat
        BY DEF LifeType, None
      <4>. QED
        BY <1>2, <4>1, Zenon DEF Select, Work, Return
    <3>2. watched[p] \in [Channel -> Nat]
      BY DEF LifeType
    <3>3. [watched[p] EXCEPT ![g] = n] \in [Channel -> Nat]
      BY <3>2
    <3>4. watched' = [watched EXCEPT ![p] = [watched[p] EXCEPT ![g] = n]]
      BY <3>1
    <3>. QED
      BY <3>3, <3>4 DEF LifeType
  <2>. QED
    BY <2>1, <2>2, <2>3
<1>3. CASE UNCHANGED vars
  BY <1>3, Zenon DEF LifeType, vars
<1>. QED
  BY <1>1, <1>2, <1>3 DEF Next

-----------------------------------------------------------------------------
(***************************************************************************)
(* Hands and queues.                                                       *)
(***************************************************************************)

Takes(s, g, x) == hand' = [hand EXCEPT ![s][g] = x]

LEMMA SetHand ==
  ASSUME TickType, NEW s \in Stage, NEW g \in Channel, NEW x \in Nat, Takes(s, g, x)
  PROVE  /\ hand' \in [Stage -> [Channel -> Nat]]
         /\ hand'[s][g] = x
         /\ \A r \in Stage, h \in Channel : r # s \/ h # g => hand'[r][h] = hand[r][h]
<1>1. hand[s] \in [Channel -> Nat]
  BY DEF TickType
<1>2. hand' = [hand EXCEPT ![s] = [hand[s] EXCEPT ![g] = x]]
  BY DEF Takes
<1>3. [hand[s] EXCEPT ![g] = x] \in [Channel -> Nat]
  BY <1>1
<1>. QED
  BY <1>1, <1>2, <1>3 DEF TickType

LEMMA PassHand ==
  ASSUME TickType, NEW s \in Stage, NEW r \in Stage, s # r, NEW g \in Channel, Pass(s, r, g)
  PROVE  /\ hand' \in [Stage -> [Channel -> Nat]]
         /\ hand'[r][g] = hand[s][g] /\ hand'[s][g] = None
         /\ \A u \in Stage, h \in Channel : u \notin {s, r} \/ h # g => hand'[u][h] = hand[u][h]
<1>1. hand[s] \in [Channel -> Nat] /\ hand[r] \in [Channel -> Nat] /\ hand[s][g] \in Nat
  BY DEF TickType
<1>2. hand' = [[hand EXCEPT ![r] = [hand[r] EXCEPT ![g] = hand[s][g]]]
                    EXCEPT ![s] = [hand[s] EXCEPT ![g] = None]]
  BY DEF Pass, TickType
<1>3. /\ [hand[r] EXCEPT ![g] = hand[s][g]] \in [Channel -> Nat]
      /\ [hand[s] EXCEPT ![g] = None] \in [Channel -> Nat]
  BY <1>1 DEF None
<1>. QED
  BY <1>1, <1>2, <1>3 DEF TickType

LEMMA Dequeued ==
  ASSUME NEW q \in Seq(Nat), q # <<>>
  PROVE  /\ Head(q) \in Nat /\ Tail(q) \in Seq(Nat)
         /\ Head(q) \in Queued(q) /\ Queued(Tail(q)) \subseteq Queued(q)
         /\ Sorted(q) => Sorted(Tail(q)) /\ \A t \in Queued(Tail(q)) : Head(q) <= t
<1>1. /\ Len(q) \in Nat \ {0} /\ Head(q) = q[1] /\ Head(q) \in Nat
      /\ Tail(q) \in Seq(Nat) /\ Len(Tail(q)) = Len(q) - 1
      /\ \A i \in 1..Len(Tail(q)) : Tail(q)[i] = q[i + 1]
  BY HeadTailProperties, EmptySeq, LenProperties
<1>2. \A i \in 1..Len(Tail(q)) : i + 1 \in 1..Len(q)
  BY <1>1
<1>3. Head(q) \in Queued(q)
  BY <1>1 DEF Queued
<1>4. Queued(Tail(q)) \subseteq Queued(q)
  BY <1>1, <1>2 DEF Queued
<1>5. ASSUME Sorted(q) PROVE Sorted(Tail(q)) /\ \A t \in Queued(Tail(q)) : Head(q) <= t
  BY <1>1, <1>2, <1>5 DEF Queued, Sorted
<1>. QED
  BY <1>1, <1>3, <1>4, <1>5

LEMMA Enqueued ==
  ASSUME NEW q \in Seq(Nat), NEW cap, NEW x \in Nat
  PROVE  /\ Offered(q, cap, x) \in Seq(Nat)
         /\ Queued(Offered(q, cap, x)) \subseteq Queued(q) \cup {x}
         /\ Sorted(q) /\ (\A t \in Queued(q) : t <= x) => Sorted(Offered(q, cap, x))
<1>1. CASE Offered(q, cap, x) = q
  BY <1>1
<1>2. CASE Offered(q, cap, x) = Append(q, x)
  <2>1. /\ Append(q, x) \in Seq(Nat) /\ Len(Append(q, x)) = Len(q) + 1 /\ Len(q) \in Nat
        /\ \A i \in 1..Len(q) : Append(q, x)[i] = q[i]
        /\ Append(q, x)[Len(q) + 1] = x
    BY AppendProperties, LenProperties
  <2>2. Queued(Append(q, x)) \subseteq Queued(q) \cup {x}
    BY <2>1 DEF Queued
  <2>3. ASSUME Sorted(q), \A t \in Queued(q) : t <= x PROVE Sorted(Append(q, x))
    <3>1. \A i \in 1..Len(q) : q[i] <= x
      BY <2>3 DEF Queued
    <3>. QED
      BY <2>1, <2>3, <3>1 DEF Sorted
  <2>. QED
    BY <1>2, <2>1, <2>2, <2>3
<1>. QED
  BY <1>1, <1>2 DEF Offered

-----------------------------------------------------------------------------
(***************************************************************************)
(* The places and their order.                                             *)
(***************************************************************************)

LEMMA Places ==
  /\ Place[1] = {seen} /\ Place[2] = Held(hand["dispatched"]) /\ Place[3] = Queued(outChan)
  /\ Place[4] = Held(hand["requoted"]) /\ Place[5] = Held(hand["taken"]) /\ Place[6] = Queued(feedChan)
  /\ Place[7] = Held(hand["fed"]) /\ Place[8] = {made}
BY DEF Place

LEMMA PlacesHoldTicks == ASSUME TickType PROVE Place \in [1..8 -> SUBSET Nat]
<1>1. \A s \in Stage : Held(hand[s]) \subseteq Nat
  BY DEF TickType, Held
<1>2. Queued(feedChan) \subseteq Nat /\ Queued(outChan) \subseteq Nat
  BY ElementOfSeq DEF TickType, Queued
<1>3. \A k \in 1..8 : Place[k] \subseteq Nat
  BY <1>1, <1>2, Places DEF TickType, Stage
<1>. QED
  BY <1>3 DEF Place

\* A tick x moves down from place m, to place n and those between, and nothing that
\* is or stays above its new places is earlier.
Moved(P, Q, x, n, m) ==
  /\ n <= m /\ x \in P[m]
  /\ \A k \in 1..8 : Q[k] \subseteq P[k] \cup (IF n <= k /\ k < m THEN {x} ELSE {})
  /\ \A k \in 1..8 : n < k /\ k <= m => \A u \in Q[k] : x <= u

LEMMA MoveKeepsOrder ==
  ASSUME NEW P \in [1..8 -> SUBSET Nat], NEW Q \in [1..8 -> SUBSET Nat],
         NEW n \in 1..8, NEW m \in 1..8, NEW x, Moved(P, Q, x, n, m),
         Ordered(P)
  PROVE  Ordered(Q)
<1>. USE DEF Moved
<1>. SUFFICES ASSUME NEW j \in 1..8, NEW k \in 1..8, j < k, NEW t \in Q[j], NEW u \in Q[k]
     PROVE  t <= u
  BY DEF Ordered
<1>1. t \in Nat /\ u \in Nat /\ x \in Nat
  OBVIOUS
<1>2. CASE t \in P[j] /\ u \in P[k]
  BY <1>2 DEF Ordered
<1>3. CASE t \in P[j] /\ u \notin P[k]
  <2>1. u = x /\ k < m
    BY <1>3
  <2>2. j < m
    BY <2>1
  <2>. QED
    BY <1>3, <2>1, <2>2 DEF Ordered
<1>4. CASE t \notin P[j]
  <2>1. t = x /\ n <= j /\ j < m
    BY <1>4
  <2>2. CASE k <= m
    BY <2>1, <2>2
  <2>3. CASE k > m
    <3>1. u \in P[k]
      BY <2>3
    <3>. QED
      BY <2>1, <2>3, <3>1 DEF Ordered
  <2>. QED
    BY <2>2, <2>3
<1>. QED
  BY <1>2, <1>3, <1>4

-----------------------------------------------------------------------------
(***************************************************************************)
(* Who has a tick in its hands.                                            *)
(***************************************************************************)

LEMMA Owners ==
  /\ Owner("fed") = "feeder" /\ Owner("taken") = "market"
  /\ Owner("requoted") = "market" /\ Owner("dispatched") = "engine"
  /\ \A s \in Stage : Owner(s) \in Part
BY DEF Owner, Stage, Part

\* A goroutine without a tick in its hands has no colleague with one.
LEMMA NobodyHolds ==
  ASSUME PInv, lone, NEW s \in Stage, NEW g \in Channel,
         g \in alive[Owner(s)], hand[s][g] = None
  PROVE  \A h \in Channel : hand[s][h] = None
BY Owners DEF PInv, Hands, HandsHeld, Alone

LEMMA OneHolds ==
  ASSUME PInv, lone, NEW s \in Stage, NEW g \in Channel, hand[s][g] # None
  PROVE  \A h \in Channel \ {g} : hand[s][h] = None
BY Owners DEF PInv, Hands, HandsHeld, Alone

LEMMA WorkForm ==
  ASSUME LifeType, NEW p \in Part, NEW g \in Channel, Work(p, g)
  PROVE  /\ g \in alive[p] /\ watched[p][g] # None
         /\ alive' = alive /\ watched'[p][g] = None
         /\ \A q \in Part, h \in Channel : q # p \/ h # g => watched'[q][h] = watched[q][h]
<1>1. watched[p] \in [Channel -> Nat]
  BY DEF LifeType
<1>2. watched' = [watched EXCEPT ![p] = [watched[p] EXCEPT ![g] = None]]
  BY DEF Work
<1>. QED
  BY <1>1, <1>2 DEF LifeType, Work

\* A goroutine that leaves its select has nothing in its hands, and takes something.
LEMMA WorkTakes ==
  ASSUME PInv, NEW s \in Stage, NEW g \in Channel, Work(Owner(s), g),
         \A r \in Stage, h \in Channel : r # s \/ h # g => hand'[r][h] = hand[r][h]
  PROVE  /\ HandsHeld'
         /\ \A r \in Stage : Owner(r) = Owner(s) => hand[r][g] = None
<1>1. Owner(s) \in Part
  BY Owners
<1>2. \A r \in Stage : Owner(r) \in Part
  BY Owners
<1>3. /\ g \in alive[Owner(s)] /\ watched[Owner(s)][g] # None
      /\ alive' = alive /\ watched'[Owner(s)][g] = None
      /\ \A q \in Part, h \in Channel :
           q # Owner(s) \/ h # g => watched'[q][h] = watched[q][h]
  BY <1>1, WorkForm DEF PInv
<1>4. ASSUME NEW r \in Stage, NEW h \in Channel, hand'[r][h] # None
      PROVE  h \in alive'[Owner(r)] /\ watched'[Owner(r)][h] = None
  <2>1. CASE r = s /\ h = g
    BY <2>1, <1>3
  <2>2. CASE ~ (r = s /\ h = g)
    <3>1. hand[r][h] # None
      BY <2>2, <1>4
    <3>2. h \in alive[Owner(r)] /\ watched[Owner(r)][h] = None
      BY <3>1, Zenon DEF PInv, Hands, HandsHeld
    <3>. QED
      BY <3>2, <1>2, <1>3
  <2>. QED
    BY <2>1, <2>2
<1>5. HandsHeld'
  BY <1>4, Zenon DEF HandsHeld, Owner
<1>6. ASSUME NEW r \in Stage, Owner(r) = Owner(s) PROVE hand[r][g] = None
  BY <1>6, <1>3 DEF PInv, Hands, HandsHeld
<1>. QED
  BY <1>5, <1>6

\* A goroutine passes its tick on, away from its select.
LEMMA HandlingKeepsHeld ==
  ASSUME PInv, NEW s \in Stage, NEW r \in Stage, Owner(r) = Owner(s), NEW g \in Channel,
         hand[s][g] # None, UNCHANGED <<alive, watched>>,
         \A u \in Stage, h \in Channel : u \notin {s, r} \/ h # g => hand'[u][h] = hand[u][h]
  PROVE  HandsHeld'
<1>1. g \in alive[Owner(s)] /\ watched[Owner(s)][g] = None
  BY DEF PInv, Hands, HandsHeld
<1>2. ASSUME NEW u \in Stage, NEW h \in Channel, hand'[u][h] # None
      PROVE  h \in alive'[Owner(u)] /\ watched'[Owner(u)][h] = None
  <2>1. CASE u \in {s, r} /\ h = g
    BY <2>1, <1>1
  <2>2. CASE u \notin {s, r} \/ h # g
    <3>1. hand[u][h] # None
      BY <2>2, <1>2
    <3>2. h \in alive[Owner(u)] /\ watched[Owner(u)][h] = None
      BY <3>1, Zenon DEF PInv, Hands, HandsHeld
    <3>. QED
      BY <3>2
  <2>. QED
    BY <2>1, <2>2
<1>. QED
  BY <1>2, Zenon DEF HandsHeld, Owner

-----------------------------------------------------------------------------
(***************************************************************************)
(* The steps of a tick.                                                    *)
(***************************************************************************)

\* The places after a step, as Places.
LEMMA NewPlaces ==
  /\ Place'[1] = {seen'} /\ Place'[2] = Held(hand'["dispatched"]) /\ Place'[3] = Queued(outChan')
  /\ Place'[4] = Held(hand'["requoted"]) /\ Place'[5] = Held(hand'["taken"]) /\ Place'[6] = Queued(feedChan')
  /\ Place'[7] = Held(hand'["fed"]) /\ Place'[8] = {made'}
BY DEF Place

LEMMA NewPlacesHoldTicks == ASSUME TickType' PROVE Place' \in [1..8 -> SUBSET Nat]
<1>1. \A s \in Stage : Held(hand'[s]) \subseteq Nat
  BY DEF TickType, Held
<1>2. Queued(feedChan') \subseteq Nat /\ Queued(outChan') \subseteq Nat
  BY ElementOfSeq DEF TickType, Queued
<1>3. \A k \in 1..8 : Place'[k] \subseteq Nat
  BY <1>1, <1>2, NewPlaces, SMTT(30) DEF TickType, Stage
<1>. QED
  BY <1>3 DEF Place

LEMMA HeldAfter ==
  ASSUME NEW s \in Stage, NEW g \in Channel,
         \A r \in Stage, h \in Channel : r # s \/ h # g => hand'[r][h] = hand[r][h]
  PROVE  /\ \A r \in Stage : r # s => Held(hand'[r]) = Held(hand[r])
         /\ Held(hand'[s]) \subseteq Held(hand[s]) \cup ({hand'[s][g]} \ {None})
         /\ (\A h \in Channel \ {g} : hand[s][h] = None) =>
              Held(hand'[s]) \subseteq {hand'[s][g]} \ {None}
BY DEF Held

LEMMA GenerateKeeps ==
  ASSUME PInv, NEW g \in Channel, Generate(g)
  PROVE  TickType' /\ Hands' /\ (lone => TickOrder')
<1>. "fed" \in Stage
  BY DEF Stage
<1>1. made' = made + 1 /\ made \in Nat /\ made' \in Nat
  BY DEF Generate, PInv, TickType
<1>2. /\ hand' \in [Stage -> [Channel -> Nat]]
      /\ hand'["fed"][g] = made'
      /\ \A r \in Stage, h \in Channel : r # "fed" \/ h # g => hand'[r][h] = hand[r][h]
  BY <1>1, SetHand, ZenonT(60) DEF Generate, PInv, Takes
<1>3. TickType'
  BY <1>1, <1>2 DEF Generate, PInv, TickType
<1>4. HandsHeld'
  BY <1>2, WorkTakes, Owners DEF Generate
<1>5. MarketHand'
  BY <1>2 DEF PInv, Hands, MarketHand, Stage
<1>6. ASSUME lone PROVE TickOrder'
  <2>1. /\ \A k \in 1..6 : Place'[k] = Place[k]
        /\ Place'[7] \subseteq Place[7] \cup {made'} /\ Place'[8] = {made'}
    <3>1. /\ \A r \in Stage \ {"fed"} : Held(hand'[r]) = Held(hand[r])
          /\ Held(hand'["fed"]) \subseteq Held(hand["fed"]) \cup {made'}
      BY <1>2, HeldAfter
    <3>2. \A k \in 1..8 : k = 1 \/ k = 2 \/ k = 3 \/ k = 4 \/ k = 5 \/ k = 6 \/ k = 7 \/ k = 8
      OBVIOUS
    <3>. QED
      BY <3>1, <3>2, Places, NewPlaces DEF Generate, Stage
  <2>2. \A k \in 1..7 : \A t \in Place[k] : t \in Nat /\ t <= made
    BY <1>6, PlacesHoldTicks, Places DEF PInv, TickOrder, Ordered
  <2>3. Ordered(Place')
    <3>. SUFFICES ASSUME NEW j \in 1..8, NEW k \in 1..8, j < k, NEW t \in Place'[j], NEW u \in Place'[k]
         PROVE  t <= u
      BY DEF Ordered
    <3>1. CASE k <= 6
      BY <3>1, <2>1, <1>6 DEF PInv, TickOrder, Ordered
    <3>2. CASE k = 7
      <4>1. t \in Place[j]
        BY <3>2, <2>1
      <4>. QED
        BY <4>1, <3>2, <2>1, <2>2, <1>1, <1>6 DEF PInv, TickOrder, Ordered
    <3>3. CASE k = 8
      BY <3>3, <2>1, <2>2, <1>1
    <3>. QED
      BY <3>1, <3>2, <3>3
  <2>4. QuotedAhead'
    BY <2>1, <1>6 DEF Generate, PInv, TickOrder, QuotedAhead
  <2>. QED
    BY <2>3, <2>4, <1>6 DEF Generate, PInv, TickOrder
<1>. QED
  BY <1>3, <1>4, <1>5, <1>6 DEF Hands

LEMMA OfferKeeps ==
  ASSUME PInv, NEW g \in Channel, Offer(g)
  PROVE  TickType' /\ Hands' /\ (lone => TickOrder')
<1>. "fed" \in Stage /\ None \in Nat
  BY DEF Stage, None
<1>. DEFINE x == hand["fed"][g]
<1>1. x \in Nat /\ x # None
  BY DEF Offer, PInv, TickType
<1>2. /\ hand' \in [Stage -> [Channel -> Nat]]
      /\ hand'["fed"][g] = None
      /\ \A r \in Stage, h \in Channel : r # "fed" \/ h # g => hand'[r][h] = hand[r][h]
  BY SetHand, ZenonT(60) DEF Offer, PInv, Takes
<1>3. /\ feedChan' \in Seq(Nat)
      /\ Queued(feedChan') \subseteq Queued(feedChan) \cup {x}
      /\ Sorted(feedChan) /\ (\A t \in Queued(feedChan) : t <= x) => Sorted(feedChan')
  BY <1>1, Enqueued DEF Offer, PInv, TickType
<1>4. TickType'
  BY <1>2, <1>3 DEF Offer, PInv, TickType
<1>5. HandsHeld'
  BY <1>1, <1>2, HandlingKeepsHeld DEF Offer, vars
<1>6. MarketHand'
  BY <1>2 DEF PInv, Hands, MarketHand, Stage
<1>7. ASSUME lone PROVE TickOrder'
  <2>1. Place'[7] = {} /\ x \in Place[7]
    <3>1. \A h \in Channel \ {g} : hand["fed"][h] = None
      BY <1>1, <1>7, OneHolds
    <3>. QED
      BY <3>1, <1>1, <1>2, HeldAfter, Places, NewPlaces DEF Held
  <2>2. /\ \A k \in {1, 2, 3, 4, 5, 8} : Place'[k] = Place[k]
        /\ Place'[6] \subseteq Place[6] \cup {x}
    <3>1. \A r \in Stage \ {"fed"} : Held(hand'[r]) = Held(hand[r])
      BY <1>2, HeldAfter
    <3>. QED
      BY <3>1, <1>3, Places, NewPlaces DEF Offer, Stage
  <2>3. Ordered(Place')
    <3>1. Place \in [1..8 -> SUBSET Nat] /\ Place' \in [1..8 -> SUBSET Nat]
      BY <1>4, PlacesHoldTicks, NewPlacesHoldTicks DEF PInv
    <3>2. Moved(Place, Place', x, 6, 7)
      BY <2>1, <2>2 DEF Moved
    <3>3. Ordered(Place)
      BY <1>7 DEF PInv, TickOrder
    <3>. QED
      BY <3>1, <3>2, <3>3, MoveKeepsOrder
  <2>4. Sorted(feedChan')
    BY <2>1, <1>3, <1>7, Places DEF PInv, TickOrder, Ordered
  <2>5. QuotedAhead'
    BY <2>2, <1>7 DEF Offer, PInv, TickOrder, QuotedAhead
  <2>. QED
    BY <2>3, <2>4, <2>5, <1>7 DEF Offer, PInv, TickOrder
<1>. QED
  BY <1>4, <1>5, <1>6, <1>7 DEF Hands

LEMMA TakeTickKeeps ==
  ASSUME PInv, NEW g \in Channel, TakeTick(g)
  PROVE  TickType' /\ Hands' /\ (lone => TickOrder')
<1>. "taken" \in Stage /\ "requoted" \in Stage
  BY DEF Stage
<1>1. PICK x \in Nat :
      /\ x = Head(feedChan) /\ feedChan' \in Seq(Nat)
      /\ x \in Queued(feedChan) /\ Queued(feedChan') \subseteq Queued(feedChan)
      /\ Sorted(feedChan) => Sorted(feedChan') /\ \A t \in Queued(feedChan') : x <= t
  BY Dequeued DEF TakeTick, PInv, TickType
<1>2. /\ hand' \in [Stage -> [Channel -> Nat]]
      /\ hand'["taken"][g] = x
      /\ \A r \in Stage, h \in Channel : r # "taken" \/ h # g => hand'[r][h] = hand[r][h]
  <2>1. Takes("taken", g, x) /\ TickType
    BY <1>1 DEF TakeTick, PInv, Takes
  <2>. QED
    BY <1>1, <2>1, SetHand
<1>3. TickType'
  BY <1>1, <1>2 DEF TakeTick, PInv, TickType
<1>4. HandsHeld' /\ hand["requoted"][g] = None
  BY <1>2, WorkTakes, Owners DEF TakeTick
<1>5. MarketHand'
  BY <1>2, <1>4 DEF PInv, Hands, MarketHand
<1>6. ASSUME lone PROVE TickOrder'
  <2>1. /\ \A k \in {1, 2, 3, 4, 7, 8} : Place'[k] = Place[k]
        /\ Place'[5] \subseteq Place[5] \cup {x}
        /\ Place'[6] \subseteq Place[6] /\ x \in Place[6] /\ \A u \in Place'[6] : x <= u
    <3>1. /\ \A r \in Stage \ {"taken"} : Held(hand'[r]) = Held(hand[r])
          /\ Held(hand'["taken"]) \subseteq Held(hand["taken"]) \cup {x}
      BY <1>2, HeldAfter
    <3>. QED
      BY <3>1, <1>1, <1>6, Places, NewPlaces DEF TakeTick, Stage, PInv, TickOrder
  <2>2. Ordered(Place')
    <3>1. Place \in [1..8 -> SUBSET Nat] /\ Place' \in [1..8 -> SUBSET Nat]
      BY <1>3, PlacesHoldTicks, NewPlacesHoldTicks DEF PInv
    <3>2. Moved(Place, Place', x, 5, 6)
      BY <2>1 DEF Moved
    <3>3. Ordered(Place)
      BY <1>6 DEF PInv, TickOrder
    <3>. QED
      BY <3>1, <3>2, <3>3, MoveKeepsOrder
  <2>3. QuotedAhead'
    BY <2>1, <1>6 DEF TakeTick, PInv, TickOrder, QuotedAhead
  <2>. QED
    BY <2>2, <2>3, <1>1, <1>6 DEF TakeTick, PInv, TickOrder
<1>. QED
  BY <1>3, <1>4, <1>5, <1>6 DEF Hands

LEMMA RequoteKeeps ==
  ASSUME PInv, NEW g \in Channel, Requote(g)
  PROVE  TickType' /\ Hands' /\ (lone => TickOrder')
<1>. "taken" \in Stage /\ "requoted" \in Stage
  BY DEF Stage
<1>. DEFINE x == hand["taken"][g]
<1>1. x \in Nat /\ x # None
  BY DEF Requote, PInv, TickType
<1>2. /\ hand' \in [Stage -> [Channel -> Nat]]
      /\ hand'["requoted"][g] = x /\ hand'["taken"][g] = None
      /\ \A u \in Stage, h \in Channel :
           u \notin {"taken", "requoted"} \/ h # g => hand'[u][h] = hand[u][h]
  BY PassHand DEF Requote, PInv
<1>3. TickType'
  BY <1>1, <1>2 DEF Requote, PInv, TickType
<1>4. HandsHeld'
  BY <1>1, <1>2, HandlingKeepsHeld, Owners DEF Requote, vars
<1>5. MarketHand'
  BY <1>2 DEF PInv, Hands, MarketHand
<1>6. ASSUME lone PROVE TickOrder'
  <2>1. /\ \A k \in {1, 2, 3, 6, 7, 8} : Place'[k] = Place[k]
        /\ Place'[4] \subseteq Place[4] \cup {x}
        /\ Place'[5] = {} /\ x \in Place[5]
    <3>1. \A h \in Channel \ {g} : hand["taken"][h] = None
      BY <1>1, <1>6, OneHolds
    <3>2. /\ \A u \in Stage \ {"taken", "requoted"} : Held(hand'[u]) = Held(hand[u])
          /\ Held(hand'["requoted"]) \subseteq Held(hand["requoted"]) \cup {x}
          /\ Held(hand'["taken"]) = {} /\ x \in Held(hand["taken"])
      BY <3>1, <1>1, <1>2 DEF Held
    <3>. QED
      BY <3>2, Places, NewPlaces DEF Requote, Stage
  <2>2. Ordered(Place')
    <3>1. Place \in [1..8 -> SUBSET Nat] /\ Place' \in [1..8 -> SUBSET Nat]
      BY <1>3, PlacesHoldTicks, NewPlacesHoldTicks DEF PInv
    <3>2. Moved(Place, Place', x, 4, 5)
      BY <2>1 DEF Moved
    <3>3. Ordered(Place)
      BY <1>6 DEF PInv, TickOrder
    <3>. QED
      BY <3>1, <3>2, <3>3, MoveKeepsOrder
  <2>3. QuotedAhead'
    <3>1. \A k \in 1..4 : \A t \in Place[k] : t <= x
      BY <2>1, <1>6 DEF PInv, TickOrder, Ordered
    <3>. QED
      BY <3>1, <2>1, <1>1 DEF Requote, QuotedAhead
  <2>. QED
    BY <2>2, <2>3, <1>6 DEF Requote, PInv, TickOrder
<1>. QED
  BY <1>3, <1>4, <1>5, <1>6 DEF Hands

LEMMA RelayKeeps ==
  ASSUME PInv, NEW g \in Channel, Relay(g)
  PROVE  TickType' /\ Hands' /\ (lone => TickOrder')
<1>. "requoted" \in Stage /\ None \in Nat
  BY DEF Stage, None
<1>. DEFINE x == hand["requoted"][g]
<1>1. x \in Nat /\ x # None
  BY DEF Relay, PInv, TickType
<1>2. /\ hand' \in [Stage -> [Channel -> Nat]]
      /\ hand'["requoted"][g] = None
      /\ \A r \in Stage, h \in Channel : r # "requoted" \/ h # g => hand'[r][h] = hand[r][h]
  BY SetHand, ZenonT(60) DEF Relay, PInv, Takes
<1>3. /\ outChan' \in Seq(Nat)
      /\ Queued(outChan') \subseteq Queued(outChan) \cup {x}
      /\ Sorted(outChan) /\ (\A t \in Queued(outChan) : t <= x) => Sorted(outChan')
  BY <1>1, Enqueued DEF Relay, PInv, TickType
<1>4. TickType'
  BY <1>2, <1>3 DEF Relay, PInv, TickType
<1>5. HandsHeld'
  BY <1>1, <1>2, HandlingKeepsHeld DEF Relay, vars
<1>6. MarketHand'
  BY <1>2 DEF PInv, Hands, MarketHand, Stage
<1>7. ASSUME lone PROVE TickOrder'
  <2>1. Place'[4] = {} /\ x \in Place[4]
    <3>1. \A h \in Channel \ {g} : hand["requoted"][h] = None
      BY <1>1, <1>7, OneHolds
    <3>. QED
      BY <3>1, <1>1, <1>2, HeldAfter, Places, NewPlaces DEF Held
  <2>2. /\ \A k \in {1, 2, 5, 6, 7, 8} : Place'[k] = Place[k]
        /\ Place'[3] \subseteq Place[3] \cup {x}
    <3>1. \A r \in Stage \ {"requoted"} : Held(hand'[r]) = Held(hand[r])
      BY <1>2, HeldAfter
    <3>. QED
      BY <3>1, <1>3, Places, NewPlaces DEF Relay, Stage
  <2>3. Ordered(Place')
    <3>1. Place \in [1..8 -> SUBSET Nat] /\ Place' \in [1..8 -> SUBSET Nat]
      BY <1>4, PlacesHoldTicks, NewPlacesHoldTicks DEF PInv
    <3>2. Moved(Place, Place', x, 3, 4)
      BY <2>1, <2>2 DEF Moved
    <3>3. Ordered(Place)
      BY <1>7 DEF PInv, TickOrder
    <3>. QED
      BY <3>1, <3>2, <3>3, MoveKeepsOrder
  <2>4. Sorted(outChan')
    BY <2>1, <1>3, <1>7, Places DEF PInv, TickOrder, Ordered
  <2>5. QuotedAhead'
    BY <2>1, <2>2, <1>7 DEF Relay, PInv, TickOrder, QuotedAhead
  <2>. QED
    BY <2>3, <2>4, <2>5, <1>7 DEF Relay, PInv, TickOrder
<1>. QED
  BY <1>4, <1>5, <1>6, <1>7 DEF Hands

LEMMA DispatchKeeps ==
  ASSUME PInv, NEW g \in Channel, Dispatch(g)
  PROVE  /\ TickType' /\ Hands' /\ (lone => TickOrder')
         /\ lone => seen' >= seen
<1>. "dispatched" \in Stage
  BY DEF Stage
<1>1. PICK x \in Nat :
      /\ x = Head(outChan) /\ outChan' \in Seq(Nat)
      /\ x \in Queued(outChan) /\ Queued(outChan') \subseteq Queued(outChan)
      /\ Sorted(outChan) => Sorted(outChan') /\ \A t \in Queued(outChan') : x <= t
  BY Dequeued DEF Dispatch, PInv, TickType
<1>2. /\ hand' \in [Stage -> [Channel -> Nat]]
      /\ hand'["dispatched"][g] = x
      /\ \A r \in Stage, h \in Channel : r # "dispatched" \/ h # g => hand'[r][h] = hand[r][h]
  <2>1. Takes("dispatched", g, x) /\ TickType
    BY <1>1 DEF Dispatch, PInv, Takes
  <2>. QED
    BY <1>1, <2>1, SetHand
<1>3. TickType'
  BY <1>1, <1>2 DEF Dispatch, PInv, TickType
<1>4. HandsHeld' /\ hand["dispatched"][g] = None
  BY <1>2, WorkTakes, Owners DEF Dispatch
<1>5. MarketHand'
  BY <1>2 DEF PInv, Hands, MarketHand, Stage
<1>6. ASSUME lone PROVE TickOrder' /\ seen' >= seen
  <2>1. /\ \A k \in {4, 5, 6, 7, 8} : Place'[k] = Place[k]
        /\ Place'[1] = {x} /\ Place'[2] \subseteq {x}
        /\ Place'[3] \subseteq Place[3] /\ x \in Place[3] /\ \A u \in Place'[3] : x <= u
    <3>1. \A h \in Channel : hand["dispatched"][h] = None
      <4>1. g \in alive["engine"]
        BY DEF Dispatch, Work
      <4>. QED
        BY <4>1, <1>4, <1>6, NobodyHolds, Owners
    <3>2. /\ \A r \in Stage \ {"dispatched"} : Held(hand'[r]) = Held(hand[r])
          /\ Held(hand'["dispatched"]) \subseteq {x}
      BY <3>1, <1>2, HeldAfter
    <3>. QED
      BY <3>2, <1>1, <1>6, Places, NewPlaces DEF Dispatch, Stage, PInv, TickOrder
  <2>2. Ordered(Place')
    <3>1. Place \in [1..8 -> SUBSET Nat] /\ Place' \in [1..8 -> SUBSET Nat]
      BY <1>3, PlacesHoldTicks, NewPlacesHoldTicks DEF PInv
    <3>2. Moved(Place, Place', x, 1, 3)
      BY <2>1, <1>1 DEF Moved
    <3>3. Ordered(Place)
      BY <1>6 DEF PInv, TickOrder
    <3>. QED
      BY <3>1, <3>2, <3>3, MoveKeepsOrder
  <2>3. QuotedAhead'
    BY <2>1, <1>6 DEF Dispatch, PInv, TickOrder, QuotedAhead
  <2>4. seen' >= seen
    <3>1. seen <= x
      BY <2>1, <1>6, Places DEF PInv, TickOrder, Ordered
    <3>. QED
      BY <3>1, <1>1 DEF Dispatch, PInv, TickType
  <2>. QED
    BY <2>2, <2>3, <2>4, <1>1, <1>6 DEF Dispatch, PInv, TickOrder
<1>. QED
  BY <1>3, <1>4, <1>5, <1>6 DEF Hands

LEMMA ProcessedKeeps ==
  ASSUME PInv, NEW g \in Channel, Processed(g)
  PROVE  TickType' /\ Hands' /\ (lone => TickOrder')
<1>. "dispatched" \in Stage /\ None \in Nat
  BY DEF Stage, None
<1>1. /\ hand' \in [Stage -> [Channel -> Nat]]
      /\ hand'["dispatched"][g] = None
      /\ \A r \in Stage, h \in Channel : r # "dispatched" \/ h # g => hand'[r][h] = hand[r][h]
  BY SetHand, ZenonT(60) DEF Processed, PInv, Takes
<1>2. TickType'
  BY <1>1 DEF Processed, PInv, TickType
<1>3. HandsHeld'
  BY <1>1, HandlingKeepsHeld DEF Processed, vars
<1>4. MarketHand'
  BY <1>1 DEF PInv, Hands, MarketHand, Stage
<1>5. ASSUME lone PROVE TickOrder'
  <2>1. \A k \in 1..8 : Place'[k] \subseteq Place[k]
    <3>1. \A r \in Stage : Held(hand'[r]) \subseteq Held(hand[r])
      BY <1>1, HeldAfter
    <3>2. \A k \in 1..8 : k = 1 \/ k = 2 \/ k = 3 \/ k = 4 \/ k = 5 \/ k = 6 \/ k = 7 \/ k = 8
      OBVIOUS
    <3>. QED
      BY <3>1, <3>2, Places, NewPlaces DEF Processed, Stage
  <2>2. Ordered(Place') /\ QuotedAhead'
    BY <2>1, <1>5 DEF Processed, PInv, TickOrder, Ordered, QuotedAhead
  <2>. QED
    BY <2>2, <1>5 DEF Processed, PInv, TickOrder
<1>. QED
  BY <1>2, <1>3, <1>4, <1>5 DEF Hands

\* A step that leaves the ticks where they are keeps their order, quotes withdrawn or not.
LEMMA StandStill ==
  ASSUME PInv, UNCHANGED <<made, feedChan, outChan, hand, seen>>,
         quoted' = quoted \/ quoted' = None
  PROVE  TickType' /\ MarketHand' /\ (lone => TickOrder')
<1>1. Place' = Place
  BY DEF Place, Held, Queued
<1>2. TickType'
  BY DEF PInv, TickType, None
<1>3. MarketHand'
  BY DEF PInv, Hands, MarketHand
<1>4. ASSUME lone PROVE TickOrder'
  BY <1>1, <1>4 DEF PInv, TickOrder, QuotedAhead
<1>. QED
  BY <1>2, <1>3, <1>4

\* Starts and stops do not end a goroutine, nor take one to its select.
LEMMA CallsKeep ==
  ASSUME PInv, NEW c \in Caller, Call(c) \/ Withdraw(c)
  PROVE  TickType' /\ Hands' /\ (lone => TickOrder')
<1>1. /\ UNCHANGED <<made, feedChan, outChan, hand, seen>>
      /\ quoted' = quoted \/ quoted' = None
  BY Zenon DEF Call, Withdraw, tickVars
<1>2. watched' = watched
  BY Zenon DEF Call, Withdraw, StartEngine, StopEngine, StartMarket, StartFeeder, StartProcessor,
    StopMarket, StopFeeder, AwaitMarket, ClearQuotes, AwaitEngine
<1>3. \/ alive' = alive
      \/ \E p \in Part : \E n : alive' = [alive EXCEPT ![p] = @ \cup {n}]
  BY Zenon DEF Call, Withdraw, StartEngine, StopEngine, StartMarket, StartFeeder, StartProcessor,
    StopMarket, StopFeeder, AwaitMarket, ClearQuotes, AwaitEngine, Part
<1>4. \A p \in Part : alive[p] \subseteq alive'[p]
  BY <1>3 DEF PInv, LifeType
<1>5. HandsHeld'
  <2>. SUFFICES ASSUME NEW s \in Stage, NEW g \in Channel, hand'[s][g] # None
       PROVE  g \in alive'[Owner(s)] /\ watched'[Owner(s)][g] = None
    BY Zenon DEF HandsHeld, Owner
  <2>1. g \in alive[Owner(s)] /\ watched[Owner(s)][g] = None
    BY <1>1, Zenon DEF PInv, Hands, HandsHeld
  <2>. QED
    BY <2>1, <1>2, <1>4, Owners
<1>. QED
  BY <1>1, <1>5, StandStill DEF Hands

LEMMA SelectNextKeeps ==
  ASSUME PInv, NEW p \in Part, NEW g \in Channel, SelectNext(p, g)
  PROVE  TickType' /\ Hands' /\ (lone => TickOrder')
<1>1. UNCHANGED <<made, feedChan, outChan, hand, seen, quoted>> /\ alive' = alive
  BY Zenon DEF SelectNext, Select, tickVars
<1>2. \A q \in Part, h \in Channel : q # p \/ h # g => watched'[q][h] = watched[q][h]
  <2>1. watched[p] \in [Channel -> Nat]
    BY DEF PInv, LifeType
  <2>2. watched' = [watched EXCEPT ![p] = [watched[p] EXCEPT ![g] = chan[p]]]
    BY DEF SelectNext, Select
  <2>. QED
    BY <2>1, <2>2 DEF PInv, LifeType
<1>3. HandsHeld'
  <2>. SUFFICES ASSUME NEW s \in Stage, NEW h \in Channel, hand'[s][h] # None
       PROVE  h \in alive'[Owner(s)] /\ watched'[Owner(s)][h] = None
    BY Zenon DEF HandsHeld, Owner
  <2>1. h \in alive[Owner(s)] /\ watched[Owner(s)][h] = None
    BY <1>1, Zenon DEF PInv, Hands, HandsHeld
  <2>2. Owner(s) # p \/ h # g
    <3>1. CASE Owner(s) = p /\ h = g
      <4>1. hand[s][g] = None
        BY <3>1, Owners DEF SelectNext, EmptyHanded, Stage
      <4>. QED
        BY <4>1, <3>1, <1>1
    <3>. QED
      BY <3>1
  <2>. QED
    BY <2>1, <2>2, <1>1, <1>2, Owners
<1>. QED
  BY <1>1, <1>3, StandStill DEF Hands

LEMMA LeaveKeeps ==
  ASSUME PInv, NEW p \in Part, NEW g \in Channel, Leave(p, g)
  PROVE  TickType' /\ Hands' /\ (lone => TickOrder')
<1>1. UNCHANGED <<made, feedChan, outChan, hand, seen, quoted>>
  BY Zenon DEF Leave, tickVars
<1>2. watched[p][g] # None
  BY DEF Leave, Return, PInv, LifeType
<1>3. \A q \in Part, h \in Channel : q # p \/ h # g =>
        watched'[q][h] = watched[q][h] /\ (h \in alive[q] => h \in alive'[q])
  <2>1. watched[p] \in [Channel -> Nat]
    BY DEF PInv, LifeType
  <2>2. watched' = [watched EXCEPT ![p] = [watched[p] EXCEPT ![g] = None]]
    BY DEF Leave, Return
  <2>3. alive' = [alive EXCEPT ![p] = alive[p] \ {g}]
    BY DEF Leave, Return
  <2>. QED
    BY <2>1, <2>2, <2>3 DEF PInv, LifeType
<1>4. HandsHeld'
  <2>. SUFFICES ASSUME NEW s \in Stage, NEW h \in Channel, hand'[s][h] # None
       PROVE  h \in alive'[Owner(s)] /\ watched'[Owner(s)][h] = None
    BY Zenon DEF HandsHeld, Owner
  <2>1. h \in alive[Owner(s)] /\ watched[Owner(s)][h] = None
    BY <1>1, Zenon DEF PInv, Hands, HandsHeld
  <2>2. Owner(s) # p \/ h # g
    BY <2>1, <1>2
  <2>. QED
    BY <2>1, <2>2, <1>3, Owners
<1>. QED
  BY <1>1, <1>4, StandStill DEF Hands

-----------------------------------------------------------------------------
(***************************************************************************)
(* The theorems.                                                           *)
(***************************************************************************)

LEMMA InitHolds == PipelineInit => PInv
<1>. SUFFICES ASSUME PipelineInit PROVE PInv
  OBVIOUS
<1>1. LifeType
  BY DEF PipelineInit, Init, LifeType, None
<1>2. TickType
  BY EmptySeq DEF PipelineInit, TickType, None
<1>3. \A s \in Stage, g \in Channel : hand[s][g] = None
  BY DEF PipelineInit
<1>4. Hands
  BY <1>3 DEF Hands, HandsHeld, MarketHand, Stage
<1>5. Alone
  BY DEF PipelineInit, Init, Alone
<1>6. TickOrder
  <2>1. Len(feedChan) = 0 /\ Len(outChan) = 0
    BY EmptySeq DEF PipelineInit
  <2>2. Queued(feedChan) = {} /\ Queued(outChan) = {} /\ Sorted(feedChan) /\ Sorted(outChan)
    BY <2>1 DEF Queued, Sorted
  <2>3. \A s \in Stage : Held(hand[s]) = {}
    BY <1>3 DEF Held
  <2>4. \A k \in 1..8 : Place[k] \subseteq {0}
    <3>1. \A k \in 1..8 : k = 1 \/ k = 2 \/ k = 3 \/ k = 4 \/ k = 5 \/ k = 6 \/ k = 7 \/ k = 8
      OBVIOUS
    <3>. QED
      BY <3>1, <2>2, <2>3, Places DEF PipelineInit, Stage, None
  <2>5. Ordered(Place) /\ QuotedAhead
    BY <2>4 DEF Ordered, QuotedAhead, PipelineInit
  <2>. QED
    BY <2>2, <2>5 DEF TickOrder
<1>. QED
  BY <1>1, <1>2, <1>4, <1>5, <1>6 DEF PInv, PipelineInit

LEMMA StepHolds == PInv /\ [PipelineNext]_pipelineVars => PInv'
<1>. SUFFICES ASSUME PInv, [PipelineNext]_pipelineVars PROVE PInv'
  OBVIOUS
<1>1. LifeType'
  BY LifeKeeps, StepIsLifecycle DEF PInv
<1>2. CASE PipelineNext
  <2>1. TickType' /\ Hands' /\ (lone => TickOrder')
    <3>1. ASSUME NEW g \in Channel, TickStep(g) PROVE TickType' /\ Hands' /\ (lone => TickOrder')
      BY <3>1, GenerateKeeps, OfferKeeps, TakeTickKeeps, RequoteKeeps, RelayKeeps, DispatchKeeps,
        ProcessedKeeps DEF TickStep
    <3>. QED
      BY <1>2, <3>1, CallsKeep, SelectNextKeeps, LeaveKeeps DEF PipelineNext
  <2>2. lone' \in BOOLEAN /\ (lone' => lone /\ Alone')
    BY <1>2, Zenon DEF PipelineNext, Alone
  <2>. QED
    BY <1>1, <2>1, <2>2 DEF PInv
<1>3. CASE UNCHANGED pipelineVars
  <2>1. UNCHANGED <<made, feedChan, outChan, hand, seen, quoted, alive, watched, lone>>
    BY <1>3, Zenon DEF pipelineVars, tickVars, vars
  <2>2. HandsHeld'
    BY <2>1, Zenon DEF PInv, Hands, HandsHeld, Owner
  <2>3. (lone' \in BOOLEAN) /\ (lone' => lone /\ Alone')
    BY <2>1, Zenon DEF PInv, Alone
  <2>. QED
    BY <1>1, <2>1, <2>2, <2>3, StandStill DEF PInv, Hands
<1>. QED
  BY <1>2, <1>3

LEMMA PipelineInvariance == PipelineSpec => []PInv
BY InitHolds, StepHolds, PTL DEF PipelineSpec

\* A tick is dispatched only when the book is quoted at it or at a later one, or not at
\* all, through any stops and restarts that leave no part with two goroutines.
THEOREM QuotedFirst == PipelineSpec => []QuotedBeforeSeen
<1>1. PInv => QuotedBeforeSeen
  <2>. SUFFICES ASSUME PInv, lone, NEW g \in Channel, hand["dispatched"][g] # None, quoted # None
       PROVE  quoted >= hand["dispatched"][g]
    BY Zenon DEF QuotedBeforeSeen
  <2>1. hand["dispatched"][g] \in Place[2]
    BY Places DEF Held
  <2>. QED
    BY <2>1 DEF PInv, TickOrder, QuotedAhead, TickType, Stage
<1>. QED
  BY <1>1, PipelineInvariance, PTL

\* The strategies see ticks in the order of their exchange time.
THEOREM DispatchedInOrder == PipelineSpec => TicksInOrder
<1>1. PInv /\ [PipelineNext]_pipelineVars => [InOrder]_pipelineVars
  <2>. SUFFICES ASSUME PInv, PipelineNext, lone' PROVE seen' >= seen
    BY DEF InOrder
  <2>1. lone
    BY DEF PipelineNext
  <2>2. CASE \E g \in Channel : Dispatch(g)
    BY <2>1, <2>2, DispatchKeeps
  <2>3. CASE ~ \E g \in Channel : Dispatch(g)
    <3>1. seen' = seen
      BY <2>3, Zenon DEF PipelineNext, TickStep, Call, Withdraw, SelectNext, Leave, Generate, Offer,
        TakeTick, Requote, Relay, Processed, tickVars
    <3>. QED
      BY <3>1 DEF PInv, TickType
  <2>. QED
    BY <2>2, <2>3
<1>. QED
  BY <1>1, PipelineInvariance, PTL DEF PipelineSpec, TicksInOrder
=============================================================================
