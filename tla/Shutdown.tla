------------------------------- MODULE Shutdown -------------------------------
(***************************************************************************)
(* Who starts and stops the engine: main at the start and at the end of    *)
(* the program (cmd/bot/main.go), and the HTTP handlers in between         *)
(* (web/handlers.go), while the web server is listening.                   *)
(*                                                                         *)
(* Starts and stops are those of Lifecycle, step by step.                  *)
(***************************************************************************)
EXTENDS Lifecycle, Sequences

CONSTANTS Handler,  \* goroutines that serve requests to start or stop
          main      \* the goroutine of main

ASSUME ShutdownAssumption == Caller = Handler \cup {main} /\ main \notin Handler

VARIABLES step,     \* where main is in Program
          serving,  \* handlers that serve a request
          timedOut  \* WebServer.Stop gave up waiting for them

mainVars == <<step, serving, timedOut>>
programVars == <<vars, mainVars>>

\* Mutant of Program: the engine is stopped before the web server.
ProgramEngineFirst == <<"start", "listen", "run", "stop", "drain", "hub", "exit">>

\* runCmd and serveCmd; drain and hub are WebServer.Stop.
Program == <<"start", "listen", "run", "drain", "hub", "stop", "exit">>

Here == Program[step]
GoTo(s) == step' = CHOOSE i \in DOMAIN Program : Program[i] = s
GoOn == step' = step + 1

ProgramInit ==
  /\ Init
  /\ step = 1
  /\ serving = {}
  /\ timedOut = FALSE

-----------------------------------------------------------------------------
(***************************************************************************)
(* main                                                                    *)
(***************************************************************************)

\* liveEngine.Start()
MainStarts ==
  /\ Here = "start" /\ GoOn
  /\ StartEngine(main)
  /\ UNCHANGED <<serving, timedOut>>

\* liveEngine.Start() has returned; webServer.Start() listens.
Listen ==
  /\ Here = "listen" /\ pc[main] = "idle"
  /\ GoOn
  /\ UNCHANGED <<vars, serving, timedOut>>

\* It reports an error within its tenth of a second: the engine is stopped.
ListenFails ==
  /\ Here = "listen" /\ pc[main] = "idle"
  /\ GoTo("stop")
  /\ UNCHANGED <<vars, serving, timedOut>>

\* SIGINT or SIGTERM: webServer.Stop() closes the listener ...
Signal ==
  /\ Here = "run" /\ GoOn
  /\ UNCHANGED <<vars, serving, timedOut>>

\* ... waits until no request is being served ...
Drain ==
  /\ Here = "drain" /\ GoOn
  /\ serving = {}
  /\ UNCHANGED <<vars, serving, timedOut>>

\* ... for at most five seconds, after which it returns at once.
DrainTimeout ==
  /\ Here = "drain" /\ serving # {}
  /\ timedOut' = TRUE
  /\ GoTo("stop")
  /\ UNCHANGED <<vars, serving>>

\* The rest of webServer.Stop: see Dashboard.
StopHub ==
  /\ Here = "hub" /\ GoOn
  /\ UNCHANGED <<vars, serving, timedOut>>

\* liveEngine.Stop() returns at once when the engine does not run.
MainStops ==
  /\ Here = "stop" /\ GoOn
  /\ pc[main] = "idle"
  /\ IF running["engine"] THEN StopEngine(main) ELSE mu = {} /\ UNCHANGED vars
  /\ UNCHANGED <<serving, timedOut>>

\* The program is over when that has returned.  A request that Stop gave up waiting
\* for goes on in the model: when it is cut off does not matter here.
Exited == Here = "exit" /\ pc[main] = "idle"

Main ==
  \/ MainStarts \/ Listen \/ ListenFails
  \/ Signal \/ Drain \/ DrainTimeout \/ StopHub \/ MainStops

-----------------------------------------------------------------------------
(***************************************************************************)
(* The handlers.                                                           *)
(***************************************************************************)

\* A request comes in while the server is listening.
Arrive(h) ==
  /\ Here = "run"
  /\ serving' = serving \cup {h}
  /\ UNCHANGED <<vars, step, timedOut>>

\* handleStartStrategy finds that the engine does not run, and starts it;
\* handleStopStrategy stops it, whichever strategy is named.
HandlerCalls(h) ==
  /\ h \in serving
  /\ StartEngine(h) \/ StopEngine(h)
  /\ UNCHANGED mainVars

\* The answer is written once the call has returned, or was not called for.
Answer(h) ==
  /\ h \in serving /\ serving' = serving \ {h}
  /\ pc[h] = "idle"
  /\ UNCHANGED <<vars, step, timedOut>>

-----------------------------------------------------------------------------

\* Calls and goroutines go on as in Lifecycle.
GoesOn(c) == Continue(c) /\ UNCHANGED mainVars
Loop(p, g) == (Select(p, g) \/ Work(p, g) \/ Return(p, g)) /\ UNCHANGED mainVars

ProgramNext ==
  \/ Main
  \/ \E h \in Handler : Arrive(h) \/ HandlerCalls(h) \/ Answer(h)
  \/ \E c \in Caller : GoesOn(c)
  \/ \E p \in Part, g \in Channel : Loop(p, g)

ProgramSpec == ProgramInit /\ [][ProgramNext]_programVars

-----------------------------------------------------------------------------
(***************************************************************************)
(* Properties.                                                             *)
(***************************************************************************)

\* When the program exits, neither the engine nor the market runs and dispatchLoop has
\* returned, however the last requests to start and stop overlapped.  (Unless the web
\* server gave up waiting for a request.)
StoppedAtExit ==
  Exited /\ ~ timedOut =>
    ~ running["engine"] /\ ~ running["market"] /\ alive["engine"] = {}
=============================================================================
