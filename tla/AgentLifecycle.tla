--------------------------- MODULE AgentLifecycle ---------------------------
(***************************************************************************)
(* The life of the agent process: the end of main in                       *)
(* cmd/kbeacon-agent/main.go, around the controller of module Controller.  *)
(*                                                                         *)
(* main starts two goroutines, one in Start of the controller and one in   *)
(* the HTTP server, and waits for a signal or for an error of either.      *)
(* Then it shuts the server down, for at most the grace period, and exits, *)
(* without waiting for the controller.                                     *)
(*                                                                         *)
(* Start returns an error only when the context is done, and its goroutine *)
(* then keeps the error to itself: errCh carries the server's only.        *)
(***************************************************************************)
EXTENDS Controller

CONSTANT MaxRequests   \* bound on the requests being answered

ASSUME AgentAssumption == MaxRequests \in Nat

VARIABLES
  main,        \* where main is
  signalled,   \* SIGINT or SIGTERM has cancelled the context
  released,    \* stop() has given the signals back to the runtime
  server,      \* the goroutine of ListenAndServe
  errCh,       \* errors buffered in errCh
  requests,    \* requests being answered
  graceOver,   \* shutdownCtx has timed out
  exitCode

mainVars   == <<main, signalled, released, graceOver, exitCode>>
serverVars == <<server, errCh, requests>>
agentVars  == <<mainVars, serverVars>>
agent      == <<vars, agentVars>>

-----------------------------------------------------------------------------

Running == main \notin {"exited", "killed"}

AgentTypeOK ==
  /\ main \in {"selecting", "shutdown", "draining", "exited", "killed"}
  /\ signalled \in BOOLEAN
  /\ released \in BOOLEAN
  /\ server \in {"starting", "serving", "failed", "closed"}
  /\ errCh \in 0..1
  /\ requests \in 0..MaxRequests
  /\ graceOver \in BOOLEAN
  /\ exitCode \in {0, 1}

AgentInit ==
  /\ Init
  /\ main = "selecting"
  /\ signalled = FALSE
  /\ released = FALSE
  /\ server = "starting"
  /\ errCh = 0
  /\ requests = 0
  /\ graceOver = FALSE
  /\ exitCode = 0

CancelContext == ctxDone' = TRUE /\ UNCHANGED <<informerVars, rebuildCh, startVars, loopVars>>

-----------------------------------------------------------------------------
(* Signals.                                                                *)

\* The first signal cancels the context that NotifyContext made.
Signal ==
  /\ Running
  /\ ~signalled /\ ~released
  /\ signalled' = TRUE
  /\ CancelContext
  /\ UNCHANGED <<main, released, graceOver, exitCode, serverVars>>

\* After stop() a signal has its default effect.  Until then further signals
\* have none.
SignalKills ==
  /\ Running
  /\ released
  /\ main' = "killed"
  /\ UNCHANGED <<vars, signalled, released, graceOver, exitCode, serverVars>>

-----------------------------------------------------------------------------
(* The HTTP server.                                                        *)

ServerListens ==
  /\ Running
  /\ server = "starting"
  /\ server' = "serving"
  /\ UNCHANGED <<vars, mainVars, errCh, requests>>

\* ListenAndServe returns an error that is not ErrServerClosed.
ServerFails ==
  /\ Running
  /\ server \in {"starting", "serving"}
  /\ server' = "failed"
  /\ errCh' = errCh + 1
  /\ UNCHANGED <<vars, mainVars, requests>>

RequestArrives ==
  /\ Running
  /\ server = "serving"
  /\ requests < MaxRequests
  /\ requests' = requests + 1
  /\ UNCHANGED <<vars, mainVars, server, errCh>>

RequestAnswered ==
  /\ Running
  /\ requests > 0
  /\ requests' = requests - 1
  /\ UNCHANGED <<vars, mainVars, server, errCh>>

-----------------------------------------------------------------------------
(* main.                                                                   *)

\* The select takes the context's branch.  If an error is there as well it is
\* never read.
SelectContext ==
  /\ main = "selecting"
  /\ ctxDone
  /\ main' = "shutdown"
  /\ UNCHANGED <<vars, signalled, released, graceOver, exitCode, serverVars>>

\* The select takes the error's branch: main calls stop().
SelectError ==
  /\ main = "selecting"
  /\ errCh > 0
  /\ errCh' = errCh - 1
  /\ exitCode' = 1
  /\ released' = TRUE
  /\ CancelContext
  /\ main' = "shutdown"
  /\ UNCHANGED <<signalled, graceOver, server, requests>>

\* srv.Shutdown closes the listener, or keeps ListenAndServe from opening it.
CloseListener ==
  /\ main = "shutdown"
  /\ main' = "draining"
  /\ server' = IF server = "failed" THEN "failed" ELSE "closed"
  /\ UNCHANGED <<vars, signalled, released, graceOver, exitCode, errCh, requests>>

GracePeriodEnds ==
  /\ main = "draining"
  /\ ~graceOver
  /\ graceOver' = TRUE
  /\ UNCHANGED <<vars, main, signalled, released, exitCode, serverVars>>

\* Bug: the requests are not waited for.
ShutdownReturnsAtOnce ==
  /\ main = "draining"
  /\ main' = "exited"
  /\ UNCHANGED <<vars, signalled, released, graceOver, exitCode, serverVars>>

\* Shutdown returns when no request is left.
ShutdownReturns ==
  /\ main = "draining"
  /\ requests = 0
  /\ main' = "exited"
  /\ UNCHANGED <<vars, signalled, released, graceOver, exitCode, serverVars>>

\* Bug: the context of Shutdown has no deadline.
ShutdownWithoutDeadline ==
  /\ main = "draining"
  /\ graceOver /\ requests = 0
  /\ exitCode' = 1
  /\ main' = "exited"
  /\ UNCHANGED <<vars, signalled, released, graceOver, serverVars>>

\* Shutdown returns the error of shutdownCtx.
ShutdownTimesOut ==
  /\ main = "draining"
  /\ graceOver
  /\ exitCode' = 1
  /\ main' = "exited"
  /\ UNCHANGED <<vars, signalled, released, graceOver, serverVars>>

MainStep ==
  \/ SelectContext
  \/ SelectError
  \/ CloseListener
  \/ GracePeriodEnds
  \/ ShutdownReturns
  \/ ShutdownTimesOut

ServerStep ==
  \/ ServerListens
  \/ ServerFails
  \/ RequestArrives
  \/ RequestAnswered

\* The goroutines of the controller run while the process does.
ControllerStep ==
  /\ Running
  /\ (\E r \in Resource : InformerStep(r)) \/ StartStep \/ LoopStep
  /\ UNCHANGED agentVars

AgentNext ==
  \/ ControllerStep
  \/ MainStep
  \/ ServerStep
  \/ Signal
  \/ SignalKills

\* main runs when it can and the grace period ends.  Nothing is assumed of the
\* controller, of the requests or of the signals.
AgentSpec == AgentInit /\ [][AgentNext]_agent /\ WF_agent(MainStep)

-----------------------------------------------------------------------------
(* Properties.                                                             *)

\* The exit status says what happened, in whatever order a signal, a failure
\* and the last answer come: success means that somebody asked the agent to
\* stop and that every request was answered; failure, that the server failed or
\* requests were still running when the grace period ended.
ExitStatusHasACause ==
  main = "exited" =>
    \/ exitCode = 0 /\ signalled /\ requests = 0
    \/ exitCode = 1 /\ (server = "failed" \/ graceOver)

\* A signal or a failing server ends the process, even if a request never ends
\* and the controller never returns.
AgentExits == (ctxDone \/ server = "failed") ~> ~Running

=============================================================================
