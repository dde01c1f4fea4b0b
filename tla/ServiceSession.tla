--------------------------- MODULE ServiceSession ---------------------------
(***************************************************************************)
(* What runs the client: daemon.Run around Runner.Run (module               *)
(* ClientSession).  On Linux (src/internal/daemon/daemon_unix.go) a signal  *)
(* cancels ctx and Run's result is the program's.  As a Windows service     *)
(* (daemon_windows.go) handler.Execute cancels ctx, and the goroutine it    *)
(* starts hands the result of Run over on the channel done.  A client in a  *)
(* Windows console is a service without its first and last steps.           *)
(*                                                                          *)
(* The service manager is external.  It may ask for Stop or Shutdown as     *)
(* soon as the status is Running; an Interrogate is answered with the       *)
(* status it carries and changes nothing here.  The select of Execute also  *)
(* listens on done; StoppedIsClean shows that branch is never ready.        *)
(***************************************************************************)
EXTENDS ClientSession

VARIABLES
    handler,   \* where daemon.Run or Execute stands
    status,    \* the last svc.Status sent, in a service
    done       \* results of Run waiting in the channel

svcVars == <<handler, status, done>>
allVars == <<vars, platform, svcVars>>

doneCap == 1

Handlers == {"signals", "starting", "launch", "select", "cancel", "wait",
             "returned"}
Statuses == {"none", "StartPending", "Running", "StopPending"}

(* The type invariant. *)
ServiceTypeOK ==
    /\ TypeOK
    /\ handler \in Handlers
    /\ status \in Statuses
    /\ done \in 0 .. doneCap

ServiceInit ==
    /\ Init
    /\ handler = IF platform = "windows" THEN "starting" ELSE "signals"
    /\ status = "none" /\ done = 0

----------------------------------------------------------------------------
(***************************************************************************)
(* signal.NotifyContext                                                    *)
(***************************************************************************)
SignalArrives ==
    /\ handler = "signals"
    /\ Cancel
    /\ UNCHANGED svcVars

\* return run(ctx)
RunReturns ==
    /\ handler = "signals" /\ run = "returned"
    /\ handler' = "returned"
    /\ UNCHANGED <<vars, status, done>>

(***************************************************************************)
(* handler.Execute                                                         *)
(***************************************************************************)
SendStartPending ==
    /\ handler = "starting"
    /\ handler' = "launch" /\ status' = "StartPending"
    /\ UNCHANGED <<vars, done>>

\* The goroutine starts and the status becomes Running.
Launch ==
    /\ handler = "launch"
    /\ handler' = "select" /\ status' = "Running"
    /\ UNCHANGED <<vars, done>>

\* svc.Stop or svc.Shutdown.
StopRequest ==
    /\ handler = "select"
    /\ handler' = "cancel" /\ status' = "StopPending"
    /\ UNCHANGED <<vars, done>>

CancelRunNoWait ==
    /\ handler = "cancel"
    /\ cancelled' = TRUE
    /\ handler' = "returned"
    /\ UNCHANGED <<run, cur, healthy, backoff, failures, device, conn, pump, errCh>>
    /\ UNCHANGED <<status, done>>

CancelRun ==
    /\ handler = "cancel"
    /\ Cancel
    /\ handler' = "wait"
    /\ UNCHANGED <<status, done>>

\* h.err = <-done, and Execute returns.
ReceiveDone ==
    /\ handler = "wait" /\ done > 0
    /\ done' = done - 1
    /\ handler' = "returned"
    /\ UNCHANGED <<vars, status>>

\* The goroutine of Execute: done <- h.run(ctx), once.
RunDone ==
    /\ status # "none" /\ handler # "returned"
    /\ run = "returned" /\ done < doneCap
    /\ done' = done + 1
    /\ UNCHANGED <<vars, handler, status>>

----------------------------------------------------------------------------
HandlerStep ==
    RunReturns \/ SendStartPending \/ Launch \/ CancelRun \/ ReceiveDone

Launched == handler \notin {"starting", "launch"}

ServiceNext ==
    /\ \/ HandlerStep \/ SignalArrives \/ StopRequest \/ RunDone
       \/ Launched /\ ClientStep /\ UNCHANGED svcVars
    /\ UNCHANGED platform

\* daemon.Run and its goroutine are scheduled like the client's.  A
\* device.Close on Windows returns once the host transmits (see TapWindows).
ServiceSpec ==
    /\ ServiceInit /\ [][ServiceNext]_allVars
    /\ WF_svcVars(HandlerStep) /\ WF_svcVars(RunDone)
    /\ Fairness /\ LiveHost

----------------------------------------------------------------------------
(* The client returns only when it was told to: Execute never finds it gone *)
(* by itself, and so the service does not stop with the exit code 0 that    *)
(* tells the manager not to restart it.  When the program or the service    *)
(* says it has stopped, its session is over: no connection is open, and an  *)
(* adapter that Close can take away from a Read is free for the next start  *)
(* or for the upgrade that replaces the binary.                             *)
StoppedIsClean ==
    /\ run = "returned" => cancelled
    /\ handler = "returned" =>
          /\ run = "returned" /\ \A s \in Slots : conn[s] # "open"
          /\ CloseInterrupts => device = None

(* A signal, a Stop or a Shutdown is carried out, wherever the session      *)
(* stands: dialling the relay, authenticating, pumping, or waiting to       *)
(* reconnect.                                                               *)
StopReturns == (cancelled \/ status = "StopPending") ~> handler = "returned"
=============================================================================
