--------------------------- MODULE ClientSession ---------------------------
(***************************************************************************)
(* The client's reconnect loop and its sessions                            *)
(* (src/internal/client/client.go): Runner.Run, runSession with its three  *)
(* pumps and its deferred closes, and the back-off.  A pump of a session   *)
(* that is over may outlive it: nothing waits for the pumps.               *)
(*                                                                         *)
(* The TAP device is abstracted to who keeps it attached.  On Linux        *)
(* (tap_linux.go) the descriptor is in blocking mode, so Close does not    *)
(* interrupt a Read and the device stays attached until that Read returns; *)
(* on Windows Close aborts the Read (module TapWindows has the detail).    *)
(* The relay, the network and the host's traffic are external.             *)
(***************************************************************************)
EXTENDS Naturals, FiniteSets, Powers

CONSTANTS
    Slots,           \* bound: sessions whose goroutines can exist at once
    None,            \* no session
    maximumBackoff,  \* 30 in the code
    Platforms        \* "linux", "windows": what the client runs on

ASSUME SlotsAssumption == Slots # {} /\ IsFiniteSet(Slots) /\ None \notin Slots
ASSUME BackoffAssumption == maximumBackoff \in Nat \ {0}
ASSUME PlatformAssumption == Platforms \subseteq {"linux", "windows"}

Pumps == {"tap", "relay", "ping"}  \* tapToWebSocket, webSocketToTap, pingLoop

minimumBackoff == 1

ErrChOne == 1
\* errCh has room for one error of each pump.
ErrChCap == 3

VARIABLES
    platform,  \* the one of Platforms it runs on
    cancelled, \* ctx is done
    run,       \* where Run and runSession stand
    cur,       \* the session they are in
    healthy,   \* it has lasted healthySession
    backoff,   \* seconds
    failures,  \* history: sessions since the last healthy one, until it is
               \* enough for the longest delay
    device,    \* the session that keeps the TAP device attached
    conn,      \* the WebSocket of a session
    pump,      \* the goroutines of a session
    errCh      \* errors waiting in the channel of a session

loopVars == <<cancelled, cur, healthy, backoff, failures>>
vars == <<cancelled, run, cur, healthy, backoff, failures, device, conn, pump, errCh>>

\* Does device.Close abort a pending device.Read?
CloseInterrupts == platform = "windows"

\* The deferred closes of runSession that lie ahead at a stage.
InSession == {"dial", "auth", "pumping", "closeConn", "closeDevice"}

(* The type invariant; in particular the back-off of Run stays within its   *)
(* limits and errCh never holds more than it has room for.                  *)
TypeOK ==
    /\ platform \in Platforms
    /\ cancelled \in BOOLEAN
    /\ run \in InSession \cup {"loop", "open", "ended", "delay", "returned"}
    /\ cur \in Slots \cup {None}
    /\ healthy \in BOOLEAN
    /\ backoff \in minimumBackoff .. maximumBackoff
    /\ failures \in 0 .. maximumBackoff
    /\ device \in Slots \cup {None}
    /\ conn \in [Slots -> {"none", "open", "closed"}]
    /\ pump \in [Slots -> [Pumps -> {"off", "running", "sending", "exited"}]]
    /\ errCh \in [Slots -> 0 .. ErrChCap]

Init ==
    /\ platform \in Platforms
    /\ cancelled = FALSE /\ run = "loop" /\ cur = None /\ healthy = FALSE
    /\ backoff = minimumBackoff /\ failures = 0
    /\ device = None
    /\ conn = [s \in Slots |-> "none"]
    /\ pump = [s \in Slots |-> [k \in Pumps |-> "off"]]
    /\ errCh = [s \in Slots |-> 0]

Gone(s) == \A k \in Pumps : pump[s][k] \in {"off", "exited"}

----------------------------------------------------------------------------
(***************************************************************************)
(* Run                                                                     *)
(***************************************************************************)

\* The top of the loop: give up, or begin a session in a fresh slot.
LoopTop ==
    /\ run = "loop"
    /\ \/ /\ cancelled
          /\ run' = "returned"
          /\ UNCHANGED <<cur, conn, pump, errCh>>
       \/ /\ ~cancelled
          /\ \E s \in Slots :
                /\ Gone(s) /\ device # s
                /\ cur' = s
                /\ conn' = [conn EXCEPT ![s] = "none"]
                /\ pump' = [pump EXCEPT ![s] = [k \in Pumps |-> "off"]]
                /\ errCh' = [errCh EXCEPT ![s] = 0]
          /\ run' = "open"
    /\ healthy' = FALSE
    /\ UNCHANGED <<cancelled, backoff, failures, device>>

EndedNoReset ==
    /\ run = "ended"
    /\ run' = IF cancelled THEN "returned" ELSE "delay"
    /\ cur' = None
    /\ failures' = IF healthy THEN 0 ELSE failures
    /\ UNCHANGED <<cancelled, healthy, backoff, device, conn, pump, errCh>>

EndedGivesUp ==
    /\ run = "ended"
    /\ run' = "returned"
    /\ cur' = None
    /\ backoff' = IF healthy /\ ~cancelled THEN minimumBackoff ELSE backoff
    /\ failures' = IF healthy THEN 0 ELSE failures
    /\ UNCHANGED <<cancelled, healthy, device, conn, pump, errCh>>

\* runSession has returned: a session that lasted resets the back-off.
Ended ==
    /\ run = "ended"
    /\ run' = IF cancelled THEN "returned" ELSE "delay"
    /\ cur' = None
    /\ backoff' = IF healthy /\ ~cancelled THEN minimumBackoff ELSE backoff
    /\ failures' = IF healthy THEN 0 ELSE failures
    /\ UNCHANGED <<cancelled, healthy, device, conn, pump, errCh>>

\* The jittered timer fires, or ctx is cancelled first.
Delay ==
    /\ run = "delay"
    /\ \/ cancelled /\ run' = "returned" /\ UNCHANGED <<backoff, failures>>
       \/ /\ run' = "loop"
          /\ LET doubled == IF backoff < maximumBackoff THEN 2 * backoff ELSE backoff
             IN  backoff' = IF doubled > maximumBackoff THEN maximumBackoff ELSE doubled
          /\ failures' = IF Pow2[failures] < maximumBackoff THEN failures + 1 ELSE failures
    /\ UNCHANGED <<cancelled, cur, healthy, device, conn, pump, errCh>>

\* A signal or the service manager cancels ctx.
Cancel ==
    /\ ~cancelled
    /\ cancelled' = TRUE
    /\ UNCHANGED <<run, cur, healthy, backoff, failures, device, conn, pump, errCh>>

----------------------------------------------------------------------------
(***************************************************************************)
(* runSession                                                              *)
(***************************************************************************)
OpenDevice ==
    /\ run = "open" /\ device = None
    /\ device' = cur
    /\ run' = "dial"
    /\ UNCHANGED <<loopVars, conn, pump, errCh>>

\* tap.Open fails: no adapter, no permission, or the device is still attached.
OpenFails ==
    /\ run = "open"
    /\ run' = "ended"
    /\ UNCHANGED <<loopVars, device, conn, pump, errCh>>

DialOK ==
    /\ run = "dial"
    /\ conn' = [conn EXCEPT ![cur] = "open"]
    /\ run' = "auth"
    /\ UNCHANGED <<loopVars, device, pump, errCh>>

DialFailsLeaks ==
    /\ run = "dial"
    /\ run' = "ended"
    /\ UNCHANGED <<loopVars, device, conn, pump, errCh>>

\* DialContext fails, is cancelled or times out: only the device was opened.
DialFails ==
    /\ run = "dial"
    /\ run' = "closeDevice"
    /\ UNCHANGED <<loopVars, device, conn, pump, errCh>>

\* authenticate succeeds and the three pumps start.
AuthOK ==
    /\ run = "auth"
    /\ pump' = [pump EXCEPT ![cur] = [k \in Pumps |-> "running"]]
    /\ run' = "pumping"
    /\ UNCHANGED <<loopVars, device, conn, errCh>>

\* The wrong subprotocol, a refused proof, or one of authenticate's deadlines.
AuthFails ==
    /\ run = "auth"
    /\ run' = "closeConn"
    /\ UNCHANGED <<loopVars, device, conn, pump, errCh>>

\* A minute has passed since runSession was called.  Dial and authenticate are
\* over, or have timed out, long before; the closes may take their time.
BecomesHealthy ==
    /\ run \in {"pumping", "closeConn", "closeDevice"} /\ conn[cur] # "none" /\ ~healthy
    /\ healthy' = TRUE
    /\ UNCHANGED <<cancelled, run, cur, backoff, failures, device, conn, pump, errCh>>

SessionEndsDeaf ==
    /\ run = "pumping"
    /\ errCh[cur] > 0 /\ errCh' = [errCh EXCEPT ![cur] = @ - 1]
    /\ run' = "closeConn"
    /\ UNCHANGED <<loopVars, device, conn, pump>>

\* The final select: ctx is done, or a pump reported an error.
SessionEnds ==
    /\ run = "pumping"
    /\ \/ cancelled /\ UNCHANGED errCh
       \/ errCh[cur] > 0 /\ errCh' = [errCh EXCEPT ![cur] = @ - 1]
    /\ run' = "closeConn"
    /\ UNCHANGED <<loopVars, device, conn, pump>>

CloseConn ==
    /\ run = "closeConn"
    /\ conn' = [conn EXCEPT ![cur] = "closed"]
    /\ run' = "closeDevice"
    /\ UNCHANGED <<loopVars, device, pump, errCh>>

\* device.Close: the device is detached at once unless a Read that Close
\* cannot interrupt holds on to it.
CloseDevice ==
    /\ run = "closeDevice"
    /\ device' = IF pump[cur]["tap"] = "running" /\ ~CloseInterrupts THEN device ELSE None
    /\ run' = "ended"
    /\ UNCHANGED <<loopVars, conn, pump, errCh>>

----------------------------------------------------------------------------
(***************************************************************************)
(* The pumps                                                               *)
(***************************************************************************)
DeviceClosed(s) == cur # s \/ run = "ended"

PumpFailsPingIgnored(s, k) ==
    /\ pump[s][k] = "running" /\ k # "ping"
    /\ pump' = [pump EXCEPT ![s][k] = "sending"]
    /\ device' = IF k = "tap" /\ device = s /\ DeviceClosed(s) THEN None ELSE device
    /\ UNCHANGED <<run, loopVars, conn, errCh>>

\* A pump meets an error: a read or write of the conn or of the device fails,
\* or a frame is refused.  The Read that kept a closed device attached is over.
PumpFails(s, k) ==
    /\ pump[s][k] = "running"
    /\ pump' = [pump EXCEPT ![s][k] = "sending"]
    /\ device' = IF k = "tap" /\ device = s /\ DeviceClosed(s) THEN None ELSE device
    /\ UNCHANGED <<run, loopVars, conn, errCh>>

\* errCh <- err blocks when the channel is full.
PumpReports(s, k) ==
    /\ pump[s][k] = "sending" /\ errCh[s] < ErrChCap
    /\ errCh' = [errCh EXCEPT ![s] = @ + 1]
    /\ pump' = [pump EXCEPT ![s][k] = "exited"]
    /\ UNCHANGED <<run, loopVars, device, conn>>

----------------------------------------------------------------------------
SessionStep ==
    \/ OpenDevice \/ OpenFails \/ DialOK \/ DialFails \/ AuthOK \/ AuthFails
    \/ SessionEnds \/ CloseConn \/ CloseDevice

RunStep == LoopTop \/ Ended \/ Delay \/ SessionStep

\* What the client's own goroutines do; who cancels ctx is daemon.Run's
\* business (module ServiceSession).
ClientStep ==
    \/ RunStep \/ BecomesHealthy
    \/ \E s \in Slots, k \in Pumps : PumpFails(s, k) \/ PumpReports(s, k)

Next == (ClientStep \/ Cancel) /\ UNCHANGED platform

Spec == Init /\ [][Next]_<<vars, platform>>

\* Dial and authenticate have deadlines, timers fire, and a pump whose conn
\* is closed notices: webSocketToTap at once, pingLoop at its next tick.
Fairness ==
    /\ WF_vars(RunStep)
    /\ \A s \in Slots :
          /\ \A k \in Pumps : WF_vars(PumpReports(s, k))
          /\ \A k \in Pumps \ {"tap"} : WF_vars(conn[s] = "closed" /\ PumpFails(s, k))

\* Assumed of the host: it transmits now and then, which ends a Read that
\* Close could not interrupt, and opening a free adapter does not fail for
\* ever.
LiveHost ==
    /\ \A s \in Slots : WF_vars(DeviceClosed(s) /\ PumpFails(s, "tap"))
    /\ SF_vars(OpenDevice)

FairSpec == Spec /\ Fairness /\ LiveHost

----------------------------------------------------------------------------
(***************************************************************************)
(* Properties.                                                             *)
(***************************************************************************)

(* No pump is ever stuck on errCh, though the session receives only one of  *)
(* the errors and returns: the goroutines of a dead session can all end.    *)
ReportNeverBlocks ==
    \A s \in Slots : \A k \in Pumps : pump[s][k] = "sending" => errCh[s] < ErrChCap

(* The delay before a reconnect is the doubling sequence 1, 2, 4, ..., cut  *)
(* off at the maximum, at the number of sessions since the last one that    *)
(* was healthy.                                                             *)
BackoffFollowsFailures ==
    run = "delay" =>
        backoff = IF Pow2[failures] < maximumBackoff THEN Pow2[failures]
                                                     ELSE maximumBackoff

(* Outside a session the TAP device is attached only by a pump that still   *)
(* sits in its Read: every error path of runSession closes it.              *)
DeviceNotLeaked ==
    device # None =>
        \/ run \in InSession /\ device = cur
        \/ pump[device]["tap"] = "running" /\ ~CloseInterrupts

(* Unless it is stopped, the client is connected or dials the relay again   *)
(* and again, even though an old session may keep the device for a while.   *)
KeepsDialling == []<>(run \in {"dial", "pumping"}) \/ <>cancelled

(* All goroutines of a session that is over end.                            *)
PumpsEnd == \A s \in Slots : conn[s] = "closed" ~> Gone(s)
============================================================================
