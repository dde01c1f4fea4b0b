----------------------------- MODULE TapWindows -----------------------------
(***************************************************************************)
(* The Windows TAP device (src/internal/tap/tap_windows.go) under the two  *)
(* pumps of a client session and the Close of its end.  A direction has a  *)
(* mutex, an OVERLAPPED with an event, and one pump; Close cancels what is *)
(* in flight, takes both mutexes and closes the handle and the events.     *)
(* The driver is external: it completes a write by itself and a read when  *)
(* the host transmits a frame.                                             *)
(***************************************************************************)
EXTENDS Naturals

CONSTANT MaxBuffered  \* bound: messages a conn can still hold when it is closed

MaxBufferedAssumption == MaxBuffered \in Nat

Directions == {"read", "write"}

VARIABLES
    pump,    \* where the pump of a direction stands
    mutex,   \* who holds readMu and writeMu
    io,      \* the request of a direction, as the driver sees it
    handle,  \* d.handle
    event,   \* the direction's HEvent
    conn,    \* the session's WebSocket
    buffered, \* messages in its read buffer after it was closed
    closer   \* where device.Close, called as runSession returns, stands

vars == <<pump, mutex, io, handle, event, conn, buffered, closer>>

(* The type invariant; in particular webSocketToTap takes no more messages  *)
(* from a closed conn than it had buffered.                                 *)
TypeOK ==
    /\ pump \in [Directions -> {"outside", "lock", "reset", "start", "await", "exited"}]
    /\ mutex \in [Directions -> {"free", "pump", "close"}]
    /\ io \in [Directions -> {"none", "inflight", "done", "aborted"}]
    /\ handle \in {"open", "closed"}
    /\ event \in [Directions -> {"open", "closed"}]
    /\ conn \in {"open", "closed"}
    /\ buffered \in 0 .. MaxBuffered
    /\ closer \in {"uncalled", "cancel", "lockRead", "lockWrite", "close", "returned"}

\* tap.Open has succeeded and the session is connected.
Init ==
    /\ pump = [d \in Directions |-> "outside"]
    /\ mutex = [d \in Directions |-> "free"]
    /\ io = [d \in Directions |-> "none"]
    /\ handle = "open"
    /\ event = [d \in Directions |-> "open"]
    /\ conn = "open"
    /\ buffered = 0
    /\ closer = "uncalled"

----------------------------------------------------------------------------
(***************************************************************************)
(* A pump: Read or Write, which is await under the direction's mutex.      *)
(***************************************************************************)
PumpAt(d, stage) == pump' = [pump EXCEPT ![d] = stage]

\* tapToWebSocket loops after a successful conn.WriteMessage; webSocketToTap
\* has read a message, which a closed conn may still have in its buffer.
Call(d) ==
    /\ pump[d] = "outside"
    /\ \/ conn = "open" /\ UNCHANGED buffered
       \/ d = "write" /\ buffered > 0 /\ buffered' = buffered - 1
    /\ PumpAt(d, "lock")
    /\ UNCHANGED <<mutex, io, handle, event, conn, closer>>

\* Outside the device a pump ends when the conn fails or a frame is refused.
PumpEnds(d) ==
    /\ pump[d] = "outside"
    /\ PumpAt(d, "exited")
    /\ UNCHANGED <<mutex, io, handle, event, conn, buffered, closer>>

Lock(d) ==
    /\ pump[d] = "lock" /\ mutex[d] = "free"
    /\ mutex' = [mutex EXCEPT ![d] = "pump"]
    /\ PumpAt(d, "reset")
    /\ UNCHANGED <<io, handle, event, conn, buffered, closer>>

ResetEventUnchecked(d) ==
    /\ pump[d] = "reset"
    /\ PumpAt(d, "start")
    /\ UNCHANGED <<mutex, io, handle, event, conn, buffered, closer>>

\* ResetEvent fails once close() has cleared HEvent: the pump unlocks, reports
\* the error and ends.
ResetEvent(d) ==
    /\ pump[d] = "reset"
    /\ IF event[d] = "open"
         THEN PumpAt(d, "start") /\ UNCHANGED mutex
         ELSE PumpAt(d, "exited") /\ mutex' = [mutex EXCEPT ![d] = "free"]
    /\ UNCHANGED <<io, handle, event, conn, buffered, closer>>

\* ReadFile or WriteFile: the request pends, or completes at once.
Start(d) ==
    /\ pump[d] = "start"
    /\ \E outcome \in {"inflight", "done"} : io' = [io EXCEPT ![d] = outcome]
    /\ PumpAt(d, "await")
    /\ UNCHANGED <<mutex, handle, event, conn, buffered, closer>>

\* GetOverlappedResult returns, and the pump leaves the device with its result.
Await(d) ==
    /\ pump[d] = "await" /\ io[d] \in {"done", "aborted"}
    /\ PumpAt(d, IF io[d] = "aborted" THEN "exited" ELSE "outside")
    /\ io' = [io EXCEPT ![d] = "none"]
    /\ mutex' = [mutex EXCEPT ![d] = "free"]
    /\ UNCHANGED <<handle, event, conn, buffered, closer>>

\* External: the driver completes a request.  A read needs a frame from the host.
Complete(d) ==
    /\ io[d] = "inflight"
    /\ io' = [io EXCEPT ![d] = "done"]
    /\ UNCHANGED <<pump, mutex, handle, event, conn, buffered, closer>>

----------------------------------------------------------------------------
(***************************************************************************)
(* The end of runSession: conn.Close, then device.Close.                   *)
(***************************************************************************)
SessionEndsKeepsConn ==
    /\ closer = "uncalled"
    /\ closer' = "cancel"
    /\ UNCHANGED <<pump, mutex, io, handle, event, conn, buffered>>

SessionEnds ==
    /\ closer = "uncalled"
    /\ conn' = "closed"
    /\ buffered' \in 0 .. MaxBuffered
    /\ closer' = "cancel"
    /\ UNCHANGED <<pump, mutex, io, handle, event>>

\* CancelIoEx aborts what is in flight at this moment, and nothing later.
Cancel ==
    /\ closer = "cancel"
    /\ io' = [d \in Directions |-> IF io[d] = "inflight" THEN "aborted" ELSE io[d]]
    /\ closer' = "lockRead"
    /\ UNCHANGED <<pump, mutex, handle, event, conn, buffered>>

LockRead ==
    /\ closer = "lockRead" /\ mutex["read"] = "free"
    /\ mutex' = [mutex EXCEPT !["read"] = "close"]
    /\ closer' = "lockWrite"
    /\ UNCHANGED <<pump, io, handle, event, conn, buffered>>

LockWrite ==
    /\ closer = "lockWrite" /\ mutex["write"] = "free"
    /\ mutex' = [mutex EXCEPT !["write"] = "close"]
    /\ closer' = "close"
    /\ UNCHANGED <<pump, io, handle, event, conn, buffered>>

\* CloseHandle, both operation.close, and the deferred unlocks; with both
\* mutexes held no pump can tell these apart.
CloseHandle ==
    /\ closer = "close"
    /\ handle' = "closed"
    /\ event' = [d \in Directions |-> "closed"]
    /\ mutex' = [d \in Directions |-> IF mutex[d] = "close" THEN "free" ELSE mutex[d]]
    /\ closer' = "returned"
    /\ UNCHANGED <<pump, io, conn, buffered>>

----------------------------------------------------------------------------
PumpStep(d) == Lock(d) \/ ResetEvent(d) \/ Start(d) \/ Await(d)
CloseStep == Cancel \/ LockRead \/ LockWrite \/ CloseHandle

Next ==
    \/ \E d \in Directions : Call(d) \/ PumpEnds(d) \/ PumpStep(d) \/ Complete(d)
    \/ SessionEnds
    \/ CloseStep

Spec == Init /\ [][Next]_vars

\* Goroutines that can run do, a pump outside the device comes back or ends
\* once the conn is closed, and the driver completes every write.  Nothing
\* makes the host transmit.
Fairness ==
    /\ \A d \in Directions : WF_vars(PumpStep(d))
    /\ \A d \in Directions : WF_vars(conn = "closed" /\ (Call(d) \/ PumpEnds(d)))
    /\ WF_vars(CloseStep)
    /\ WF_vars(Complete("write"))

FairSpec == Spec /\ Fairness

\* The same on a host that keeps transmitting.
BusyHostSpec == FairSpec /\ WF_vars(Complete("read"))

----------------------------------------------------------------------------
(***************************************************************************)
(* Properties.                                                             *)
(***************************************************************************)

(* No request is started or in flight on a handle or an event that Close    *)
(* has closed, wherever the pumps are when the session ends.                *)
NoUseAfterClose ==
    \A d \in Directions :
        pump[d] \in {"start", "await"} => handle = "open" /\ event[d] = "open"

(* The OVERLAPPED of a direction is reused only after its request is over:  *)
(* whoever holds the mutex is alone with it, and Close closes nothing while *)
(* the driver still owns a request.                                         *)
OneRequestPerDirection ==
    /\ \A d \in Directions : mutex[d] = "pump" <=> pump[d] \in {"reset", "start", "await"}
    /\ \A d \in Directions : io[d] # "none" => pump[d] = "await"
    /\ closer = "close" => \A d \in Directions : io[d] = "none"

(* Close returns: the comment on CancelIoEx says that it "releases the      *)
(* pump", even on a machine that never transmits.                           *)
CloseReturns == closer = "cancel" ~> closer = "returned"

(* After the session's end both pumps end and the device is closed: no      *)
(* goroutine of an old session keeps the adapter.                           *)
PumpsEnd ==
    closer = "cancel" ~> (closer = "returned" /\ \A d \in Directions : pump[d] = "exited")
=============================================================================
