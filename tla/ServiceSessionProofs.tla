------------------------ MODULE ServiceSessionProofs ------------------------
(***************************************************************************)
(* Proofs about the client's sessions and the daemon around them, for any  *)
(* number of sessions whose goroutines outlive them and on both platforms, *)
(* with any delays of the back-off; and about the Windows TAP device whose *)
(* Read, Write and Close a session calls (Tap), for any number of requests.*)
(***************************************************************************)
EXTENDS ServiceSession, MCTap, PowersProofs

(***************************************************************************)
(* The inductive invariant.                                                *)
(***************************************************************************)
\* The types, but for the history variable failures.
Typed ==
    /\ platform \in {"linux", "windows"}
    /\ cancelled \in BOOLEAN
    /\ run \in InSession \cup {"loop", "open", "ended", "delay", "returned"}
    /\ cur \in Slots \cup {None}
    /\ device \in Slots \cup {None}
    /\ conn \in [Slots -> {"none", "open", "closed"}]
    /\ pump \in [Slots -> [Pumps -> {"off", "running", "sending", "exited"}]]
    /\ errCh \in [Slots -> 0 .. ErrChCap]
    /\ handler \in Handlers
    /\ done \in 0 .. doneCap

\* There is a current session from the top of the loop until Run has noted its
\* end, and its pumps start after authenticate.
CurInv ==
    /\ run \in {"loop", "delay", "returned"} <=> cur = None
    /\ run \in {"open", "dial", "auth"} => \A k \in Pumps : pump[cur][k] = "off"

\* Each error in the channel is one that an exited pump sent.
Exited(s, k) == IF pump[s][k] = "exited" THEN 1 ELSE 0
ErrInv ==
    \A s \in Slots :
        errCh[s] <= Exited(s, "tap") + Exited(s, "relay") + Exited(s, "ping")

\* The session that is in progress has the device; another one has it only
\* while its tapToWebSocket sits in a Read that Close did not interrupt.
DeviceInv ==
    /\ run \in InSession => device = cur
    /\ run = "open" => device # cur
    /\ device # None /\ run \notin InSession =>
          pump[device]["tap"] = "running" /\ ~CloseInterrupts

\* Only the session in progress has an open conn, from dial to close.
ConnInv ==
    \A s \in Slots : conn[s] = "open" => cur = s /\ run \in {"auth", "pumping", "closeConn"}

\* Run returns because it was told to, and before the daemon does.
ReturnInv ==
    /\ run = "returned" => cancelled
    /\ done > 0 \/ handler = "returned" => run = "returned"

SInv == Typed /\ CurInv /\ ErrInv /\ DeviceInv /\ ConnInv /\ ReturnInv

(* A client that was not started satisfies the invariant.                   *)
LEMMA InitSInv == ServiceInit => SInv
  <1> SUFFICES ASSUME ServiceInit PROVE SInv
    OBVIOUS
  <1>1. Typed
    <2>1. handler \in Handlers
      BY DEF ServiceInit, Handlers
    <2>2. platform \in {"linux", "windows"}
      BY PlatformAssumption DEF ServiceInit, Init
    <2>3. /\ pump \in [Slots -> [Pumps -> {"off", "running", "sending", "exited"}]]
          /\ conn \in [Slots -> {"none", "open", "closed"}]
      BY DEF ServiceInit, Init
    <2>4. errCh \in [Slots -> 0 .. ErrChCap] /\ done \in 0 .. doneCap
      BY DEF ServiceInit, Init, ErrChCap, doneCap
    <2>5. cancelled \in BOOLEAN /\ run = "loop" /\ cur = None /\ device = None
      BY DEF ServiceInit, Init
    <2> QED
      BY <2>1, <2>2, <2>3, <2>4, <2>5 DEF Typed
  <1>2. CurInv /\ DeviceInv /\ ConnInv /\ ReturnInv
    BY DEF ServiceInit, Init, CurInv, DeviceInv, ConnInv, ReturnInv, InSession
  <1>3. ErrInv
    <2>1. ASSUME NEW s \in Slots, NEW k \in Pumps PROVE errCh[s] = 0 /\ Exited(s, k) = 0
      BY DEF ServiceInit, Init, Exited
    <2> QED
      BY <2>1 DEF ErrInv, Pumps
  <1> QED
    BY <1>1, <1>2, <1>3 DEF SInv

(* Run begins a session, notes its end, or waits.                           *)
LEMMA LoopSInv ==
    ASSUME SInv, LoopTop \/ Ended \/ Delay, UNCHANGED <<svcVars, platform>>
    PROVE  SInv'
  <1> USE SlotsAssumption DEF InSession, Pumps
  <1>0. /\ handler' = handler /\ done' = done /\ platform' = platform
        /\ Typed /\ CurInv /\ ErrInv /\ DeviceInv /\ ConnInv /\ ReturnInv
    BY DEF svcVars, SInv
  <1>1. CASE LoopTop /\ cancelled /\ run' = "returned" /\ UNCHANGED <<cur, conn, pump, errCh>>
    BY <1>0, <1>1 DEF LoopTop, SInv, Typed, CurInv, ErrInv, Exited, DeviceInv, ConnInv, ReturnInv,
                      CloseInterrupts
  <1>2. ASSUME LoopTop, ~cancelled, run' = "open",
               NEW s \in Slots, Gone(s), device # s, cur' = s,
               conn' = [conn EXCEPT ![s] = "none"],
               pump' = [pump EXCEPT ![s] = [k \in Pumps |-> "off"]],
               errCh' = [errCh EXCEPT ![s] = 0]
        PROVE  SInv'
    <2>1. run = "loop" /\ cancelled' = cancelled /\ device' = device
      BY <1>2 DEF LoopTop
    <2>2. /\ conn'[s] = "none" /\ pump'[s] = [k \in Pumps |-> "off"] /\ errCh'[s] = 0
          /\ \A r \in Slots : r # s => conn'[r] = conn[r] /\ pump'[r] = pump[r]
                                            /\ errCh'[r] = errCh[r]
      BY <1>0, <1>2 DEF Typed
    <2>3. Typed'
      BY <1>0, <1>2, <2>1 DEF Typed, ErrChCap
    <2>4. CurInv' /\ ReturnInv'
      BY <1>0, <1>2, <2>1, <2>2 DEF CurInv, ReturnInv
    <2>5. DeviceInv'
      BY <1>0, <1>2, <2>1, <2>2 DEF Typed, DeviceInv, CloseInterrupts
    <2>6. ConnInv'
      BY <1>0, <1>2, <2>1, <2>2 DEF ConnInv
    <2>7. ErrInv'
      <3> SUFFICES ASSUME NEW r \in Slots
                   PROVE  errCh'[r] <= Exited(r, "tap")' + Exited(r, "relay")' + Exited(r, "ping")'
        BY DEF ErrInv
      <3>1. CASE r = s
        BY <2>2, <3>1 DEF Exited
      <3>2. CASE r # s
        BY <1>0, <2>2, <3>2 DEF ErrInv, Exited
      <3> QED
        BY <3>1, <3>2
    <2> QED
      BY <2>3, <2>4, <2>5, <2>6, <2>7 DEF SInv
  <1>3. CASE Ended
    BY <1>0, <1>3 DEF Ended, SInv, Typed, CurInv, ErrInv, Exited, DeviceInv, ConnInv, ReturnInv,
                      CloseInterrupts
  <1>4. CASE Delay
    <2>1. /\ run = "delay" /\ run' \in {"loop", "returned"} /\ (run' = "returned" => cancelled)
          /\ cancelled' = cancelled /\ cur' = cur /\ device' = device /\ conn' = conn
          /\ pump' = pump /\ errCh' = errCh
      BY <1>4 DEF Delay
    <2> QED
      BY <1>0, <2>1 DEF SInv, Typed, CurInv, ErrInv, Exited, DeviceInv, ConnInv, ReturnInv,
                        CloseInterrupts
  <1> QED
    BY <1>1, <1>2, <1>3, <1>4 DEF LoopTop


(* runSession: every step to the pumps and through the deferred closes.     *)
LEMMA SessionSInv ==
    ASSUME SInv, SessionStep, UNCHANGED <<svcVars, platform>>
    PROVE  SInv'
  <1> USE SlotsAssumption DEF InSession, Pumps
  <1>0. /\ handler' = handler /\ done' = done /\ platform' = platform
        /\ Typed /\ CurInv /\ ErrInv /\ DeviceInv /\ ConnInv /\ ReturnInv
    BY DEF svcVars, SInv
  <1>1. CASE OpenDevice \/ OpenFails \/ DialFails \/ AuthFails
    BY <1>0, <1>1
    DEF OpenDevice, OpenFails, DialFails, AuthFails, loopVars,
        SInv, Typed, CurInv, ErrInv, Exited, DeviceInv, ConnInv, ReturnInv, CloseInterrupts
  <1>2. CASE DialOK
    BY <1>0, <1>2
    DEF DialOK, loopVars,
        SInv, Typed, CurInv, ErrInv, Exited, DeviceInv, ConnInv, ReturnInv, CloseInterrupts
  <1>3. CASE AuthOK
    <2>1. /\ run = "auth" /\ run' = "pumping" /\ cur' = cur /\ cancelled' = cancelled
          /\ device' = device /\ conn' = conn /\ errCh' = errCh /\ cur \in Slots
          /\ pump' = [pump EXCEPT ![cur] = [k \in Pumps |-> "running"]]
      BY <1>0, <1>3 DEF AuthOK, loopVars, Typed, CurInv
    <2>2. Typed' /\ CurInv' /\ DeviceInv' /\ ConnInv' /\ ReturnInv'
      BY <1>0, <2>1 DEF Typed, CurInv, DeviceInv, ConnInv, ReturnInv
    <2>3. ErrInv'
      <3> SUFFICES ASSUME NEW r \in Slots
                   PROVE  errCh[r] <= Exited(r, "tap")' + Exited(r, "relay")' + Exited(r, "ping")'
        BY <2>1 DEF ErrInv
      <3>1. CASE r = cur
        <4>1. errCh[r] <= 0
          BY <1>0, <2>1, <3>1 DEF CurInv, ErrInv, Exited
        <4>2. Exited(r, "tap")' = 0 /\ Exited(r, "relay")' = 0 /\ Exited(r, "ping")' = 0
          BY <1>0, <2>1, <3>1 DEF Typed, Exited
        <4> QED
          BY <4>1, <4>2
      <3>2. CASE r # cur
        <4>1. pump'[r] = pump[r]
          BY <1>0, <2>1, <3>2 DEF Typed
        <4> QED
          BY <1>0, <4>1 DEF ErrInv, Exited
      <3> QED
        BY <3>1, <3>2
    <2> QED
      BY <2>2, <2>3 DEF SInv
  <1>4. CASE SessionEnds
    <2>1. /\ run = "pumping" /\ run' = "closeConn" /\ cur' = cur /\ cancelled' = cancelled
          /\ device' = device /\ conn' = conn /\ pump' = pump /\ cur \in Slots
      BY <1>0, <1>4 DEF SessionEnds, loopVars, Typed, CurInv
    <2>2. /\ errCh' \in [Slots -> 0 .. ErrChCap]
          /\ \A r \in Slots : errCh'[r] <= errCh[r]
      <3>1. CASE errCh' = errCh
        BY <1>0, <3>1 DEF Typed, ErrChCap
      <3>2. CASE errCh[cur] > 0 /\ errCh' = [errCh EXCEPT ![cur] = @ - 1]
        BY <1>0, <2>1, <3>2 DEF Typed, ErrChCap
      <3> QED
        BY <1>4, <3>1, <3>2 DEF SessionEnds
    <2>3. Typed' /\ CurInv' /\ DeviceInv' /\ ConnInv' /\ ReturnInv'
      BY <1>0, <2>1, <2>2 DEF Typed, CurInv, DeviceInv, ConnInv, ReturnInv
    <2>4. ErrInv'
      <3> SUFFICES ASSUME NEW r \in Slots
                   PROVE  errCh'[r] <= Exited(r, "tap") + Exited(r, "relay") + Exited(r, "ping")
        BY <2>1 DEF ErrInv, Exited
      <3>1. /\ errCh[r] <= Exited(r, "tap") + Exited(r, "relay") + Exited(r, "ping")
            /\ errCh[r] \in Nat /\ errCh'[r] \in Nat /\ errCh'[r] <= errCh[r]
        BY <1>0, <2>2 DEF ErrInv, Typed, ErrChCap
      <3>2. Exited(r, "tap") \in Nat /\ Exited(r, "relay") \in Nat /\ Exited(r, "ping") \in Nat
        BY DEF Exited
      <3> QED
        BY <3>1, <3>2
    <2> QED
      BY <2>3, <2>4 DEF SInv
  <1>5. CASE CloseConn
    BY <1>0, <1>5
    DEF CloseConn, loopVars,
        SInv, Typed, CurInv, ErrInv, Exited, DeviceInv, ConnInv, ReturnInv, CloseInterrupts
  <1>6. CASE CloseDevice
    BY <1>0, <1>6
    DEF CloseDevice, loopVars,
        SInv, Typed, CurInv, ErrInv, Exited, DeviceInv, ConnInv, ReturnInv, CloseInterrupts
  <1> QED
    BY <1>1, <1>2, <1>3, <1>4, <1>5, <1>6 DEF SessionStep

(* A pump fails, in the current session or long after its own: a Read that  *)
(* kept a closed device attached lets go of it.                             *)
LEMMA PumpFailsSInv ==
    ASSUME SInv, NEW s \in Slots, NEW k \in Pumps, PumpFails(s, k), UNCHANGED <<svcVars, platform>>
    PROVE  SInv'
  <1> USE SlotsAssumption DEF InSession, Pumps
  <1>0. /\ handler' = handler /\ done' = done /\ platform' = platform
        /\ Typed /\ CurInv /\ ErrInv /\ DeviceInv /\ ConnInv /\ ReturnInv
    BY DEF svcVars, SInv
  <1>1. /\ pump[s][k] = "running" /\ pump' = [pump EXCEPT ![s][k] = "sending"]
        /\ device' = IF k = "tap" /\ device = s /\ DeviceClosed(s) THEN None ELSE device
        /\ run' = run /\ cur' = cur /\ cancelled' = cancelled /\ conn' = conn /\ errCh' = errCh
    BY DEF PumpFails, loopVars
  <1>2. /\ pump'[s][k] = "sending" /\ \A j \in Pumps : j # k => pump'[s][j] = pump[s][j]
        /\ \A r \in Slots : r # s => pump'[r] = pump[r]
    BY <1>0, <1>1 DEF Typed
  <1>3. Typed'
    BY <1>0, <1>1 DEF Typed
  <1>4. CurInv'
    <2>1. run \in {"open", "dial", "auth"} => s # cur
      BY <1>0, <1>1 DEF CurInv
    <2> QED
      BY <1>0, <1>1, <1>2, <2>1 DEF Typed, CurInv
  <1>5. ErrInv'
    <2> SUFFICES ASSUME NEW r \in Slots
                 PROVE  errCh[r] <= Exited(r, "tap")' + Exited(r, "relay")' + Exited(r, "ping")'
      BY <1>1 DEF ErrInv
    <2>1. ASSUME NEW j \in Pumps PROVE Exited(r, j)' = Exited(r, j)
      BY <1>1, <1>2 DEF Exited
    <2> QED
      BY <1>0, <2>1 DEF ErrInv
  <1>6. DeviceInv'
    BY <1>0, <1>1, <1>2 DEF Typed, CurInv, DeviceInv, DeviceClosed, CloseInterrupts
  <1>7. ConnInv' /\ ReturnInv'
    BY <1>0, <1>1 DEF ConnInv, ReturnInv
  <1> QED
    BY <1>3, <1>4, <1>5, <1>6, <1>7 DEF SInv

(* A pump hands its error to the channel and is gone.                       *)
LEMMA PumpReportsSInv ==
    ASSUME SInv, NEW s \in Slots, NEW k \in Pumps, PumpReports(s, k), UNCHANGED <<svcVars, platform>>
    PROVE  SInv'
  <1> USE SlotsAssumption DEF InSession, Pumps
  <1>0. /\ handler' = handler /\ done' = done /\ platform' = platform
        /\ Typed /\ CurInv /\ ErrInv /\ DeviceInv /\ ConnInv /\ ReturnInv
    BY DEF svcVars, SInv
  <1>1. /\ pump[s][k] = "sending" /\ errCh[s] < ErrChCap
        /\ errCh' = [errCh EXCEPT ![s] = @ + 1] /\ pump' = [pump EXCEPT ![s][k] = "exited"]
        /\ run' = run /\ cur' = cur /\ cancelled' = cancelled /\ conn' = conn /\ device' = device
    BY DEF PumpReports, loopVars
  <1>2. /\ pump'[s][k] = "exited" /\ \A j \in Pumps : j # k => pump'[s][j] = pump[s][j]
        /\ \A r \in Slots : r # s => pump'[r] = pump[r] /\ errCh'[r] = errCh[r]
        /\ errCh'[s] = errCh[s] + 1 /\ errCh[s] \in Nat
    BY <1>0, <1>1 DEF Typed, ErrChCap
  <1>3. Typed'
    <2>1. errCh' \in [Slots -> 0 .. ErrChCap]
      BY <1>0, <1>1 DEF Typed, ErrChCap
    <2>2. pump' \in [Slots -> [Pumps -> {"off", "running", "sending", "exited"}]]
      BY <1>0, <1>1 DEF Typed
    <2> QED
      BY <1>0, <1>1, <2>1, <2>2 DEF Typed
  <1>4. CurInv'
    <2>1. run \in {"open", "dial", "auth"} => s # cur
      BY <1>0, <1>1 DEF CurInv
    <2> QED
      BY <1>0, <1>1, <1>2, <2>1 DEF Typed, CurInv
  <1>5. ErrInv'
    <2> SUFFICES ASSUME NEW r \in Slots
                 PROVE  errCh'[r] <= Exited(r, "tap")' + Exited(r, "relay")' + Exited(r, "ping")'
      BY DEF ErrInv
    <2>1. CASE r = s
      <3>1. Exited(s, k) = 0 /\ Exited(s, k)' = 1
        BY <1>1, <1>2 DEF Exited
      <3>2. ASSUME NEW j \in Pumps, j # k PROVE Exited(s, j)' = Exited(s, j)
        BY <1>2, <3>2 DEF Exited
      <3>3. \A j \in Pumps : Exited(s, j) \in Nat
        BY DEF Exited
      <3>4. errCh[s] <= Exited(s, "tap") + Exited(s, "relay") + Exited(s, "ping")
        BY <1>0 DEF ErrInv
      <3> QED
        BY <1>2, <2>1, <3>1, <3>2, <3>3, <3>4
    <2>2. CASE r # s
      <3>1. ASSUME NEW j \in Pumps PROVE Exited(r, j)' = Exited(r, j)
        BY <1>2, <2>2 DEF Exited
      <3> QED
        BY <1>0, <1>2, <2>2, <3>1 DEF ErrInv
    <2> QED
      BY <2>1, <2>2
  <1>6. DeviceInv'
    BY <1>0, <1>1, <1>2 DEF Typed, DeviceInv, CloseInterrupts
  <1>7. ConnInv' /\ ReturnInv'
    BY <1>0, <1>1 DEF ConnInv, ReturnInv
  <1> QED
    BY <1>3, <1>4, <1>5, <1>6, <1>7 DEF SInv

(* The daemon: signals, the service's requests and the channel done.        *)
LEMMA HandlerSInv ==
    ASSUME SInv, HandlerStep \/ SignalArrives \/ StopRequest \/ RunDone, UNCHANGED platform
    PROVE  SInv'
  <1>0. Typed /\ CurInv /\ ErrInv /\ DeviceInv /\ ConnInv /\ ReturnInv
    BY DEF SInv
  <1>1. /\ run' = run /\ cur' = cur /\ device' = device /\ conn' = conn /\ pump' = pump
        /\ errCh' = errCh /\ (cancelled' = cancelled \/ cancelled' = TRUE)
    BY DEF HandlerStep, RunReturns, SendStartPending, Launch, CancelRun, ReceiveDone,
           SignalArrives, StopRequest, RunDone, Cancel, vars
  <1>2. handler' \in Handlers /\ done' \in 0 .. doneCap /\ ReturnInv'
    BY <1>0, <1>1
    DEF HandlerStep, RunReturns, SendStartPending, Launch, CancelRun, ReceiveDone,
        SignalArrives, StopRequest, RunDone, svcVars, Typed, ReturnInv, Handlers, doneCap
  <1>3. Typed'
    BY <1>0, <1>1, <1>2 DEF Typed
  <1>4. CurInv' /\ ErrInv' /\ DeviceInv' /\ ConnInv'
    BY <1>0, <1>1 DEF CurInv, ErrInv, Exited, DeviceInv, ConnInv, CloseInterrupts
  <1> QED
    BY <1>2, <1>3, <1>4 DEF SInv

(* Every step keeps the invariant.                                          *)
LEMMA NextSInv == SInv /\ [ServiceNext]_allVars => SInv'
  <1> SUFFICES ASSUME SInv, [ServiceNext]_allVars PROVE SInv'
    OBVIOUS
  <1>1. ASSUME BecomesHealthy, UNCHANGED <<svcVars, platform>> PROVE SInv'
    BY <1>1
    DEF BecomesHealthy, svcVars, SInv, Typed, CurInv, ErrInv, Exited, DeviceInv, ConnInv,
        ReturnInv, CloseInterrupts
  <1>2. CASE UNCHANGED allVars
    BY <1>2
    DEF allVars, vars, svcVars, SInv, Typed, CurInv, ErrInv, Exited, DeviceInv, ConnInv,
        ReturnInv, CloseInterrupts
  <1>3. ASSUME ClientStep, UNCHANGED <<svcVars, platform>> PROVE SInv'
    BY <1>1, <1>3, LoopSInv, SessionSInv, PumpFailsSInv, PumpReportsSInv DEF ClientStep, RunStep
  <1>4. CASE ServiceNext
    BY <1>3, <1>4, HandlerSInv DEF ServiceNext
  <1> QED
    BY <1>2, <1>4

----------------------------------------------------------------------------
(***************************************************************************)
(* Theorems.                                                               *)
(***************************************************************************)
(* The invariant holds in every behaviour.                                  *)
THEOREM Sessions == ServiceSpec => []SInv
  BY InitSInv, NextSInv, PTL DEF ServiceSpec

(***************************************************************************)
(* The back-off.  Wherever Run stands, the next delay is the one for the    *)
(* failures so far; a run that was cancelled does not reset it any more.    *)
(***************************************************************************)
DelayAfter(n) == IF Pow2[n] < maximumBackoff THEN Pow2[n] ELSE maximumBackoff

BackoffInv ==
    /\ failures \in 0 .. maximumBackoff
    /\ backoff \in minimumBackoff .. maximumBackoff
    /\ run # "returned" => backoff = DelayAfter(failures)

(* The first delay is the shortest.                                         *)
LEMMA InitBackoff == ServiceInit => BackoffInv
  BY BackoffAssumption, Pow2Facts
  DEF ServiceInit, Init, BackoffInv, DelayAfter, minimumBackoff

(* A failure doubles the delay or leaves it at the maximum, a healthy       *)
(* session starts it again, and nothing else touches it.                    *)
LEMMA NextBackoff == BackoffInv /\ [ServiceNext]_allVars => BackoffInv'
  <1> SUFFICES ASSUME BackoffInv, [ServiceNext]_allVars PROVE BackoffInv'
    OBVIOUS
  <1> USE BackoffAssumption
  <1>1. Pow2[0] = 1 /\ Pow2[failures] \in Nat /\ Pow2[failures] > failures
        /\ Pow2[failures + 1] = 2 * Pow2[failures]
    BY Pow2Facts, Pow2Exceeds DEF BackoffInv
  <1>2. CASE Ended
    BY <1>1, <1>2 DEF Ended, BackoffInv, DelayAfter, minimumBackoff
  <1>3. CASE Delay
    <2>1. CASE cancelled /\ run' = "returned" /\ UNCHANGED <<backoff, failures>>
      BY <2>1 DEF BackoffInv
    <2>2. CASE /\ run = "delay" /\ run' = "loop"
               /\ backoff' = LET doubled == IF backoff < maximumBackoff THEN 2 * backoff
                                                                        ELSE backoff
                             IN IF doubled > maximumBackoff THEN maximumBackoff ELSE doubled
               /\ failures' = IF Pow2[failures] < maximumBackoff THEN failures + 1 ELSE failures
      <3>1. backoff = DelayAfter(failures) /\ failures \in Nat
        BY <2>2 DEF BackoffInv
      <3>2. CASE Pow2[failures] < maximumBackoff
        BY <1>1, <2>2, <3>1, <3>2 DEF BackoffInv, DelayAfter, minimumBackoff
      <3>3. CASE ~(Pow2[failures] < maximumBackoff)
        BY <1>1, <2>2, <3>1, <3>3 DEF BackoffInv, DelayAfter, minimumBackoff
      <3> QED
        BY <3>2, <3>3
    <2> QED
      BY <1>3, <2>1, <2>2 DEF Delay
  <1>4. CASE LoopTop
    BY <1>4 DEF LoopTop, BackoffInv, DelayAfter
  <1>5. CASE SessionStep
    BY <1>5 DEF SessionStep, loopVars, OpenDevice, OpenFails, DialOK, DialFails, AuthOK, AuthFails,
                SessionEnds, CloseConn, CloseDevice, BackoffInv, DelayAfter
  <1>6. ASSUME NEW s \in Slots, NEW k \in Pumps, PumpFails(s, k) \/ PumpReports(s, k)
        PROVE  BackoffInv'
    BY <1>6 DEF PumpFails, PumpReports, loopVars, BackoffInv, DelayAfter
  <1>7. CASE BecomesHealthy
    BY <1>7 DEF BecomesHealthy, BackoffInv, DelayAfter
  <1>8. CASE HandlerStep \/ SignalArrives \/ StopRequest \/ RunDone
    BY <1>8 DEF HandlerStep, SignalArrives, StopRequest, RunDone, RunReturns, SendStartPending, Launch,
                CancelRun, ReceiveDone, Cancel, vars, BackoffInv, DelayAfter
  <1>9. CASE UNCHANGED allVars
    BY <1>9 DEF allVars, vars, BackoffInv, DelayAfter
  <1> QED
    BY <1>2, <1>3, <1>4, <1>5, <1>6, <1>7, <1>8, <1>9 DEF ServiceNext, ClientStep, RunStep

(* Reconnects are delayed by 1, 2, 4, ... seconds up to the maximum, for    *)
(* any maximum, counted from the last session that was healthy.             *)
THEOREM BackoffDoubles == ServiceSpec => []BackoffFollowsFailures
  <1>1. BackoffInv => BackoffFollowsFailures
    BY DEF BackoffInv, BackoffFollowsFailures, DelayAfter
  <1> QED
    BY <1>1, InitBackoff, NextBackoff, PTL DEF ServiceSpec

\* What Typed and BackoffInv do not type.
FlagsTyped == platform \in Platforms /\ healthy \in BOOLEAN /\ status \in Statuses

(* The flags of Run and the status of the service are typed.                *)
LEMMA NextFlags == FlagsTyped /\ [ServiceNext]_allVars => FlagsTyped'
  <1> SUFFICES ASSUME FlagsTyped, [ServiceNext]_allVars PROVE FlagsTyped'
    OBVIOUS
  <1>1. platform' = platform
    BY DEF ServiceNext, allVars
  <1>2. healthy' \in BOOLEAN
    <2>1. CASE Launched /\ ClientStep
      <3>1. CASE LoopTop \/ BecomesHealthy
        BY <3>1 DEF LoopTop, BecomesHealthy
      <3>2. CASE Ended \/ Delay \/ SessionStep
        BY <3>2 DEF Ended, Delay, SessionStep, loopVars, OpenDevice, OpenFails, DialOK, DialFails,
                    AuthOK, AuthFails, SessionEnds, CloseConn, CloseDevice, FlagsTyped
      <3>3. ASSUME NEW s \in Slots, NEW k \in Pumps, PumpFails(s, k) \/ PumpReports(s, k)
            PROVE  healthy' \in BOOLEAN
        BY <3>3 DEF PumpFails, PumpReports, loopVars, FlagsTyped
      <3> QED
        BY <2>1, <3>1, <3>2, <3>3 DEF ClientStep, RunStep
    <2>2. CASE HandlerStep \/ SignalArrives \/ StopRequest \/ RunDone \/ UNCHANGED allVars
      BY <2>2 DEF HandlerStep, SignalArrives, StopRequest, RunDone, RunReturns, SendStartPending,
                  Launch, CancelRun, ReceiveDone, Cancel, vars, allVars, FlagsTyped
    <2> QED
      BY <2>1, <2>2 DEF ServiceNext
  <1>3. status' \in Statuses
    BY DEF ServiceNext, allVars, svcVars, HandlerStep, SignalArrives, StopRequest, RunDone, RunReturns,
           SendStartPending, Launch, CancelRun, ReceiveDone, FlagsTyped, Statuses
  <1> QED
    BY <1>1, <1>2, <1>3 DEF FlagsTyped

(* Every variable of the client and of the daemon keeps its type; the       *)
(* back-off stays within its limits.                                        *)
THEOREM ServiceTyped == ServiceSpec => []ServiceTypeOK
  <1>1. ServiceInit => FlagsTyped
    BY DEF ServiceInit, Init, FlagsTyped, Statuses
  <1>2. SInv /\ BackoffInv /\ FlagsTyped => ServiceTypeOK
    BY DEF SInv, Typed, BackoffInv, FlagsTyped, ServiceTypeOK, TypeOK
  <1> QED
    BY <1>1, <1>2, Sessions, InitBackoff, NextBackoff, NextFlags, PTL DEF ServiceSpec

(* The channel of three is enough: no pump waits on errCh, whichever of     *)
(* them fail and though runSession receives at most one of the errors.      *)
THEOREM ReportsFit == ServiceSpec => []ReportNeverBlocks
  <1>1. SInv => ReportNeverBlocks
    <2> SUFFICES ASSUME SInv, NEW s \in Slots, NEW k \in Pumps, pump[s][k] = "sending"
                 PROVE  errCh[s] < ErrChCap
      BY DEF ReportNeverBlocks
    <2>1. \A j \in Pumps : Exited(s, j) \in {0, 1}
      BY DEF Exited
    <2>2. Exited(s, k) = 0
      BY DEF Exited
    <2>3. /\ errCh[s] <= Exited(s, "tap") + Exited(s, "relay") + Exited(s, "ping")
          /\ errCh[s] \in Nat
      BY DEF SInv, ErrInv, Typed, ErrChCap
    <2> QED
      BY <2>1, <2>2, <2>3 DEF Pumps, ErrChCap
  <1> QED
    BY <1>1, Sessions, PTL

(* Every error path of runSession closes the device: outside a session only *)
(* a Read that Close cannot interrupt keeps it attached.                    *)
THEOREM NoDeviceLeak == ServiceSpec => []DeviceNotLeaked
  <1>1. SInv => DeviceNotLeaked
    BY DEF SInv, DeviceInv, DeviceNotLeaked
  <1> QED
    BY <1>1, Sessions, PTL

(* daemon.Run returns only after Run has, Run only when it was told to, and *)
(* nothing is left open then.                                               *)
THEOREM CleanStop == ServiceSpec => []StoppedIsClean
  <1>1. SInv => StoppedIsClean
    <2> SUFFICES ASSUME SInv PROVE StoppedIsClean
      OBVIOUS
    <2>1. run = "returned" => /\ cancelled /\ \A s \in Slots : conn[s] # "open"
                              /\ CloseInterrupts => device = None
      BY DEF SInv, ReturnInv, ConnInv, DeviceInv, InSession
    <2> QED
      BY <2>1 DEF SInv, ReturnInv, StoppedIsClean
  <1> QED
    BY <1>1, Sessions, PTL
----------------------------------------------------------------------------
(***************************************************************************)
(* The TAP device of a session on Windows, for any number of messages left *)
(* in the closed conn.                                                     *)
(* Close works its way through the mutexes and holds those it has taken;   *)
(* the handle and the events are open exactly until it returns.            *)
(***************************************************************************)
TapTyped ==
    /\ tapPump \in [Tap!Directions ->
                      {"outside", "lock", "reset", "start", "await", "exited"}]
    /\ mutex \in [Tap!Directions -> {"free", "pump", "close"}]
    /\ io \in [Tap!Directions -> {"none", "inflight", "done", "aborted"}]
    /\ event \in [Tap!Directions -> {"open", "closed"}]
    /\ handle \in {"open", "closed"}

CloserHolds ==
    /\ mutex["read"] = "close" <=> closer \in {"lockWrite", "close"}
    /\ mutex["write"] = "close" <=> closer = "close"

OpenUntilReturned ==
    /\ handle = "open" <=> closer # "returned"
    /\ \A d \in Tap!Directions : event[d] = "open" <=> closer # "returned"

TapInv ==
    /\ TapTyped /\ Tap!OneRequestPerDirection /\ CloserHolds
    /\ OpenUntilReturned /\ Tap!NoUseAfterClose

(* The device as tap.Open leaves it satisfies the invariant.                *)
LEMMA InitTapInv == Tap!Init => TapInv
  BY DEF Tap!Init, TapInv, TapTyped, Tap!OneRequestPerDirection, CloserHolds, OpenUntilReturned,
         Tap!NoUseAfterClose, Tap!Directions

(* Every step of a pump, of the driver and of Close preserves it.           *)
LEMMA NextTapInv == TapInv /\ [Tap!Next]_Tap!vars => TapInv'
  <1> SUFFICES ASSUME TapInv, [Tap!Next]_Tap!vars PROVE TapInv'
    OBVIOUS
  <1> USE DEF TapInv, TapTyped, Tap!OneRequestPerDirection, CloserHolds, OpenUntilReturned,
          Tap!NoUseAfterClose, Tap!Directions, Tap!PumpAt
  <1>1. ASSUME NEW d \in Tap!Directions, Tap!Call(d) PROVE TapInv'
    BY <1>1 DEF Tap!Call
  <1>2. ASSUME NEW d \in Tap!Directions, Tap!PumpEnds(d) PROVE TapInv'
    BY <1>2 DEF Tap!PumpEnds
  <1>3. ASSUME NEW d \in Tap!Directions, Tap!Lock(d) PROVE TapInv'
    BY <1>3 DEF Tap!Lock
  <1>4. ASSUME NEW d \in Tap!Directions, Tap!ResetEvent(d) PROVE TapInv'
    BY <1>4 DEF Tap!ResetEvent
  <1>5. ASSUME NEW d \in Tap!Directions, Tap!Start(d) PROVE TapInv'
    BY <1>5 DEF Tap!Start
  <1>6. ASSUME NEW d \in Tap!Directions, Tap!Await(d) PROVE TapInv'
    BY <1>6 DEF Tap!Await
  <1>7. ASSUME NEW d \in Tap!Directions, Tap!Complete(d) PROVE TapInv'
    BY <1>7 DEF Tap!Complete
  <1>8. CASE Tap!SessionEnds
    BY <1>8 DEF Tap!SessionEnds
  <1>9. CASE Tap!Cancel
    BY <1>9 DEF Tap!Cancel
  <1>10. CASE Tap!LockRead
    BY <1>10 DEF Tap!LockRead
  <1>11. CASE Tap!LockWrite
    BY <1>11 DEF Tap!LockWrite
  <1>12. CASE Tap!CloseHandle
    BY <1>12 DEF Tap!CloseHandle
  <1>13. CASE UNCHANGED Tap!vars
    BY <1>13 DEF Tap!vars
  <1> QED
    BY <1>1, <1>2, <1>3, <1>4, <1>5, <1>6, <1>7, <1>8, <1>9, <1>10, <1>11, <1>12, <1>13
    DEF Tap!Next, Tap!PumpStep, Tap!CloseStep

(* Whatever the pumps are doing when the session ends, no request is        *)
(* started or awaited on a handle or an event that Close has closed.        *)
THEOREM HandleOutlivesRequests == TapSpec => []NoUseAfterClose
  <1>1. TapInv => NoUseAfterClose
    BY DEF TapInv, NoUseAfterClose
  <1> QED
    BY <1>1, InitTapInv, NextTapInv, PTL DEF TapSpec, Tap!Spec
============================================================================
