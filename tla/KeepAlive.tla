----------------------------- MODULE KeepAlive ------------------------------
(***************************************************************************)
(* The timers of one authenticated session, at both ends: the read         *)
(* deadline of readLoop and the pings of writeLoop (internal/relay), the   *)
(* read deadline of runSession and webSocketToTap and the pings of          *)
(* pingLoop (internal/client).  Only pongs and frames push a read deadline  *)
(* back; a ping does not.  The WebSocket library (external) answers a ping  *)
(* from inside ReadMessage, and gives the answer up when a frame is being   *)
(* written at that moment.                                                  *)
(*                                                                          *)
(* Time is counted in units of 10 s, of which the code's periods and read   *)
(* deadlines are multiples; within a unit events come in any order.  A      *)
(* deadline or a ticker is the number of units it has left; Tick lets a     *)
(* unit pass once everything that was due has been done.                    *)
(***************************************************************************)
EXTENDS Naturals, Sequences

CONSTANTS
    Idles,       \* idle timeouts the relay may be configured with
    Delay,       \* longest time from the write of a message to its reading
    MaxSkips     \* how often select may prefer a frame to a ping that is due

IdlesAssumption == Idles \subseteq Nat \ {0}
DelayAssumption == Delay \in Nat
SkipsAssumption == MaxSkips \in Nat

\* The constants of the code, in units of 10 s.
MinimumPing == 1     \* 10 s, writeLoop
ClientPing  == 3     \* 30 s, pingLoop
ClientIdle  == 9     \* 90 s, runSession
WriteWait   == 1     \* 10 s, the deadline of a frame's write, both ends

Ends == {"relay", "client"}
Peer(e) == IF e = "relay" THEN "client" ELSE "relay"

VARIABLES
    idle,      \* peer.idle
    net,       \* the path between the two: "up", or "down" for good
    inbox,     \* per end, the messages on their way to it: kind and age
    end,       \* per end, "open" or why its session is over
    deadline,  \* per end, units until the read deadline
    ticker,    \* per end, units until the ticker fires
    due,       \* per end, a tick of the ticker waits to be served
    busy,      \* per end, units (plus one) the write of a frame has taken
    wrote,     \* per end, whether it has begun a frame in this unit of time
    skips      \* frames writeLoop took while a tick was waiting

vars == <<idle, net, inbox, end, deadline, ticker, due, busy, wrote, skips>>

PingEveryIdle == IF idle < MinimumPing THEN MinimumPing ELSE idle

\* writeLoop: a third of the idle timeout, but no less than 10 s.
PingEvery == IF idle \div 3 < MinimumPing THEN MinimumPing ELSE idle \div 3

Period(e)  == IF e = "relay" THEN PingEvery ELSE ClientPing
Timeout(e) == IF e = "relay" THEN idle ELSE ClientIdle

(* The type invariant. *)
TypeOK ==
    /\ idle \in Idles
    /\ net \in {"up", "down"}
    /\ inbox \in [Ends -> Seq([kind : {"ping", "pong", "frame"}, age : 0 .. Delay])]
    /\ end \in [Ends -> {"open", "read", "write", "ping", "eof"}]
    /\ deadline \in [Ends -> Nat] /\ ticker \in [Ends -> Nat]
    /\ \A e \in Ends : deadline[e] \in 0 .. Timeout(e) /\ ticker[e] \in 1 .. Period(e)
    /\ busy \in [Ends -> 0 .. WriteWait + 1]
    /\ due \in [Ends -> BOOLEAN]
    /\ wrote \in [Ends -> BOOLEAN]
    /\ skips \in 0 .. MaxSkips

\* AuthOK has been sent and read: both deadlines are set, both tickers start.
Init ==
    /\ idle \in Idles
    /\ net = "up"
    /\ inbox = [e \in Ends |-> <<>>]
    /\ end = [e \in Ends |-> "open"]
    /\ deadline = [e \in Ends |-> Timeout(e)]
    /\ ticker = [e \in Ends |-> Period(e)]
    /\ due = [e \in Ends |-> FALSE]
    /\ busy = [e \in Ends |-> 0]
    /\ wrote = [e \in Ends |-> FALSE]
    /\ skips = 0

----------------------------------------------------------------------------
(***************************************************************************)
(* What both ends do.                                                      *)
(***************************************************************************)

\* e writes a message; on a path that is down it goes nowhere.
Written(e, kind) ==
    IF net = "up"
      THEN [inbox EXCEPT ![Peer(e)] = Append(@, [kind |-> kind, age |-> 0])]
      ELSE inbox

Close(e, why) == end' = [end EXCEPT ![e] = why]

Ping(e) ==
    /\ end[e] = "open" /\ busy[e] = 0
    /\ due[e]
    /\ inbox' = Written(e, "ping")
    /\ due' = [due EXCEPT ![e] = FALSE]

\* The write of a frame begins.  Bound: one frame per direction and unit.
WriteFrame(e) ==
    /\ end[e] = "open" /\ busy[e] = 0
    /\ ~wrote[e]
    /\ wrote' = [wrote EXCEPT ![e] = TRUE]
    /\ busy' = [busy EXCEPT ![e] = 1]

FrameWritten(e) ==
    /\ end[e] = "open"
    /\ busy[e] > 0
    /\ inbox' = Written(e, "frame")
    /\ busy' = [busy EXCEPT ![e] = 0]
    /\ UNCHANGED <<idle, net, end, deadline, ticker, due, skips, wrote>>

\* The write deadline has passed.
WriteFails(e) ==
    /\ end[e] = "open"
    /\ busy[e] = WriteWait + 1
    /\ Close(e, "write")
    /\ UNCHANGED <<idle, net, inbox, deadline, ticker, due, busy, skips, wrote>>

\* ReadMessage takes the next message: a ping is answered in it and pushes
\* nothing back, a pong's handler and a frame set the read deadline anew.
Read(e) ==
    /\ end[e] = "open" /\ net = "up" /\ inbox[e] # <<>>
    /\ LET kind == Head(inbox[e]).kind
           rest == [inbox EXCEPT ![e] = Tail(@)] IN
         IF kind = "ping"
           THEN /\ inbox' = IF busy[e] = 0
                       THEN [rest EXCEPT ![Peer(e)] =
                                Append(@, [kind |-> "pong", age |-> 0])]
                       ELSE rest
                /\ UNCHANGED deadline
           ELSE /\ inbox' = rest
                /\ deadline' = [deadline EXCEPT ![e] = Timeout(e)]
    /\ UNCHANGED <<idle, net, end, ticker, due, busy, skips, wrote>>

\* The read deadline passes.
ReadDeadline(e) ==
    /\ end[e] = "open"
    /\ deadline[e] = 0
    /\ Close(e, "read")
    /\ UNCHANGED <<idle, net, inbox, deadline, ticker, due, busy, skips, wrote>>

\* The other end has closed and everything it sent has been read.
ReadEOF(e) ==
    /\ end[e] = "open" /\ net = "up" /\ inbox[e] = <<>>
    /\ end[Peer(e)] # "open"
    /\ Close(e, "eof")
    /\ UNCHANGED <<idle, net, inbox, deadline, ticker, due, busy, skips, wrote>>

----------------------------------------------------------------------------
(***************************************************************************)
(* The relay: readLoop, and writeLoop with its ticker and its queue.       *)
(***************************************************************************)
RelayRead == Read("relay") \/ ReadDeadline("relay") \/ ReadEOF("relay")

RelayWriteFrame ==
    /\ WriteFrame("relay")
    /\ due["relay"] => skips < MaxSkips
    /\ skips' = IF due["relay"] THEN skips + 1 ELSE 0
    /\ UNCHANGED <<idle, net, inbox, end, deadline, ticker, due>>

RelayPing ==
    /\ Ping("relay")
    /\ skips' = 0
    /\ UNCHANGED <<idle, net, end, deadline, ticker, busy, wrote>>

RelayWrite ==
    \/ RelayPing
    \/ RelayWriteFrame \/ FrameWritten("relay") \/ WriteFails("relay")

(***************************************************************************)
(* The client: webSocketToTap, tapToWebSocket and pingLoop.                *)
(***************************************************************************)
ClientReadForever == Read("client") \/ ReadEOF("client")

ClientRead == Read("client") \/ ReadDeadline("client") \/ ReadEOF("client")

ClientWriteFrame ==
    /\ WriteFrame("client")
    /\ UNCHANGED <<idle, net, inbox, end, deadline, ticker, due, skips>>

ClientWrite ==
    ClientWriteFrame \/ FrameWritten("client") \/ WriteFails("client")

ClientPings ==
    /\ Ping("client")
    /\ UNCHANGED <<idle, net, end, deadline, ticker, busy, skips, wrote>>

\* WriteControl has waited 5 s, half a unit, for tapToWebSocket to finish a
\* frame.
ClientPingFails ==
    /\ end["client"] = "open" /\ busy["client"] > 0
    /\ due["client"]
    /\ Close("client", "ping")
    /\ UNCHANGED <<idle, net, inbox, deadline, ticker, due, busy, skips, wrote>>

PingLoop == ClientPings \/ ClientPingFails

----------------------------------------------------------------------------
\* The path is lost without either end being told, with all that is on it.
NetDown ==
    /\ net = "up"
    /\ net' = "down"
    /\ inbox' = [e \in Ends |-> <<>>]
    /\ UNCHANGED <<idle, end, deadline, ticker, due, busy, skips, wrote>>

\* e has something to do before more time may pass: read a message that has
\* been under way for Delay, notice an expired deadline or a closed conn, send
\* a ping that no write holds up, or give up a write or, the client, a ping.
Late(e) ==
    \/ \E i \in DOMAIN inbox[e] : inbox[e][i].age = Delay
    \/ deadline[e] = 0
    \/ due[e] /\ (busy[e] = 0 \/ e = "client")
    \/ busy[e] = WriteWait + 1
    \/ net = "up" /\ inbox[e] = <<>> /\ end[Peer(e)] # "open"

\* A unit of time passes.  A ticker that fires starts its next period at
\* once and keeps at most one tick waiting.
Tick ==
    /\ \E e \in Ends : end[e] = "open"
    /\ \A e \in Ends : end[e] = "open" => ~Late(e)
    /\ inbox' = [e \in Ends |-> IF end[e] # "open" THEN <<>> ELSE
          [i \in DOMAIN inbox[e] |-> [inbox[e][i] EXCEPT !.age = @ + 1]]]
    /\ deadline' = [e \in Ends |-> IF end[e] = "open" THEN deadline[e] - 1 ELSE 0]
    /\ ticker' = [e \in Ends |-> IF end[e] = "open" /\ ticker[e] > 1
                                   THEN ticker[e] - 1 ELSE Period(e)]
    /\ due' = [e \in Ends |-> end[e] = "open" /\ (due[e] \/ ticker[e] = 1)]
    /\ busy' = [e \in Ends |->
          IF end[e] = "open" /\ busy[e] > 0 THEN busy[e] + 1 ELSE 0]
    /\ wrote' = [e \in Ends |-> FALSE]
    /\ UNCHANGED <<idle, net, end, skips>>

Next ==
    \/ RelayRead \/ RelayWrite
    \/ ClientRead \/ ClientWrite \/ PingLoop
    \/ NetDown \/ Tick

Spec == Init /\ [][Next]_vars

\* Time passes; an end reads what has arrived, notices a deadline or a closed
\* conn, and serves its ticker.  No frame has to be sent or to get through.
Fairness ==
    /\ WF_vars(Tick)
    /\ WF_vars(RelayRead) /\ WF_vars(RelayPing) /\ WF_vars(WriteFails("relay"))
    /\ WF_vars(ClientRead) /\ WF_vars(PingLoop) /\ WF_vars(WriteFails("client"))

FairSpec == Spec /\ Fairness

----------------------------------------------------------------------------
(***************************************************************************)
(* Properties.                                                             *)
(***************************************************************************)

\* The longest an end should have to wait for a pong: its ping period (the
\* relay's is a third of its timeout), the writes that hold up the ping and the
\* one that costs the pong, the way there and back.
LongestSilence(e) ==
    (IF e = "relay" THEN (idle \div 3) + (MaxSkips + 1) * WriteWait ELSE ClientPing)
        + WriteWait + 2 * Delay

(* On a path that delivers, no end of a session gives the other one up for  *)
(* silence, whatever the frames in both directions do to the pings and      *)
(* pongs between them, if its timeout leaves room for the ping period, the  *)
(* writes a ping and a pong compete with and a round trip.                  *)
HealthyNeverCut ==
    net = "up" =>
        \A e \in Ends : Timeout(e) > LongestSilence(e) => end[e] # "read"

(* The same for every timeout LoadRelay accepts: "idle_timeout_ms must be   *)
(* between 10000 and 3600000".                                              *)
AcceptedIdleNeverCut == net = "up" => end["relay"] # "read"

(* Neither end keeps a session with a peer that is gone or unreachable: once *)
(* the path is lost or the other end has closed, it ends too.               *)
DeadPeerNoticed ==
    \A e \in Ends :
        (net = "down" \/ end[Peer(e)] # "open") ~> end[e] # "open"
============================================================================
