----------------------------- MODULE DropReport -----------------------------
(***************************************************************************)
(* peer.noteDrop (src/internal/relay/relay.go): the readLoops of several    *)
(* senders find one peer's queue full at the same time.  Each counts its    *)
(* frame and the one that wins a compare-and-swap on lastDropReport writes  *)
(* a line with the running total.  Every atomic operation is a step, and    *)
(* so is the reading of the clock: time passes between any two of them.     *)
(*                                                                          *)
(* The code stamps with UnixNano, the wall clock; the model's only time is *)
(* the one that passes, so it assumes that clock is not set back.           *)
(***************************************************************************)
EXTENDS Integers

CONSTANTS
    Senders,    \* goroutines that run noteDrop on the peer
    Interval,   \* dropReportInterval
    MaxStall,   \* longest time a goroutine spends in one noteDrop
    MaxTime,    \* bound: how long the model lets time pass
    MaxDrops    \* bound: frames discarded

IntervalAssumption == Interval \in Nat \ {0}
StallAssumption == MaxStall \in Nat /\ MaxStall < Interval
BoundsAssumption == MaxTime \in Nat /\ MaxDrops \in Nat

VARIABLES
    time,           \* the time that passes
    dropped,        \* peer.dropped
    lastDropReport, \* peer.lastDropReport, a stamp of the wall clock
    pc,             \* the next step of a sender's noteDrop, "idle" outside
    total, now, last,   \* its local variables
    start,          \* the real time at which it began
    reports,        \* the lines written: stamp and total
    reported,       \* real time of the last successful compare-and-swap
    noted           \* latest real time at which a finished noteDrop began

locals == <<total, now, last, start>>
vars == <<time, dropped, lastDropReport, pc, total, now, last, start,
          reports, reported, noted>>

\* The wall clock starts long after the zero value of lastDropReport.
Epoch == Interval
wall == Epoch + time

Stamps == 0 .. Epoch + MaxTime

(* The type invariant. *)
TypeOK ==
    /\ time \in 0 .. MaxTime
    /\ dropped \in 0 .. MaxDrops
    /\ lastDropReport \in Stamps
    /\ pc \in [Senders -> {"idle", "now", "load", "swap", "warn"}]
    /\ total \in [Senders -> 0 .. MaxDrops]
    /\ now \in [Senders -> Stamps]
    /\ last \in [Senders -> Stamps]
    /\ start \in [Senders -> 0 .. MaxTime]
    /\ reports \subseteq [stamp : Stamps, total : 1 .. MaxDrops]
    /\ reported \in -Interval .. MaxTime
    /\ noted \in -Interval .. MaxTime

Init ==
    /\ time = 0
    /\ dropped = 0
    /\ lastDropReport = 0
    /\ pc = [s \in Senders |-> "idle"]
    /\ total = [s \in Senders |-> 0]
    /\ now = [s \in Senders |-> 0]
    /\ last = [s \in Senders |-> 0]
    /\ start = [s \in Senders |-> 0]
    /\ reports = {}
    /\ reported = -Interval
    /\ noted = -Interval

----------------------------------------------------------------------------
GoTo(s, step) == pc' = [pc EXCEPT ![s] = step]

\* noteDrop returns: its locals are gone.
Return(s) ==
    /\ GoTo(s, "idle")
    /\ noted' = IF start[s] > noted THEN start[s] ELSE noted
    /\ total' = [total EXCEPT ![s] = 0]
    /\ now' = [now EXCEPT ![s] = 0]
    /\ last' = [last EXCEPT ![s] = 0]
    /\ start' = [start EXCEPT ![s] = 0]

\* p.dropped.Add(1)
Count(s) ==
    /\ pc[s] = "idle"
    /\ dropped < MaxDrops
    /\ dropped' = dropped + 1
    /\ total' = [total EXCEPT ![s] = dropped + 1]
    /\ start' = [start EXCEPT ![s] = time]
    /\ GoTo(s, "now")
    /\ UNCHANGED <<time, lastDropReport, now, last, reports, reported,
                   noted>>

\* time.Now().UnixNano()
Stamp(s) ==
    /\ pc[s] = "now"
    /\ now' = [now EXCEPT ![s] = wall]
    /\ GoTo(s, "load")
    /\ UNCHANGED <<time, dropped, lastDropReport, total, last, start,
                   reports, reported, noted>>

LoadNoLimit(s) ==
    /\ pc[s] = "load"
    /\ last' = [last EXCEPT ![s] = lastDropReport]
    /\ GoTo(s, "swap")
    /\ UNCHANGED <<time, dropped, lastDropReport, total, now, start,
                   reports, reported, noted>>

LoadTooLong(s) ==
    /\ pc[s] = "load"
    /\ IF now[s] - lastDropReport <= Interval
         THEN Return(s)
         ELSE /\ last' = [last EXCEPT ![s] = lastDropReport]
              /\ GoTo(s, "swap")
              /\ UNCHANGED <<total, now, start, noted>>
    /\ UNCHANGED <<time, dropped, lastDropReport, reports, reported>>

\* lastDropReport.Load(), and the return of a drop that comes too soon.
Load(s) ==
    /\ pc[s] = "load"
    /\ IF now[s] - lastDropReport < Interval
         THEN Return(s)
         ELSE /\ last' = [last EXCEPT ![s] = lastDropReport]
              /\ GoTo(s, "swap")
              /\ UNCHANGED <<total, now, start, noted>>
    /\ UNCHANGED <<time, dropped, lastDropReport, reports, reported>>

Store(s) ==
    /\ pc[s] = "swap"
    /\ lastDropReport' = now[s]
    /\ reported' = time
    /\ GoTo(s, "warn")
    /\ UNCHANGED <<time, dropped, locals, reports, noted>>

\* lastDropReport.CompareAndSwap(last, now): the loser returns.
CompareAndSwap(s) ==
    /\ pc[s] = "swap"
    /\ IF lastDropReport = last[s]
         THEN /\ lastDropReport' = now[s]
              /\ reported' = time
              /\ GoTo(s, "warn")
              /\ UNCHANGED <<locals, noted>>
         ELSE Return(s) /\ UNCHANGED <<lastDropReport, reported>>
    /\ UNCHANGED <<time, dropped, reports>>

\* log.Warn with the total counted at the beginning.
Warn(s) ==
    /\ pc[s] = "warn"
    /\ reports' = reports \cup {[stamp |-> now[s], total |-> total[s]]}
    /\ Return(s)
    /\ UNCHANGED <<time, dropped, lastDropReport, reported>>

----------------------------------------------------------------------------
\* Time passes, but no goroutine is kept from running for longer than MaxStall.
Tick ==
    /\ time < MaxTime
    /\ \A s \in Senders : pc[s] # "idle" => time - start[s] < MaxStall
    /\ time' = time + 1
    /\ UNCHANGED <<dropped, lastDropReport, pc, locals, reports, reported, noted>>

Next ==
    \/ \E s \in Senders :
          Count(s) \/ Stamp(s) \/ Load(s) \/ CompareAndSwap(s) \/ Warn(s)
    \/ Tick

Spec == Init /\ [][Next]_vars

----------------------------------------------------------------------------
(***************************************************************************)
(* Properties.                                                             *)
(***************************************************************************)

(* noteDrop "reports the running total at most once per                     *)
(* dropReportInterval": the stamps of two lines are an interval apart,      *)
(* however the senders' loads and swaps interleave and however long they    *)
(* stall in between.                                                        *)
ReportsSpaced ==
    \A r, q \in reports : r # q =>
        r.stamp - q.stamp >= Interval \/ q.stamp - r.stamp >= Interval

(* The totals of the lines grow with their stamps: no line reports fewer    *)
(* discarded frames than an earlier one, although the total is taken before *)
(* the stamp and the swap.                                                  *)
TotalsGrow ==
    \A r, q \in reports : r.stamp < q.stamp => r.total < q.total

(* "a peer that cannot keep up stays visible in the log": no frame is       *)
(* discarded an interval or more after the last report without a report of  *)
(* its own, also when the sender that discards it loses the swap.           *)
StaysVisible == noted - reported < Interval
============================================================================
