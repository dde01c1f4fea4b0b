-------------------------- MODULE ConnectionProofs --------------------------
(***************************************************************************)
(* Proofs about the sides of one client's connection, for any number of    *)
(* senders, any interval, delay and idle timeout and any bound on the       *)
(* frames and the time.                                                     *)
(***************************************************************************)
EXTENDS MCConnection, Integers, SequenceTheorems, TLAPS

(***************************************************************************)
(* The report of dropped frames (DropReport, peer.noteDrop).               *)
(***************************************************************************)
DropTyped ==
    /\ time \in Nat /\ dropped \in Nat /\ lastDropReport \in Int
    /\ reported \in Int /\ noted \in Int
    /\ pc \in [Senders -> {"idle", "now", "load", "swap", "warn"}]
    /\ total \in [Senders -> Int] /\ now \in [Senders -> Int]
    /\ last \in [Senders -> Int] /\ start \in [Senders -> Int]
    /\ reports \subseteq [stamp : Int, total : Int]

\* What a sender inside noteDrop knows: when it began, that it has not
\* stalled, and what it has read.
SenderInv(s) ==
    /\ start[s] <= time /\ time - start[s] <= MaxStall
    /\ total[s] <= dropped
    /\ pc[s] \in {"load", "swap", "warn"} =>
          start[s] + Interval <= now[s] /\ now[s] <= time + Interval
    /\ pc[s] = "swap" =>
          /\ now[s] - last[s] >= Interval
          /\ lastDropReport # last[s] => start[s] <= reported
    /\ pc[s] = "warn" => now[s] <= lastDropReport /\ start[s] <= reported

\* Two senders inside noteDrop: the later has counted more, and two that both
\* won their swap have stamps an interval apart.
PairInv(s, t) ==
    /\ start[s] < start[t] => total[s] < total[t]
    /\ pc[s] = "warn" /\ pc[t] = "warn" =>
          now[s] - now[t] >= Interval \/ now[t] - now[s] >= Interval

\* A line and a sender: a sender that began after the line's stamp has counted
\* more, and one that won its swap has a stamp an interval apart.
LineInv(r, s) ==
    /\ r.stamp < start[s] + Interval => r.total < total[s]
    /\ pc[s] = "warn" =>
          r.stamp - now[s] >= Interval \/ now[s] - r.stamp >= Interval

DropInv ==
    /\ DropTyped
    /\ lastDropReport <= time + Interval /\ lastDropReport - Interval <= reported
    /\ reported <= time
    /\ \A s \in Senders : pc[s] # "idle" => SenderInv(s)
    /\ \A s, t \in Senders : s # t /\ pc[s] # "idle" /\ pc[t] # "idle" => PairInv(s, t)
    /\ \A r \in reports : r.stamp <= lastDropReport /\ r.total <= dropped
    /\ \A r \in reports, s \in Senders : pc[s] # "idle" => LineInv(r, s)
    /\ DropsReported

(* The constants are numbers and a stall is shorter than the interval.      *)
LEMMA DropConstants == Interval \in Nat \ {0} /\ MaxStall \in Nat /\ MaxStall < Interval
  BY PartsAssumption DEF Drops!IntervalAssumption, Drops!StallAssumption

(* Nothing has been dropped at the start.                                   *)
LEMMA DropInit == Drops!Init => DropInv
  BY DropConstants DEF Drops!Init, DropInv, DropTyped, DropsReported, Drops!ReportsSpaced,
     Drops!TotalsGrow, Drops!StaysVisible

(* A frame is counted.                                                      *)
LEMMA CountDrop ==
    ASSUME DropInv, NEW s \in Senders, Drops!Count(s)
    PROVE  DropInv'
  <1> USE DropConstants
  <1>1. DropTyped
    BY DEF DropInv
  <1>2. /\ pc[s] = "idle" /\ dropped' = dropped + 1 /\ time' = time
        /\ lastDropReport' = lastDropReport /\ reports' = reports /\ reported' = reported
        /\ noted' = noted /\ now' = now /\ last' = last
    BY DEF Drops!Count
  <1>3. /\ total' = [total EXCEPT ![s] = dropped + 1] /\ start' = [start EXCEPT ![s] = time]
        /\ pc' = [pc EXCEPT ![s] = "now"]
    BY DEF Drops!Count, Drops!GoTo
  <1>4. DropTyped'
    BY <1>1, <1>2, <1>3 DEF DropTyped
  <1>5. total'[s] = dropped + 1 /\ start'[s] = time /\ pc'[s] = "now"
    BY <1>1, <1>3 DEF DropTyped
  <1>6. \A t \in Senders : t # s => total'[t] = total[t] /\ start'[t] = start[t] /\ pc'[t] = pc[t]
    BY <1>1, <1>3 DEF DropTyped
  <1>7. ASSUME NEW t \in Senders, pc'[t] # "idle" PROVE SenderInv(t)'
    <2>1. CASE t = s
      BY <1>1, <1>2, <1>5, <2>1 DEF DropInv, SenderInv, DropTyped
    <2>2. CASE t # s
      BY <1>1, <1>2, <1>6, <1>7, <2>2 DEF DropInv, SenderInv, DropTyped
    <2> QED
      BY <2>1, <2>2
  <1>8. ASSUME NEW t \in Senders, NEW u \in Senders, t # u, pc'[t] # "idle", pc'[u] # "idle"
        PROVE  PairInv(t, u)'
    <2>1. CASE t # s /\ u # s
      BY <1>2, <1>6, <1>8, <2>1 DEF DropInv, PairInv
    <2>2. CASE t = s
      <3>1. u # s /\ start[u] \in Int /\ start[u] <= time
        BY <1>1, <1>6, <1>8, <2>2 DEF DropInv, DropTyped, SenderInv
      <3> QED
        BY <1>1, <1>5, <1>6, <2>2, <3>1 DEF PairInv, DropTyped
    <2>3. CASE u = s
      <3>1. t # s /\ total[t] \in Int /\ total[t] <= dropped
        BY <1>1, <1>6, <1>8, <2>3 DEF DropInv, DropTyped, SenderInv
      <3> QED
        BY <1>1, <1>5, <1>6, <2>3, <3>1 DEF PairInv, DropTyped
    <2> QED
      BY <2>1, <2>2, <2>3
  <1>9. ASSUME NEW r \in reports, NEW t \in Senders, pc'[t] # "idle" PROVE LineInv(r, t)'
    <2>1. CASE t = s
      <3>1. r.total \in Int /\ r.total <= dropped
        BY <1>1 DEF DropInv, DropTyped
      <3> QED
        BY <1>1, <1>5, <2>1, <3>1 DEF LineInv, DropTyped
    <2>2. CASE t # s
      BY <1>2, <1>6, <1>9, <2>2 DEF DropInv, LineInv
    <2> QED
      BY <2>1, <2>2
  <1>10. \A r \in reports : r.stamp <= lastDropReport /\ r.total <= dropped + 1
    BY <1>1 DEF DropInv, DropTyped
  <1>11. DropsReported'
    BY <1>2 DEF DropInv, DropsReported, Drops!ReportsSpaced, Drops!TotalsGrow, Drops!StaysVisible
  <1> QED
    BY <1>2, <1>4, <1>7, <1>8, <1>9, <1>10, <1>11 DEF DropInv

(* noteDrop returns, with or without a line in the log: the frame it noted  *)
(* is no later than an interval after the last report, and a line is an     *)
(* interval from every other and tells more than the earlier ones.          *)
LEMMA ReturnDrop ==
    ASSUME DropInv, NEW s \in Senders, pc[s] # "idle", Drops!Return(s),
           UNCHANGED <<time, dropped, lastDropReport, reported>>,
           start[s] - reported < Interval,
           \/ reports' = reports
           \/ pc[s] = "warn" /\ reports' = reports \cup {[stamp |-> now[s], total |-> total[s]]}
    PROVE  DropInv'
  <1> USE DropConstants
  <1> DEFINE line == [stamp |-> now[s], total |-> total[s]]
  <1>1. DropTyped
    BY DEF DropInv
  <1>2. /\ time' = time /\ dropped' = dropped /\ lastDropReport' = lastDropReport
        /\ reported' = reported
    OBVIOUS
  <1>3. /\ pc' = [pc EXCEPT ![s] = "idle"] /\ total' = [total EXCEPT ![s] = 0]
        /\ now' = [now EXCEPT ![s] = 0] /\ last' = [last EXCEPT ![s] = 0]
        /\ start' = [start EXCEPT ![s] = 0]
        /\ noted' = IF start[s] > noted THEN start[s] ELSE noted
    BY DEF Drops!Return, Drops!GoTo
  <1>4. /\ line \in [stamp : Int, total : Int] /\ line.stamp = now[s] /\ line.total = total[s]
        /\ now[s] \in Int /\ total[s] \in Int /\ start[s] \in Int
    BY <1>1 DEF DropTyped
  <1> HIDE DEF line
  <1>5. \A r \in reports' : r \in reports \/ (pc[s] = "warn" /\ r = line)
    BY DEF line
  <1>6. DropTyped'
    BY <1>1, <1>2, <1>3, <1>4, <1>5 DEF DropTyped
  <1>7. /\ pc'[s] = "idle"
        /\ \A t \in Senders : pc'[t] # "idle" =>
              /\ t # s /\ pc'[t] = pc[t] /\ total'[t] = total[t] /\ now'[t] = now[t]
              /\ last'[t] = last[t] /\ start'[t] = start[t]
    BY <1>1, <1>3 DEF DropTyped
  <1>8. ASSUME NEW t \in Senders, pc'[t] # "idle" PROVE SenderInv(t)'
    BY <1>2, <1>7, <1>8 DEF DropInv, SenderInv
  <1>9. ASSUME NEW t \in Senders, NEW u \in Senders, t # u, pc'[t] # "idle", pc'[u] # "idle"
        PROVE  PairInv(t, u)'
    BY <1>7, <1>9 DEF DropInv, PairInv
  <1>10. SenderInv(s)
    BY DEF DropInv
  <1>11. ASSUME NEW r \in reports' PROVE r.stamp <= lastDropReport /\ r.total <= dropped
    <2>1. CASE r \in reports
      BY <2>1 DEF DropInv
    <2>2. CASE pc[s] = "warn" /\ r = line
      BY <1>4, <1>10, <2>2 DEF SenderInv
    <2> QED
      BY <1>5, <2>1, <2>2
  <1>12. ASSUME NEW r \in reports', NEW t \in Senders, pc'[t] # "idle" PROVE LineInv(r, t)'
    <2>1. CASE r \in reports
      BY <1>7, <1>12, <2>1 DEF DropInv, LineInv
    <2>2. CASE pc[s] = "warn" /\ r = line
      <3>1. PairInv(s, t) /\ t # s /\ start[t] \in Int /\ now[t] \in Int
        BY <1>1, <1>7, <1>12 DEF DropInv, DropTyped
      <3>2. start[s] + Interval <= now[s]
        BY <1>10, <2>2 DEF SenderInv
      <3>3. now[s] < start[t] + Interval => total[s] < total[t]
        BY <1>4, <3>1, <3>2 DEF PairInv
      <3> QED
        BY <1>4, <1>7, <1>12, <2>2, <3>1, <3>3 DEF LineInv, PairInv
    <2> QED
      BY <1>5, <2>1, <2>2
  <1>13. ASSUME NEW r \in reports, pc[s] = "warn"
         PROVE  /\ r.stamp - now[s] >= Interval \/ now[s] - r.stamp >= Interval
                /\ r.stamp < now[s] => r.total < total[s]
                /\ ~(now[s] < r.stamp)
    <2>1. LineInv(r, s) /\ r.stamp \in Int /\ r.total \in Int /\ r.stamp <= lastDropReport
      BY <1>1 DEF DropInv, DropTyped
    <2>2. /\ start[s] + Interval <= now[s] /\ now[s] <= time + Interval
          /\ time - start[s] <= MaxStall /\ time \in Nat
          /\ lastDropReport \in Int /\ lastDropReport <= time + Interval
      BY <1>1, <1>10, <1>13 DEF SenderInv, DropInv, DropTyped
    <2>3. r.stamp - now[s] >= Interval \/ now[s] - r.stamp >= Interval
      BY <1>13, <2>1 DEF LineInv
    <2>4. ~(now[s] < r.stamp)
      BY <1>4, <2>1, <2>2, <2>3
    <2>5. r.stamp < now[s] => r.stamp < start[s] + Interval
      BY <1>4, <2>1, <2>2, <2>3
    <2> QED
      BY <2>1, <2>3, <2>4, <2>5 DEF LineInv
  <1>14. Drops!ReportsSpaced'
    <2> SUFFICES ASSUME NEW r \in reports', NEW q \in reports', r # q
                 PROVE  r.stamp - q.stamp >= Interval \/ q.stamp - r.stamp >= Interval
      BY DEF Drops!ReportsSpaced
    <2>1. CASE r \in reports /\ q \in reports
      BY <2>1 DEF DropInv, DropsReported, Drops!ReportsSpaced
    <2>2. CASE r \in reports /\ q = line /\ pc[s] = "warn"
      BY <1>4, <1>13, <2>2
    <2>3. CASE q \in reports /\ r = line /\ pc[s] = "warn"
      BY <1>4, <1>13, <2>3
    <2> QED
      BY <1>5, <2>1, <2>2, <2>3
  <1>15. Drops!TotalsGrow'
    <2> SUFFICES ASSUME NEW r \in reports', NEW q \in reports', r.stamp < q.stamp
                 PROVE  r.total < q.total
      BY DEF Drops!TotalsGrow
    <2>1. CASE r \in reports /\ q \in reports
      BY <2>1 DEF DropInv, DropsReported, Drops!TotalsGrow
    <2>2. CASE r \in reports /\ q = line /\ pc[s] = "warn"
      BY <1>4, <1>13, <2>2
    <2>3. CASE q \in reports /\ r = line /\ pc[s] = "warn"
      BY <1>4, <1>13, <2>3
    <2>4. CASE r = line /\ q = line
      BY <1>4, <2>4
    <2> QED
      BY <1>5, <2>1, <2>2, <2>3, <2>4
  <1>16. Drops!StaysVisible'
    <2>1. noted - reported < Interval
      BY DEF DropInv, DropsReported, Drops!StaysVisible
    <2> QED
      BY <1>2, <1>3, <2>1 DEF Drops!StaysVisible
  <1>17. DropsReported'
    BY <1>14, <1>15, <1>16 DEF DropsReported
  <1>18. /\ lastDropReport' <= time' + Interval /\ lastDropReport' - Interval <= reported'
         /\ reported' <= time'
    BY <1>2 DEF DropInv
  <1>19. \A r \in reports' : r.stamp <= lastDropReport' /\ r.total <= dropped'
    BY <1>2, <1>11
  <1> QED
    BY <1>6, <1>8, <1>9, <1>12, <1>17, <1>18, <1>19 DEF DropInv

(* The clock is read.                                                       *)
LEMMA StampDrop ==
    ASSUME DropInv, NEW s \in Senders, Drops!Stamp(s)
    PROVE  DropInv'
  <1> USE DropConstants
  <1>1. DropTyped
    BY DEF DropInv
  <1>2. /\ pc[s] = "now" /\ dropped' = dropped /\ time' = time
        /\ lastDropReport' = lastDropReport /\ reports' = reports /\ reported' = reported
        /\ noted' = noted /\ total' = total /\ last' = last /\ start' = start
    BY DEF Drops!Stamp
  <1>3. now' = [now EXCEPT ![s] = Interval + time] /\ pc' = [pc EXCEPT ![s] = "load"]
    BY DEF Drops!Stamp, Drops!GoTo, Drops!wall, Drops!Epoch
  <1>4. DropTyped'
    BY <1>1, <1>2, <1>3 DEF DropTyped
  <1>5. now'[s] = Interval + time /\ pc'[s] = "load" /\ start[s] \in Int
    BY <1>1, <1>3 DEF DropTyped
  <1>6. \A t \in Senders : t # s => now'[t] = now[t] /\ pc'[t] = pc[t]
    BY <1>1, <1>3 DEF DropTyped
  <1>7. ASSUME NEW t \in Senders, pc'[t] # "idle" PROVE SenderInv(t)'
    <2>1. CASE t = s
      BY <1>1, <1>2, <1>5, <2>1 DEF DropInv, SenderInv, DropTyped
    <2>2. CASE t # s
      BY <1>1, <1>2, <1>6, <1>7, <2>2 DEF DropInv, SenderInv
    <2> QED
      BY <2>1, <2>2
  <1>8. ASSUME NEW t \in Senders, NEW u \in Senders, t # u, pc'[t] # "idle", pc'[u] # "idle"
        PROVE  PairInv(t, u)'
    BY <1>2, <1>5, <1>6, <1>8 DEF DropInv, PairInv
  <1>9. ASSUME NEW r \in reports, NEW t \in Senders, pc'[t] # "idle" PROVE LineInv(r, t)'
    BY <1>2, <1>5, <1>6, <1>9 DEF DropInv, LineInv
  <1>10. DropsReported'
    BY <1>2 DEF DropInv, DropsReported, Drops!ReportsSpaced, Drops!TotalsGrow, Drops!StaysVisible
  <1> QED
    BY <1>2, <1>4, <1>7, <1>8, <1>9, <1>10 DEF DropInv

(* The last report is looked up; a drop that comes too soon returns.        *)
LEMMA LoadDrop ==
    ASSUME DropInv, NEW s \in Senders, Drops!Load(s)
    PROVE  DropInv'
  <1> USE DropConstants
  <1>1. DropTyped
    BY DEF DropInv
  <1>2. /\ pc[s] = "load" /\ dropped' = dropped /\ time' = time
        /\ lastDropReport' = lastDropReport /\ reports' = reports /\ reported' = reported
    BY DEF Drops!Load
  <1>3. /\ SenderInv(s) /\ start[s] \in Int /\ now[s] \in Int
        /\ start[s] + Interval <= now[s]
    BY <1>1, <1>2 DEF DropInv, DropTyped, SenderInv
  <1>4. CASE now[s] - lastDropReport < Interval
    <2>1. Drops!Return(s)
      BY <1>4 DEF Drops!Load
    <2>2. start[s] - reported < Interval
      BY <1>1, <1>3, <1>4 DEF DropInv, DropTyped
    <2> QED
      BY <1>2, <2>1, <2>2, ReturnDrop
  <1>5. CASE ~(now[s] - lastDropReport < Interval)
    <2>1. /\ last' = [last EXCEPT ![s] = lastDropReport] /\ pc' = [pc EXCEPT ![s] = "swap"]
          /\ total' = total /\ now' = now /\ start' = start /\ noted' = noted
      BY <1>5 DEF Drops!Load, Drops!GoTo
    <2>2. DropTyped'
      BY <1>1, <1>2, <2>1 DEF DropTyped
    <2>3. last'[s] = lastDropReport /\ pc'[s] = "swap"
      BY <1>1, <2>1 DEF DropTyped
    <2>4. \A t \in Senders : t # s => last'[t] = last[t] /\ pc'[t] = pc[t]
      BY <1>1, <2>1 DEF DropTyped
    <2>5. ASSUME NEW t \in Senders, pc'[t] # "idle" PROVE SenderInv(t)'
      <3>1. CASE t = s
        BY <1>1, <1>2, <1>3, <1>5, <2>1, <2>3, <3>1 DEF SenderInv, DropTyped
      <3>2. CASE t # s
        BY <1>2, <2>1, <2>4, <2>5, <3>2 DEF DropInv, SenderInv
      <3> QED
        BY <3>1, <3>2
    <2>6. ASSUME NEW t \in Senders, NEW u \in Senders, t # u, pc'[t] # "idle", pc'[u] # "idle"
          PROVE  PairInv(t, u)'
      BY <1>2, <2>1, <2>3, <2>4, <2>6 DEF DropInv, PairInv
    <2>7. ASSUME NEW r \in reports, NEW t \in Senders, pc'[t] # "idle" PROVE LineInv(r, t)'
      BY <1>2, <2>1, <2>3, <2>4, <2>7 DEF DropInv, LineInv
    <2>8. DropsReported'
      BY <1>2, <2>1
         DEF DropInv, DropsReported, Drops!ReportsSpaced, Drops!TotalsGrow, Drops!StaysVisible
    <2> QED
      BY <1>2, <2>2, <2>5, <2>6, <2>7, <2>8 DEF DropInv
  <1> QED
    BY <1>4, <1>5

(* The swap: a winner's stamp is an interval after every earlier one, and a *)
(* loser's frame is covered by the report that made it lose.                *)
LEMMA SwapDrop ==
    ASSUME DropInv, NEW s \in Senders, Drops!CompareAndSwap(s)
    PROVE  DropInv'
  <1> USE DropConstants
  <1>1. DropTyped
    BY DEF DropInv
  <1>2. pc[s] = "swap" /\ dropped' = dropped /\ time' = time /\ reports' = reports
    BY DEF Drops!CompareAndSwap
  <1>3. /\ SenderInv(s) /\ start[s] \in Int /\ now[s] \in Int /\ last[s] \in Int
        /\ now[s] - last[s] >= Interval /\ start[s] <= time /\ now[s] <= time + Interval
    BY <1>1, <1>2 DEF DropInv, DropTyped, SenderInv
  <1>4. CASE lastDropReport # last[s]
    <2>1. Drops!Return(s) /\ lastDropReport' = lastDropReport /\ reported' = reported
      BY <1>4 DEF Drops!CompareAndSwap
    <2>2. start[s] - reported < Interval
      BY <1>1, <1>2, <1>3, <1>4 DEF SenderInv, DropTyped
    <2> QED
      BY <1>2, <2>1, <2>2, ReturnDrop
  <1>5. CASE lastDropReport = last[s]
    <2>1. /\ lastDropReport' = now[s] /\ reported' = time /\ pc' = [pc EXCEPT ![s] = "warn"]
          /\ total' = total /\ now' = now /\ last' = last /\ start' = start /\ noted' = noted
      BY <1>5 DEF Drops!CompareAndSwap, Drops!GoTo, Drops!locals
    <2>2. DropTyped'
      BY <1>1, <1>2, <2>1 DEF DropTyped
    <2>3. pc'[s] = "warn" /\ \A t \in Senders : t # s => pc'[t] = pc[t]
      BY <1>1, <2>1 DEF DropTyped
    <2>4. lastDropReport + Interval <= now[s] /\ reported <= time
      BY <1>1, <1>3, <1>5 DEF DropInv, DropTyped
    <2>5. ASSUME NEW t \in Senders, pc'[t] # "idle" PROVE SenderInv(t)'
      <3>1. CASE t = s
        BY <1>1, <1>2, <1>3, <2>1, <2>3, <3>1 DEF SenderInv, DropTyped
      <3>2. CASE t # s
        <4>1. SenderInv(t) /\ start[t] \in Int /\ now[t] \in Int /\ pc'[t] = pc[t]
          BY <1>1, <2>3, <2>5, <3>2 DEF DropInv, DropTyped
        <4> QED
          BY <1>1, <1>2, <1>3, <2>1, <2>4, <4>1 DEF SenderInv, DropTyped
      <3> QED
        BY <3>1, <3>2
    <2>6. ASSUME NEW t \in Senders, t # s, pc[t] = "warn" PROVE now[s] - now[t] >= Interval
      <3>1. now[t] <= lastDropReport /\ now[t] \in Int
        BY <1>1, <2>6 DEF DropInv, DropTyped, SenderInv
      <3> QED
        BY <1>1, <1>3, <2>4, <3>1 DEF DropTyped
    <2>7. ASSUME NEW t \in Senders, NEW u \in Senders, t # u, pc'[t] # "idle", pc'[u] # "idle"
          PROVE  PairInv(t, u)'
      <3>1. PairInv(t, u)
        BY <1>2, <2>3, <2>7 DEF DropInv
      <3> QED
        BY <2>1, <2>3, <2>6, <2>7, <3>1 DEF PairInv
    <2>8. ASSUME NEW r \in reports
          PROVE  r.stamp <= now[s] /\ now[s] - r.stamp >= Interval
      <3>1. r.stamp \in Int /\ r.stamp <= lastDropReport
        BY <1>1 DEF DropInv, DropTyped
      <3> QED
        BY <1>1, <1>3, <2>4, <3>1 DEF DropTyped
    <2>9. ASSUME NEW r \in reports, NEW t \in Senders, pc'[t] # "idle" PROVE LineInv(r, t)'
      <3>1. LineInv(r, t)
        BY <1>2, <2>3, <2>9 DEF DropInv
      <3> QED
        BY <2>1, <2>3, <2>8, <3>1 DEF LineInv
    <2>10. DropsReported'
      <3>1. Drops!ReportsSpaced' /\ Drops!TotalsGrow'
        BY <1>2 DEF DropInv, DropsReported, Drops!ReportsSpaced, Drops!TotalsGrow
      <3>2. noted - reported < Interval
        BY DEF DropInv, DropsReported, Drops!StaysVisible
      <3>3. Drops!StaysVisible'
        BY <1>1, <2>1, <2>4, <3>2 DEF Drops!StaysVisible, DropTyped
      <3> QED
        BY <3>1, <3>3 DEF DropsReported
    <2>11. /\ lastDropReport' <= time' + Interval /\ lastDropReport' - Interval <= reported'
           /\ reported' <= time'
      BY <1>1, <1>2, <1>3, <2>1 DEF DropTyped
    <2>12. \A r \in reports' : r.stamp <= lastDropReport' /\ r.total <= dropped'
      BY <1>2, <2>1, <2>8 DEF DropInv
    <2> QED
      BY <1>2, <2>2, <2>5, <2>7, <2>9, <2>10, <2>11, <2>12 DEF DropInv
  <1> QED
    BY <1>4, <1>5

(* Time passes.                                                             *)
LEMMA TickDrop ==
    ASSUME DropInv, Drops!Tick
    PROVE  DropInv'
  <1> USE DropConstants
  <1>1. DropTyped
    BY DEF DropInv
  <1>2. /\ time' = time + 1 /\ dropped' = dropped /\ lastDropReport' = lastDropReport
        /\ pc' = pc /\ total' = total /\ now' = now /\ last' = last /\ start' = start
        /\ reports' = reports /\ reported' = reported /\ noted' = noted
        /\ \A s \in Senders : pc[s] # "idle" => time - start[s] < MaxStall
    BY DEF Drops!Tick, Drops!locals
  <1>3. DropTyped'
    BY <1>1, <1>2 DEF DropTyped
  <1>4. ASSUME NEW s \in Senders, pc[s] # "idle" PROVE SenderInv(s)'
    <2>1. SenderInv(s) /\ start[s] \in Int /\ now[s] \in Int /\ time - start[s] < MaxStall
      BY <1>1, <1>2, <1>4 DEF DropInv, DropTyped
    <2> QED
      BY <1>1, <1>2, <2>1 DEF SenderInv, DropTyped
  <1>5. /\ \A s, t \in Senders : s # t /\ pc[s] # "idle" /\ pc[t] # "idle" => PairInv(s, t)'
        /\ \A r \in reports, s \in Senders : pc[s] # "idle" => LineInv(r, s)'
    BY <1>2 DEF DropInv, PairInv, LineInv
  <1>6. /\ lastDropReport' <= time' + Interval /\ lastDropReport' - Interval <= reported'
        /\ reported' <= time'
    BY <1>1, <1>2 DEF DropInv, DropTyped
  <1>7. DropsReported'
    BY <1>2 DEF DropInv, DropsReported, Drops!ReportsSpaced, Drops!TotalsGrow, Drops!StaysVisible
  <1> QED
    BY <1>2, <1>3, <1>4, <1>5, <1>6, <1>7 DEF DropInv

(* Every step of the connection preserves the invariant: noteDrop's, and    *)
(* those of the other sides, which touch none of its variables.             *)
LEMMA DropNext == DropInv /\ [ConnectionNext]_<<vars, aliveVars, dropVars, part>> => DropInv'
  <1> SUFFICES ASSUME DropInv, [ConnectionNext]_<<vars, aliveVars, dropVars, part>>
               PROVE  DropInv'
    OBVIOUS
  <1>1. CASE UNCHANGED dropVars
    <2>1. /\ time' = time /\ dropped' = dropped /\ lastDropReport' = lastDropReport
          /\ pc' = pc /\ total' = total /\ now' = now /\ last' = last /\ start' = start
          /\ reports' = reports /\ reported' = reported /\ noted' = noted
      BY <1>1 DEF dropVars
    <2>2. DropTyped'
      BY <2>1 DEF DropInv, DropTyped
    <2>3. /\ \A s \in Senders : pc[s] # "idle" => SenderInv(s)'
          /\ \A s, t \in Senders : s # t /\ pc[s] # "idle" /\ pc[t] # "idle" => PairInv(s, t)'
          /\ \A r \in reports, s \in Senders : pc[s] # "idle" => LineInv(r, s)'
      BY <2>1 DEF DropInv, SenderInv, PairInv, LineInv
    <2>4. DropsReported'
      BY <2>1
         DEF DropInv, DropsReported, Drops!ReportsSpaced, Drops!TotalsGrow, Drops!StaysVisible
    <2> QED
      BY <2>1, <2>2, <2>3, <2>4 DEF DropInv
  <1>2. CASE Reports
    <2>1. CASE Drops!Tick
      BY <2>1, TickDrop
    <2>2. ASSUME NEW s \in Senders, \/ Drops!Count(s) \/ Drops!Stamp(s) \/ Drops!Load(s)
                                    \/ Drops!CompareAndSwap(s)
          PROVE  DropInv'
      BY <2>2, CountDrop, StampDrop, LoadDrop, SwapDrop
    <2>3. ASSUME NEW s \in Senders, Drops!Warn(s) PROVE DropInv'
      <3>1. /\ pc[s] = "warn" /\ Drops!Return(s)
            /\ reports' = reports \cup {[stamp |-> now[s], total |-> total[s]]}
            /\ UNCHANGED <<time, dropped, lastDropReport, reported>>
        BY <2>3 DEF Drops!Warn
      <3>2. start[s] <= reported /\ start[s] \in Int /\ reported \in Int
        BY <3>1 DEF DropInv, DropTyped, SenderInv
      <3>3. start[s] - reported < Interval
        BY <3>2, DropConstants
      <3> QED
        BY <3>1, <3>3, ReturnDrop
    <2> QED
      BY <1>2, <2>1, <2>2, <2>3 DEF Reports, Drops!Next
  <1> QED
    BY <1>1, <1>2 DEF ConnectionNext, Handshakes, StaysAlive

(* The log says of a peer that cannot keep up what noteDrop promises:       *)
(* reports an interval apart, with growing totals, and one in every         *)
(* interval in which a frame is discarded, for any number of senders.       *)
THEOREM DropReports == ConnectionSafety => []DropsReported
  <1>1. ConnectionInit => DropInv
    BY DropInit DEF ConnectionInit
  <1>2. DropInv => DropsReported
    BY DEF DropInv
  <1> QED
    BY <1>1, <1>2, DropNext, PTL DEF ConnectionSafety

----------------------------------------------------------------------------
(***************************************************************************)
(* The handshake (Handshake): messages.                                    *)
(***************************************************************************)
(* A length of up to 16 bits and its two bytes.                             *)
LEMMA SplitBytes ==
    ASSUME NEW n \in Nat, n < 256 * 256
    PROVE  n \div 256 \in Byte /\ n % 256 \in Byte /\ 256 * (n \div 256) + (n % 256) = n
  <1> DEFINE q == n \div 256
             r == n % 256
  <1>1. r \in 0 .. 255 /\ n = 256 * q + r /\ q \in Int
    BY SMT
  <1> HIDE DEF q, r
  <1>2. q >= 0 /\ q <= 255
    BY <1>1, SMT
  <1>3. q \in 0 .. 255
    BY <1>1, <1>2, SMT
  <1> QED
    BY <1>1, <1>3 DEF q, r, Byte

(* Two bytes and the number they make.                                      *)
LEMMA JoinBytes ==
    ASSUME NEW a \in Byte, NEW b \in Byte
    PROVE  /\ 256 * a + b \in Nat
           /\ (256 * a + b) \div 256 = a /\ (256 * a + b) % 256 = b
  <1>1. a \in 0 .. 255 /\ b \in 0 .. 255
    BY DEF Byte
  <1>2. (256 * a + b) \div 256 = a /\ (256 * a + b) % 256 = b
    BY <1>1, SMT
  <1> QED
    BY <1>1, <1>2, SMT

(* What a hello consists of.                                                *)
LEMMA HelloBytes ==
    ASSUME NEW a \in Byte, NEW b \in Byte, NEW c \in Byte, NEW id \in Seq(Byte),
           NEW hello, hello = <<a>> \o <<b, c>> \o id
    PROVE  /\ hello \in Seq(Byte) /\ Len(hello) = Len(id) + 3
           /\ hello[1] = a /\ hello[2] = b /\ hello[3] = c
           /\ \A i \in 1 .. Len(id) : hello[i + 3] = id[i]
  <1> DEFINE head == <<a>> \o <<b, c>>
  <1>1. <<a>> \in Seq(Byte) /\ <<b, c>> \in Seq(Byte) /\ Len(<<a>>) = 1 /\ Len(<<b, c>>) = 2
    OBVIOUS
  <1>2. head \in Seq(Byte) /\ Len(head) = 3 /\ head[1] = a /\ head[2] = b /\ head[3] = c
    BY <1>1, ConcatProperties
  <1> DEFINE whole == head \o id
  <1>3. hello = whole
    OBVIOUS
  <1> HIDE DEF head
  <1>4. /\ whole \in Seq(Byte) /\ Len(whole) = Len(head) + Len(id)
        /\ \A i \in 1 .. Len(head) + Len(id) :
              whole[i] = IF i <= Len(head) THEN head[i] ELSE id[i - Len(head)]
    BY <1>2, ConcatProperties, Zenon
  <1> HIDE DEF whole
  <1>5. Len(id) \in Nat
    OBVIOUS
  <1> QED
    BY <1>2, <1>3, <1>4, <1>5

(* The relay reads the identity that the client wrote.                      *)
LEMMA ParseMarshal ==
    ASSUME NEW id \in Seq(Byte), MarshalHello(id) # None
    PROVE  ParseHello(MarshalHello(id)) = id
  <1> DEFINE n == Len(id)
             b == n \div 256
             c == n % 256
             hello == MarshalHello(id)
  <1>1. n \in 1 .. MaxClientIDSize /\ hello = <<Version>> \o <<b, c>> \o id
    BY DEF MarshalHello, BigEndian16
  <1> HIDE DEF n, hello
  <1>2. n \in Nat /\ n >= 1 /\ n <= MaxClientIDSize /\ MaxClientIDSize \in Nat
        /\ n < 256 * 256
    BY <1>1, SizesAssumption, SMT
  <1>3. b \in Byte /\ c \in Byte /\ 256 * b + c = n
    BY <1>2, SplitBytes
  <1> HIDE DEF b, c
  <1>4. /\ hello \in Seq(Byte) /\ Len(hello) = n + 3
        /\ hello[1] = Version /\ hello[2] = b /\ hello[3] = c
        /\ \A i \in 1 .. n : hello[i + 3] = id[i]
    BY <1>1, <1>3, SizesAssumption, HelloBytes DEF n
  <1>5. ParseHello(hello) = SubSeq(hello, 4, Len(hello))
    BY <1>2, <1>3, <1>4 DEF ParseHello
  <1> DEFINE parsed == SubSeq(hello, 4, Len(hello))
  <1>6. /\ parsed \in Seq(Byte) /\ Len(parsed) = n
        /\ \A i \in 1 .. n : parsed[i] = hello[i + 3]
    <2>1. \A i \in 4 .. Len(hello) : hello[i] \in Byte
      BY <1>4
    <2>2. /\ parsed \in Seq(Byte)
          /\ Len(parsed) = IF 4 <= Len(hello) THEN Len(hello) - 4 + 1 ELSE 0
          /\ \A i \in 1 .. Len(hello) - 4 + 1 : parsed[i] = hello[4 + i - 1]
      BY <1>2, <1>4, <2>1, SubSeqProperties
    <2> HIDE DEF parsed
    <2> QED
      BY <1>2, <1>4, <2>2
  <1> HIDE DEF parsed
  <1>7. parsed = id
    BY <1>4, <1>6, SeqEqual DEF n
  <1> QED
    BY <1>5, <1>7 DEF parsed, hello

(* A message the relay takes for a hello is what a client with that         *)
(* identity writes, to the byte.                                            *)
LEMMA MarshalParse ==
    ASSUME NEW message \in Seq(Byte), ParseHello(message) # None
    PROVE  MarshalHello(ParseHello(message)) = message
  <1> DEFINE b == message[2]
             c == message[3]
             size == 256 * b + c
             id == SubSeq(message, 4, Len(message))
  <1>1. Len(message) >= 3 /\ Len(message) \in Nat
    <2>1. ~(Len(message) < 3)
      BY Zenon DEF ParseHello
    <2>2. Len(message) \in Nat
      OBVIOUS
    <2> DEFINE n == Len(message)
    <2> HIDE DEF n
    <2>3. n >= 3 /\ n \in Nat
      BY <2>1, <2>2 DEF n
    <2> QED
      BY <2>3 DEF n
  <1>2. b \in Byte /\ c \in Byte
    BY <1>1
  <1> HIDE DEF b, c
  <1>3. size \in Nat /\ size \div 256 = b /\ size % 256 = c
    BY <1>2, JoinBytes
  <1>4. /\ message[1] = Version /\ ~(size < 1) /\ ~(size > MaxClientIDSize)
        /\ Len(message) = size + 3 /\ ParseHello(message) = id
    BY Zenon DEF ParseHello, b, c
  <1> HIDE DEF size
  <1>5. /\ id \in Seq(Byte) /\ Len(id) = size
        /\ \A i \in 1 .. size : id[i] = message[i + 3]
    <2>1. \A i \in 4 .. Len(message) : message[i] \in Byte
      OBVIOUS
    <2>2. /\ id \in Seq(Byte)
          /\ Len(id) = IF 4 <= Len(message) THEN Len(message) - 4 + 1 ELSE 0
          /\ \A i \in 1 .. Len(message) - 4 + 1 : id[i] = message[4 + i - 1]
      BY <1>1, <2>1, SubSeqProperties
    <2> HIDE DEF id
    <2>3. size >= 1
      BY <1>3, <1>4
    <2> QED
      BY <1>1, <1>3, <1>4, <2>2, <2>3
  <1> DEFINE hello == MarshalHello(id)
  <1> HIDE DEF id
  <1>6. hello = <<Version>> \o <<b, c>> \o id
    <2>1. Len(id) \in 1 .. MaxClientIDSize
      BY <1>3, <1>4, <1>5, SizesAssumption
    <2> QED
      BY <1>3, <1>5, <2>1 DEF MarshalHello, BigEndian16
  <1> HIDE DEF hello
  <1>7. /\ hello \in Seq(Byte) /\ Len(hello) = size + 3
        /\ hello[1] = Version /\ hello[2] = b /\ hello[3] = c
        /\ \A i \in 1 .. size : hello[i + 3] = id[i]
    BY <1>2, <1>5, <1>6, SizesAssumption, HelloBytes
  <1>8. ASSUME NEW i \in 1 .. Len(hello) PROVE hello[i] = message[i]
    <2>1. CASE i \in 1 .. 3
      BY <1>4, <1>7, <2>1 DEF b, c
    <2>2. CASE i \notin 1 .. 3
      <3> DEFINE j == i - 3
      <3>1. j \in 1 .. size /\ j + 3 = i
        BY <1>3, <1>7, <2>2
      <3> HIDE DEF j
      <3> QED
        BY <1>5, <1>7, <3>1
    <2> QED
      BY <2>1, <2>2
  <1>9. hello = message
    BY <1>4, <1>7, <1>8, SeqEqual
  <1> QED
    BY <1>4, <1>9 DEF hello

(* The input of a MAC tells the address: the challenge before it has a      *)
(* fixed length.                                                            *)
LEMMA MacOfInput ==
    ASSUME NEW pre \in Seq(Byte), NEW c \in Seq(Byte), NEW d \in Seq(Byte),
           NEW m \in Seq(Byte), NEW n \in Seq(Byte),
           Len(c) = Len(d), pre \o c \o m = pre \o d \o n
    PROVE  m = n
  <1> DEFINE left == pre \o c
             right == pre \o d
             l == left \o m
             r == right \o n
  <1>1. left \in Seq(Byte) /\ right \in Seq(Byte) /\ Len(left) = Len(right) /\ Len(left) \in Nat
    <2>1. left \in Seq(Byte) /\ Len(left) = Len(pre) + Len(c)
      BY ConcatProperties, Zenon
    <2>2. right \in Seq(Byte) /\ Len(right) = Len(pre) + Len(d)
      BY ConcatProperties, Zenon
    <2> HIDE DEF left, right
    <2> QED
      BY <2>1, <2>2
  <1> HIDE DEF left, right
  <1>2. /\ l \in Seq(Byte) /\ Len(l) = Len(left) + Len(m)
        /\ \A i \in 1 .. Len(left) + Len(m) :
              l[i] = IF i <= Len(left) THEN left[i] ELSE m[i - Len(left)]
    BY <1>1, ConcatProperties, Zenon
  <1>3. /\ r \in Seq(Byte) /\ Len(r) = Len(right) + Len(n)
        /\ \A i \in 1 .. Len(right) + Len(n) :
              r[i] = IF i <= Len(right) THEN right[i] ELSE n[i - Len(right)]
    BY <1>1, ConcatProperties, Zenon
  <1>4. l = r
    BY DEF left, right
  <1> HIDE DEF l, r
  <1>5. Len(m) \in Nat /\ Len(n) \in Nat
    OBVIOUS
  <1>6. Len(m) = Len(n)
    BY <1>1, <1>2, <1>3, <1>4, <1>5
  <1>7. ASSUME NEW i \in 1 .. Len(m) PROVE m[i] = n[i]
    <2> DEFINE j == Len(left) + i
    <2>1. j \in 1 .. Len(left) + Len(m) /\ ~(j <= Len(left)) /\ j - Len(left) = i
      BY <1>1, <1>5
    <2>2. l[j] = m[i]
      BY <1>2, <2>1
    <2>3. r[j] = n[i]
      BY <1>1, <1>3, <1>6, <2>1
    <2> QED
      BY <1>4, <2>2, <2>3
  <1> QED
    BY <1>6, <1>7, SeqEqual


(* What appending, taking and joining do to queues of one or two messages.  *)
LEMMA ShortQueues ==
    ASSUME NEW a, NEW b
    PROVE  /\ Append(<<>>, a) = <<a>>
           /\ Head(<<a>>) = a /\ Tail(<<a>>) = <<>>
           /\ Head(<<a, b>>) = a /\ Tail(<<a, b>>) = <<b>>
           /\ <<>> \o <<>> = <<>> /\ <<>> \o <<a>> = <<a>> /\ <<a>> \o <<b>> = <<a, b>>
           /\ <<a>> # <<>> /\ <<a, b>> # <<>>
  <1> DEFINE S == {a, b}
  <1>1. <<a>> \in Seq(S) /\ <<b>> \in Seq(S) /\ <<>> \in Seq(S) /\ <<a, b>> \in Seq(S)
    OBVIOUS
  <1>2. <<>> \o <<>> = <<>> /\ <<>> \o <<a>> = <<a>>
    BY <1>1, ConcatEmptySeq
  <1>3. <<a>> \o <<b>> = <<a, b>>
    <2> DEFINE s == <<a>> \o <<b>>
    <2>1. s \in Seq(S) /\ Len(s) = 2 /\ s[1] = a /\ s[2] = b
      BY <1>1, ConcatProperties
    <2> HIDE DEF s
    <2> DEFINE t == <<a, b>>
    <2>2. t \in Seq(S) /\ Len(t) = 2 /\ t[1] = a /\ t[2] = b
      OBVIOUS
    <2> HIDE DEF t
    <2>3. s = t
      BY <2>1, <2>2, SeqEqual
    <2> QED
      BY <2>3 DEF s, t
  <1>4. Append(<<>>, a) = <<a>>
    <2> DEFINE s == Append(<<>>, a)
               t == <<a>>
    <2>1. s \in Seq(S) /\ Len(s) = 1 /\ s[1] = a
      BY <1>1, AppendProperties
    <2>2. t \in Seq(S) /\ Len(t) = 1 /\ t[1] = a
      OBVIOUS
    <2> HIDE DEF s, t
    <2>3. s = t
      BY <2>1, <2>2, SeqEqual
    <2> QED
      BY <2>3 DEF s, t
  <1>6. Head(<<a>>) = a /\ Head(<<a, b>>) = a
    OBVIOUS
  <1>7. Tail(<<a>>) = <<>>
    OBVIOUS
  <1>8. Tail(<<a, b>>) = <<b>>
    OBVIOUS
  <1>9. <<a>> # <<>>
    OBVIOUS
  <1>10. <<a, b>> # <<>>
    OBVIOUS
  <1> QED
    BY <1>2, <1>3, <1>4, <1>6, <1>7, <1>8, <1>9, <1>10

(* A proof tells who made it: with the identity given, equal proofs are     *)
(* from equal configurations, whatever the challenges.                      *)
LEMMA ProofTells ==
    ASSUME NEW c \in Clients, NEW d \in Clients, c.id = d.id,
           NEW x \in Challenges, NEW y \in Challenges,
           Proof(c.key, x, c.id, c.mac) # None,
           Proof(c.key, x, c.id, c.mac) = Proof(d.key, y, d.id, d.mac)
    PROVE  c = d
  <1>1. /\ c.id \in Seq(Byte) /\ c.mac \in Seq(Byte) /\ d.mac \in Seq(Byte)
        /\ x \in Seq(Byte) /\ y \in Seq(Byte)
        /\ c = [id |-> c.id, key |-> c.key, mac |-> c.mac]
        /\ d = [id |-> d.id, key |-> d.key, mac |-> d.mac]
    BY ClientsAssumption, ChallengesAssumption
  <1> DEFINE pre == c.id \o <<0>>
  <1>2. pre \in Seq(Byte)
    BY <1>1 DEF Byte
  <1> HIDE DEF pre
  <1>3. /\ Len(x) = ChallengeSize
        /\ Proof(c.key, x, c.id, c.mac) = <<c.key, pre \o x \o c.mac>>
    BY DEF Proof, pre
  <1>4. /\ Len(y) = ChallengeSize
        /\ Proof(d.key, y, d.id, d.mac) = <<d.key, pre \o y \o d.mac>>
    BY DEF Proof, pre
  <1>5. c.key = d.key /\ pre \o x \o c.mac = pre \o y \o d.mac
    <2> DEFINE l == pre \o x \o c.mac
               r == pre \o y \o d.mac
    <2>1. <<c.key, l>> = <<d.key, r>>
      BY <1>3, <1>4
    <2> HIDE DEF l, r
    <2>2. c.key = d.key /\ l = r
      BY <2>1
    <2> QED
      BY <2>2 DEF l, r
  <1>6. c.mac = d.mac
    BY <1>1, <1>2, <1>3, <1>4, <1>5, MacOfInput
  <1> QED
    BY <1>1, <1>5, <1>6
----------------------------------------------------------------------------
(***************************************************************************)
(* The handshake: the inductive invariant.                                 *)
(***************************************************************************)
\* The client's proof for some challenge is on its way.
AnswerSent ==
    \E ch \in Challenges :
        /\ Proof(client.key, ch, client.id, client.mac) # None
        /\ toRelay = <<Bin(Proof(client.key, ch, client.id, client.mac))>>

\* A program that is no client: only what it may send is on its way.
OtherInv ==
    /\ cpc = "hello" /\ rpc # "connected"
    /\ toRelay = <<>> \/ \E m \in Messages : toRelay = <<m>>

\* A client: where the two ends stand, and what is on its way between them.
ClientInv ==
    /\ cpc = "hello" => toRelay = <<>> /\ toClient = <<>> /\ rpc \in {"hello", "failed"}
    /\ rpc = "hello" =>
          /\ cpc \in {"hello", "challenge", "failed"}
          /\ \/ toRelay = <<>>
             \/ /\ MarshalHello(client.id) # None
                /\ toRelay = <<Bin(MarshalHello(client.id))>>
    /\ rpc = "proof" =>
          /\ found.id = client.id /\ cpc \in {"challenge", "result", "failed"}
          /\ toRelay = <<>> \/ AnswerSent
          /\ cpc = "challenge" => toRelay = <<>> /\ toClient = <<Bin(challenge)>>
          /\ cpc = "result" => toClient = <<>>
    /\ rpc = "connected" => found = client /\ cpc \in {"result", "connected", "failed"}
    /\ rpc = "failed" =>
          /\ cpc # "connected"
          /\ cpc = "challenge" =>
                toClient = <<>> \/ \E ch \in Challenges : toClient = <<Bin(ch), AuthFailed>>
          /\ cpc = "result" => toClient = <<>> \/ toClient = <<AuthFailed>>

HandInv ==
    /\ client \in Clients \cup {None} /\ list \in Lists
    /\ cpc \in {"hello", "challenge", "result"} \cup Done
    /\ rpc \in {"hello", "proof"} \cup Done
    /\ rpc \in {"proof", "connected"} => found \in list /\ challenge \in Challenges
    /\ rpc = "hello" => toClient = <<>>
    /\ client = None => OtherInv
    /\ client # None => ClientInv

(* The handshake begins with nothing sent.                                  *)
LEMMA HandInit == Init => HandInv
  BY NoneAssumption DEF Init, HandInv, OtherInv, ClientInv, Done

(* The invariant says what EndsAgree promises.                              *)
LEMMA HandAgrees ==
    ASSUME HandInv
    PROVE  EndsAgree
  <1>1. client = None \/ client \in Clients
    BY DEF HandInv
  <1>2. RelayKnowsClient
    BY <1>1 DEF HandInv, OtherInv, ClientInv, RelayKnowsClient
  <1>3. ClientKnowsRelay
    <2> SUFFICES ASSUME cpc = "connected" PROVE rpc = "connected" /\ found = client
      BY DEF ClientKnowsRelay
    <2>1. client # None /\ ClientInv /\ rpc \in {"hello", "proof", "connected", "failed"}
      BY DEF HandInv, OtherInv, Done
    <2> QED
      BY <2>1 DEF ClientInv
  <1>4. HelloExact
    <2> SUFFICES ASSUME rpc = "hello", toRelay # <<>>
                 PROVE  /\ ParseHello(Head(toRelay).bytes) # None =>
                              MarshalHello(ParseHello(Head(toRelay).bytes)) = Head(toRelay).bytes
                        /\ client # None => ParseHello(Head(toRelay).bytes) = client.id
      BY DEF HelloExact
    <2>1. CASE client = None
      <3>1. PICK m \in Messages : toRelay = <<m>>
        BY <2>1 DEF HandInv, OtherInv
      <3>2. Head(toRelay) = m
        BY <3>1, ShortQueues
      <3>3. CASE m.bytes \in Seq(Byte)
        BY <2>1, <3>2, <3>3, MarshalParse
      <3>4. CASE Len(m.bytes) = 2
        <4>1. ParseHello(m.bytes) = None
          BY <3>4 DEF ParseHello
        <4> QED
          BY <2>1, <3>2, <4>1
      <3> QED
        BY <3>3, <3>4, MessagesAssumption
    <2>2. CASE client # None
      <3>1. client.id \in Seq(Byte)
        BY <1>1, <2>2, ClientsAssumption
      <3>2. /\ MarshalHello(client.id) # None
            /\ toRelay = <<Bin(MarshalHello(client.id))>>
        BY <2>2 DEF HandInv, ClientInv
      <3>3. Head(toRelay) = Bin(MarshalHello(client.id))
        BY <3>2, ShortQueues
      <3>4. Head(toRelay).bytes = MarshalHello(client.id)
        BY <3>3 DEF Bin
      <3>5. ParseHello(Head(toRelay).bytes) = client.id
        BY <3>1, <3>2, <3>4, ParseMarshal
      <3> QED
        BY <3>4, <3>5
    <2> QED
      BY <2>1, <2>2
  <1> QED
    BY <1>2, <1>3, <1>4 DEF EndsAgree

(* A client that gives up, for whatever reason.                             *)
LEMMA ClientFailsHand ==
    ASSUME HandInv, client # None, ClientFails
    PROVE  HandInv'
  <1>1. /\ cpc' = "failed" /\ client' = client /\ list' = list /\ rpc' = rpc
        /\ toRelay' = toRelay /\ toClient' = toClient /\ challenge' = challenge /\ found' = found
        /\ ClientInv
    BY DEF ClientFails, HandInv
  <1>2. cpc # "connected" \/ rpc = "connected"
    BY <1>1 DEF HandInv, ClientInv, Done
  <1>3. AnswerSent => AnswerSent'
    BY <1>1 DEF AnswerSent
  <1>4. ClientInv'
    BY <1>1, <1>3 DEF ClientInv
  <1> QED
    BY <1>1, <1>4 DEF HandInv, Done

(* The client's side: hello, the answer to the challenge, the result.       *)
LEMMA ClientStepHand ==
    ASSUME HandInv, ClientStep
    PROVE  HandInv'
  <1>1. client # None /\ client \in Clients /\ ClientInv
    BY DEF HandInv, ClientStep, ClientHello, ClientChallenge, ClientResult, ClientTimeout
  <1>2. CASE ClientHello
    <2> DEFINE hello == MarshalHello(client.id)
    <2>1. CASE hello = None
      BY <1>1, <1>2, <2>1, ClientFailsHand DEF ClientHello
    <2>2. CASE hello # None
      <3>1. /\ cpc = "hello" /\ cpc' = "challenge" /\ toRelay' = Append(toRelay, Bin(hello))
            /\ client' = client /\ list' = list /\ rpc' = rpc /\ toClient' = toClient
            /\ challenge' = challenge /\ found' = found
        BY <1>2, <2>2 DEF ClientHello
      <3>2. toRelay = <<>> /\ toClient = <<>> /\ rpc \in {"hello", "failed"}
        BY <1>1, <3>1 DEF ClientInv
      <3>3. toRelay' = <<Bin(hello)>>
        BY <3>1, <3>2, ShortQueues
      <3> HIDE DEF hello
      <3>4. ClientInv'
        BY <2>2, <3>1, <3>2, <3>3 DEF ClientInv, hello
      <3> QED
        BY <1>1, <3>1, <3>4 DEF HandInv, Done
    <2> QED
      BY <2>1, <2>2
  <1>3. CASE ClientChallenge
    <2> DEFINE message == Head(toClient)
               proof == Proof(client.key, message.bytes, client.id, client.mac)
    <2>1. CASE ~message.binary \/ proof = None
      BY <1>1, <1>3, <2>1, ClientFailsHand DEF ClientChallenge
    <2>2. CASE ~(~message.binary \/ proof = None)
      <3>1. /\ cpc = "challenge" /\ cpc' = "result" /\ toRelay' = Append(toRelay, Bin(proof))
            /\ toClient' = Tail(toClient) /\ toClient # <<>>
            /\ client' = client /\ list' = list /\ rpc' = rpc
            /\ challenge' = challenge /\ found' = found
        BY <1>3, <2>2 DEF ClientChallenge
      <3>2. CASE rpc = "proof"
        <4>1. /\ toRelay = <<>> /\ toClient = <<Bin(challenge)>> /\ challenge \in Challenges
              /\ found.id = client.id
          BY <1>1, <3>1, <3>2 DEF HandInv, ClientInv
        <4>2. message = Bin(challenge) /\ toClient' = <<>>
          BY <3>1, <4>1, ShortQueues
        <4>3. message.bytes = challenge
          BY <4>2 DEF Bin
        <4>4. toRelay' = <<Bin(proof)>>
          BY <3>1, <4>1, ShortQueues
        <4>5. AnswerSent'
          BY <2>2, <3>1, <4>1, <4>3, <4>4 DEF AnswerSent
        <4>6. ClientInv'
          BY <3>1, <3>2, <4>1, <4>2, <4>5 DEF ClientInv
        <4> QED
          BY <1>1, <3>1, <3>2, <4>6 DEF HandInv, Done
      <3>3. CASE rpc = "failed"
        <4>1. PICK ch \in Challenges : toClient = <<Bin(ch), AuthFailed>>
          BY <1>1, <3>1, <3>3 DEF ClientInv
        <4>2. toClient' = <<AuthFailed>>
          BY <3>1, <4>1, ShortQueues
        <4>3. ClientInv'
          BY <3>1, <3>3, <4>2 DEF ClientInv
        <4> QED
          BY <1>1, <3>1, <3>3, <4>3 DEF HandInv, Done
      <3>4. rpc \in {"proof", "failed"}
        BY <1>1, <3>1 DEF HandInv, ClientInv, Done
      <3> QED
        BY <3>2, <3>3, <3>4
    <2> QED
      BY <2>1, <2>2
  <1>4. CASE ClientResult
    <2>1. CASE Head(toClient) # AuthOK
      BY <1>1, <1>4, <2>1, ClientFailsHand DEF ClientResult
    <2>2. CASE Head(toClient) = AuthOK
      <3>1. /\ cpc = "result" /\ cpc' = "connected" /\ toClient # <<>>
            /\ client' = client /\ list' = list /\ rpc' = rpc /\ toRelay' = toRelay
            /\ challenge' = challenge /\ found' = found
        BY <1>4, <2>2 DEF ClientResult
      <3>2. AuthFailed # AuthOK
        <4>1. <<0>> # <<1>>
          OBVIOUS
        <4>2. AuthFailed.bytes # AuthOK.bytes
          BY <4>1 DEF AuthFailed, AuthOK, Bin
        <4> QED
          BY <4>2
      <3>3. rpc # "failed"
        <4>1. rpc = "failed" => toClient = <<AuthFailed>>
          BY <1>1, <3>1 DEF ClientInv
        <4>2. rpc = "failed" => Head(toClient) = AuthFailed
          BY <4>1, ShortQueues
        <4> QED
          BY <2>2, <3>2, <4>2
      <3>4. rpc = "connected"
        BY <1>1, <3>1, <3>3 DEF HandInv, ClientInv, Done
      <3>5. ClientInv'
        BY <1>1, <3>1, <3>4 DEF ClientInv
      <3> QED
        BY <1>1, <3>1, <3>4, <3>5 DEF HandInv, Done
    <2> QED
      BY <2>1, <2>2
  <1>5. CASE ClientTimeout
    BY <1>1, <1>5, ClientFailsHand DEF ClientTimeout
  <1> QED
    BY <1>2, <1>3, <1>4, <1>5 DEF ClientStep

(* A relay that gives up, before the challenge silently and after it with   *)
(* an answer.                                                               *)
LEMMA RelayFailsHand ==
    ASSUME HandInv, \/ rpc = "hello" /\ RelayFails(<<>>)
                    \/ rpc = "proof" /\ RelayFails(<<AuthFailed>>)
    PROVE  HandInv'
  <1>1. /\ rpc' = "failed" /\ client' = client /\ list' = list /\ cpc' = cpc
        /\ toRelay' = toRelay /\ challenge' = challenge /\ found' = found
    BY DEF RelayFails
  <1>2. CASE client = None
    BY <1>1, <1>2 DEF HandInv, OtherInv, Done
  <1>3. CASE client # None
    <2>1. ClientInv
      BY <1>3 DEF HandInv
    <2>2. CASE rpc = "hello"
      <3>1. toClient = <<>> /\ toClient' = toClient \o <<>>
        BY <2>2 DEF HandInv, RelayFails
      <3>2. toClient' = <<>>
        BY <3>1, ShortQueues
      <3>3. ClientInv'
        BY <1>1, <2>1, <2>2, <3>2 DEF ClientInv
      <3> QED
        BY <1>1, <1>3, <3>3 DEF HandInv, Done
    <2>3. CASE rpc = "proof"
      <3>1. toClient' = toClient \o <<AuthFailed>> /\ challenge \in Challenges
        BY <2>3 DEF HandInv, RelayFails
      <3>2. cpc = "challenge" => toClient' = <<Bin(challenge), AuthFailed>>
        BY <2>1, <2>3, <3>1, ShortQueues DEF ClientInv
      <3>3. cpc = "result" => toClient' = <<AuthFailed>>
        BY <2>1, <2>3, <3>1, ShortQueues DEF ClientInv
      <3>4. cpc \in {"challenge", "result", "failed"}
        BY <2>1, <2>3 DEF ClientInv
      <3>5. ClientInv'
        BY <1>1, <3>1, <3>2, <3>3, <3>4 DEF ClientInv
      <3> QED
        BY <1>1, <1>3, <3>5 DEF HandInv, Done
    <2> QED
      BY <2>2, <2>3
  <1> QED
    BY <1>2, <1>3

(* The relay's side: the look-up of the hello, and the proof.               *)
LEMMA RelayStepHand ==
    ASSUME HandInv, RelayStep
    PROVE  HandInv'
  <1>1. CASE RelayHello
    <2> DEFINE message == Head(toRelay)
               id == ParseHello(message.bytes)
               entries == {c \in list : c.id = id}
    <2>1. rpc = "hello" /\ toRelay # <<>> /\ toClient = <<>>
      BY <1>1 DEF RelayHello, HandInv
    <2>2. CASE ~message.binary \/ id = None \/ entries = {}
      BY <1>1, <2>1, <2>2, RelayFailsHand DEF RelayHello
    <2>3. CASE ~(~message.binary \/ id = None \/ entries = {})
      <3>1. /\ found' \in entries /\ toRelay' = Tail(toRelay) /\ rpc' = "proof"
            /\ client' = client /\ list' = list /\ cpc' = cpc
            /\ \E chal \in Challenges :
                  challenge' = chal /\ toClient' = Append(toClient, Bin(chal))
        BY <1>1, <2>3 DEF RelayHello
      <3>2. challenge' \in Challenges /\ toClient' = <<Bin(challenge')>>
        BY <2>1, <3>1, ShortQueues
      <3>3. found' \in list /\ found'.id = id
        BY <3>1
      <3>4. CASE client = None
        <4>1. PICK m \in Messages : toRelay = <<m>>
          BY <2>1, <3>4 DEF HandInv, OtherInv
        <4>2. toRelay' = <<>>
          BY <3>1, <4>1, ShortQueues
        <4>3. OtherInv'
          BY <3>1, <3>4, <4>2 DEF HandInv, OtherInv
        <4> QED
          BY <3>1, <3>2, <3>3, <3>4, <4>3 DEF HandInv, Done
      <3>5. CASE client # None
        <4>1. ClientInv
          BY <3>5 DEF HandInv
        <4>2. toRelay = <<Bin(MarshalHello(client.id))>>
          BY <2>1, <4>1 DEF ClientInv
        <4>3. toRelay' = <<>>
          BY <3>1, <4>2, ShortQueues
        <4>4. id = client.id
          BY <2>1, <3>5, HandAgrees DEF EndsAgree, HelloExact
        <4>5. cpc \in {"challenge", "failed"}
          BY <2>1, <4>1 DEF ClientInv
        <4> HIDE DEF id, message, entries
        <4>6. ClientInv'
          BY <3>1, <3>2, <3>3, <4>3, <4>4, <4>5 DEF ClientInv
        <4> QED
          BY <3>1, <3>2, <3>3, <3>5, <4>6 DEF HandInv, Done
      <3> QED
        BY <3>4, <3>5
    <2> QED
      BY <2>2, <2>3
  <1>2. CASE RelayProof
    <2> DEFINE message == Head(toRelay)
    <2>1. /\ rpc = "proof" /\ toRelay # <<>> /\ found \in list /\ challenge \in Challenges
          /\ list \in Lists
      BY <1>2 DEF RelayProof, HandInv
    <2>2. found \in Clients
      BY <2>1, ListsAssumption
    <2>3. CASE ~message.binary \/ ~VerifyProof(found.key, challenge, found.id, found.mac,
                                               message.bytes)
      BY <1>2, <2>1, <2>3, RelayFailsHand DEF RelayProof
    <2>4. CASE ~(~message.binary \/ ~VerifyProof(found.key, challenge, found.id, found.mac,
                                                 message.bytes))
      <3>1. /\ rpc' = "connected" /\ client' = client /\ list' = list /\ cpc' = cpc
            /\ challenge' = challenge /\ found' = found
        BY <1>2, <2>4 DEF RelayProof
      <3>2. VerifyProof(found.key, challenge, found.id, found.mac, message.bytes)
        BY <2>4
      <3>3. client # None
        <4> SUFFICES ASSUME client = None PROVE FALSE
          OBVIOUS
        <4>1. PICK m \in Messages : toRelay = <<m>>
          BY <2>1 DEF HandInv, OtherInv
        <4>2. message = m
          BY <4>1, ShortQueues
        <4> QED
          BY <2>1, <3>2, <4>2, MessagesAssumption
      <3>4. client \in Clients /\ ClientInv
        BY <3>3 DEF HandInv
      <3>5. AnswerSent /\ found.id = client.id /\ cpc \in {"result", "failed"}
        BY <2>1, <3>4 DEF ClientInv
      <3>6. PICK ch \in Challenges :
                 /\ Proof(client.key, ch, client.id, client.mac) # None
                 /\ toRelay = <<Bin(Proof(client.key, ch, client.id, client.mac))>>
        BY <3>5 DEF AnswerSent
      <3>7. message = Bin(Proof(client.key, ch, client.id, client.mac))
        BY <3>6, ShortQueues
      <3>8. message.bytes = Proof(client.key, ch, client.id, client.mac)
        BY <3>7 DEF Bin
      <3>9. Proof(client.key, ch, client.id, client.mac)
              = Proof(found.key, challenge, found.id, found.mac)
        BY <3>2, <3>8 DEF VerifyProof
      <3>10. client = found
        BY <2>1, <2>2, <3>4, <3>5, <3>6, <3>9, ProofTells
      <3>11. ClientInv'
        BY <3>1, <3>5, <3>10 DEF ClientInv
      <3> QED
        BY <2>1, <3>1, <3>3, <3>11 DEF HandInv, Done
    <2> QED
      BY <2>3, <2>4
  <1>3. CASE RelayTimeout
    <2>1. rpc \in {"hello", "proof"}
      BY <1>3 DEF RelayTimeout, HandInv, Done
    <2> QED
      BY <1>3, <2>1, RelayFailsHand DEF RelayTimeout
  <1> QED
    BY <1>1, <1>2, <1>3 DEF RelayStep

(* Every step of the connection preserves the handshake's invariant.        *)
LEMMA HandNext == HandInv /\ [ConnectionNext]_<<vars, aliveVars, dropVars, part>> => HandInv'
  <1> SUFFICES ASSUME HandInv, [ConnectionNext]_<<vars, aliveVars, dropVars, part>>
               PROVE  HandInv'
    OBVIOUS
  <1>1. CASE UNCHANGED vars
    <2>1. /\ client' = client /\ list' = list /\ cpc' = cpc /\ rpc' = rpc
          /\ toRelay' = toRelay /\ toClient' = toClient /\ challenge' = challenge
          /\ found' = found
      BY <1>1 DEF vars
    <2>2. AnswerSent' = AnswerSent
      BY <2>1 DEF AnswerSent
    <2>3. (OtherInv => OtherInv') /\ (ClientInv => ClientInv')
      BY <2>1, <2>2 DEF OtherInv, ClientInv
    <2> QED
      BY <2>1, <2>3 DEF HandInv
  <1>2. CASE Handshakes
    <2>1. CASE ClientStep
      BY <2>1, ClientStepHand
    <2>2. CASE RelayStep
      BY <2>2, RelayStepHand
    <2>3. CASE OtherSends
      <3>1. /\ client = None /\ client' = client /\ list' = list /\ cpc' = cpc /\ rpc' = rpc
            /\ toClient' = toClient /\ challenge' = challenge /\ found' = found
            /\ \E m \in Messages : toRelay' = <<m>>
        BY <2>3 DEF OtherSends
      <3>2. OtherInv'
        BY <3>1 DEF HandInv, OtherInv
      <3> QED
        BY <3>1, <3>2 DEF HandInv
    <2> QED
      BY <1>2, <2>1, <2>2, <2>3 DEF Handshakes, Next
  <1> QED
    BY <1>1, <1>2 DEF ConnectionNext, StaysAlive, Reports

(* The two ends of a handshake agree on who the client is, for any client   *)
(* lists, bundles that are out of date and programs that are no clients:    *)
(* the relay's authenticate accepts the configuration of its list only, a   *)
(* client that believes it is connected is, and a hello has one spelling.   *)
THEOREM HandshakeAgreement == ConnectionSafety => []EndsAgree
  <1>1. ConnectionInit => HandInv
    BY HandInit DEF ConnectionInit
  <1>2. HandInv => EndsAgree
    BY HandAgrees
  <1> QED
    BY <1>1, <1>2, HandNext, PTL DEF ConnectionSafety
----------------------------------------------------------------------------
(***************************************************************************)
(* The timers of a session (KeepAlive): the inductive invariant.  A promise *)
(* is something that will set the read deadline of e anew, and the deadline *)
(* leaves the units of time that it may take.                               *)
(***************************************************************************)
Message == [kind : {"ping", "pong", "frame"}, age : 0 .. Delay]
OnWay(e) == Range(inbox[e])
Other(e) == Alive!Peer(e)

\* From a ping to its pong, or to the frame that cost the pong.
PongTime == 2 * Delay + Alive!WriteWait

\* The frames that a ping which is due may still wait for, and all that a ping
\* which is not yet due may have to.
PingWait(e) ==
    IF e = "relay"
      THEN (MaxSkips - skips) * Alive!WriteWait
               + (IF busy[e] > 0 THEN Alive!WriteWait + 1 - busy[e] ELSE 0)
      ELSE 0
MaxPingWait(e) == IF e = "relay" THEN (MaxSkips + 1) * Alive!WriteWait ELSE 0

\* The next ping, a ping that is due, a ping under way, a frame that the other
\* end is writing, a pong or a frame under way.
WillPing(e) == ~due[e] /\ deadline[e] > ticker[e] + MaxPingWait(e) + PongTime
HasToPing(e) == due[e] /\ deadline[e] > PingWait(e) + PongTime
HasPinged(e) ==
    \E m \in OnWay(Other(e)) : m.kind = "ping" /\ deadline[e] > PongTime - m.age
IsSentFrame(e) ==
    busy[Other(e)] > 0 /\ deadline[e] > Alive!WriteWait + 1 - busy[Other(e)] + Delay
WillRefresh(e) ==
    \E m \in OnWay(e) : m.kind # "ping" /\ deadline[e] > Delay - m.age

\* The other end has closed: what it sent before is read in time.
WillSeeEOF(e) == \A m \in OnWay(e) : deadline[e] > Delay - m.age

Promised(e) ==
    IF end[Other(e)] = "open"
      THEN WillPing(e) \/ HasToPing(e) \/ HasPinged(e) \/ IsSentFrame(e) \/ WillRefresh(e)
      ELSE WillRefresh(e) \/ WillSeeEOF(e)

InTime(e) ==
    net = "up" /\ Alive!Timeout(e) > Alive!LongestSilence(e) =>
        /\ end[e] # "read"
        /\ end[e] = "open" => deadline[e] > 0 /\ Promised(e)

SkipsOwed == end["relay"] = "open" /\ skips > 0 => due["relay"]

AliveInv == Alive!TypeOK /\ SkipsOwed /\ \A e \in Alive!Ends : InTime(e)

(* The constants are numbers.                                               *)
LEMMA AliveConstants == Delay \in Nat /\ MaxSkips \in Nat /\ Idles \subseteq Nat \ {0}
  BY PartsAssumption DEF Alive!IdlesAssumption, Alive!DelayAssumption, Alive!SkipsAssumption

(* The type invariant, with the periods as numbers.                         *)
LEMMA AliveNumbers ==
    ASSUME Alive!TypeOK, NEW e \in Alive!Ends
    PROVE  /\ idle \in Nat \ {0} /\ skips \in 0 .. MaxSkips
           /\ Other(e) \in Alive!Ends /\ Other(e) # e /\ Other(Other(e)) = e
           /\ \A x \in Alive!Ends : x = e \/ x = Other(e)
           /\ Alive!Period(e) \in Nat \ {0} /\ Alive!Timeout(e) \in Nat \ {0}
           /\ deadline[e] \in Nat /\ deadline[e] <= Alive!Timeout(e)
           /\ ticker[e] \in Nat \ {0} /\ ticker[e] <= Alive!Period(e)
           /\ busy[e] \in 0 .. 2
           /\ due[e] \in BOOLEAN
           /\ inbox[e] \in Seq(Message)
           /\ \A m \in OnWay(e) :
                 m.kind \in {"ping", "pong", "frame"} /\ m.age \in Nat /\ m.age <= Delay
  <1> USE AliveConstants
  <1>1. idle \in Nat \ {0}
    BY DEF Alive!TypeOK
  <1>2. Alive!PingEvery \in Nat \ {0}
    BY <1>1 DEF Alive!PingEvery, Alive!MinimumPing
  <1>3. inbox[e] \in Seq(Message)
    BY DEF Alive!TypeOK, Message
  <1>4. OnWay(e) \subseteq Message
    BY <1>3 DEF OnWay, Range
  <1>5. /\ Other(e) \in Alive!Ends /\ Other(e) # e /\ Other(Other(e)) = e
        /\ \A x \in Alive!Ends : x = e \/ x = Other(e)
    BY DEF Other, Alive!Peer, Alive!Ends
  <1>6. Alive!Period(e) \in Nat \ {0} /\ Alive!Timeout(e) \in Nat \ {0}
    BY <1>1, <1>2 DEF Alive!Period, Alive!Timeout, Alive!ClientPing, Alive!ClientIdle
  <1>7. \A m \in Message :
           m.kind \in {"ping", "pong", "frame"} /\ m.age \in Nat /\ m.age <= Delay
    BY DEF Message
  <1> QED
    BY <1>1, <1>3, <1>4, <1>5, <1>6, <1>7 DEF Alive!TypeOK, Alive!WriteWait

(* An end that has just set its deadline anew has the next ping to wait for. *)
LEMMA Refreshed ==
    ASSUME Alive!TypeOK, SkipsOwed, NEW e \in Alive!Ends, end[e] = "open",
           Alive!Timeout(e) > Alive!LongestSilence(e), deadline[e] = Alive!Timeout(e)
    PROVE  deadline[e] > 0 /\ Promised(e)
  <1> USE AliveConstants
  <1>1. /\ idle \in Nat \ {0} /\ skips \in 0 .. MaxSkips
        /\ ticker[e] \in Nat \ {0} /\ ticker[e] <= Alive!Period(e) /\ busy[e] \in 0 .. 2
        /\ due[e] \in BOOLEAN /\ deadline[e] \in Nat
        /\ \A m \in OnWay(e) : m.age \in Nat
    BY AliveNumbers
  <1>2. deadline[e] > Alive!Period(e) + MaxPingWait(e) + PongTime
    <2>1. CASE e = "relay"
      <3>1. idle > (idle \div 3) + (MaxSkips + 1) + 1 + 2 * Delay
        BY <2>1 DEF Alive!Timeout, Alive!LongestSilence, Alive!WriteWait
      <3>2. idle > 2
        BY <1>1, <3>1
      <3>3. Alive!PingEvery = idle \div 3
        BY <1>1, <3>2 DEF Alive!PingEvery, Alive!MinimumPing
      <3> QED
        BY <2>1, <3>1, <3>3, <1>1
           DEF Alive!Period, MaxPingWait, PongTime, Alive!Timeout, Alive!WriteWait
    <2>2. CASE e # "relay"
      BY <2>2 DEF Alive!Period, MaxPingWait, PongTime, Alive!Timeout, Alive!LongestSilence,
                  Alive!WriteWait, Alive!ClientPing, Alive!ClientIdle
    <2> QED
      BY <2>1, <2>2
  <1>3. PingWait(e) <= MaxPingWait(e) /\ PingWait(e) \in Int /\ MaxPingWait(e) \in Nat
    BY <1>1 DEF PingWait, MaxPingWait, Alive!WriteWait
  <1>4. Alive!Period(e) \in Nat /\ PongTime \in Nat /\ PongTime > Delay
    BY AliveNumbers DEF PongTime, Alive!WriteWait
  <1>5. WillPing(e) \/ HasToPing(e)
    BY <1>1, <1>2, <1>3, <1>4 DEF WillPing, HasToPing
  <1>6. WillSeeEOF(e)
    BY <1>1, <1>2, <1>3, <1>4 DEF WillSeeEOF
  <1> QED
    BY <1>1, <1>2, <1>3, <1>4, <1>5, <1>6 DEF Promised

(* The session begins with both deadlines and tickers set.                  *)
LEMMA AliveInit == Alive!Init => AliveInv
  <1> SUFFICES ASSUME Alive!Init PROVE AliveInv
    OBVIOUS
  <1> USE AliveConstants
  <1>1. idle \in Nat \ {0}
    BY DEF Alive!Init
  <1>2. Alive!PingEvery \in Nat \ {0}
    BY <1>1 DEF Alive!PingEvery, Alive!MinimumPing
  <1>3. \A e \in Alive!Ends : Alive!Period(e) \in Nat \ {0} /\ Alive!Timeout(e) \in Nat \ {0}
    BY <1>1, <1>2 DEF Alive!Period, Alive!Timeout, Alive!ClientPing, Alive!ClientIdle
  <1>4. Alive!TypeOK
    BY <1>3 DEF Alive!Init, Alive!TypeOK, Alive!Ends, Alive!WriteWait
  <1>5. SkipsOwed
    BY DEF Alive!Init, SkipsOwed
  <1>6. \A e \in Alive!Ends : end[e] = "open" /\ deadline[e] = Alive!Timeout(e)
    BY DEF Alive!Init
  <1> QED
    BY <1>4, <1>5, <1>6, Refreshed DEF AliveInv, InTime

(* A message is added at the end of what is under way.                      *)
LEMMA Sending ==
    ASSUME NEW s \in Seq(Message), NEW m \in Message
    PROVE  Append(s, m) \in Seq(Message) /\ Range(Append(s, m)) = Range(s) \cup {m}
  <1>1. /\ Append(s, m) \in Seq(Message) /\ DOMAIN Append(s, m) = 1 .. Len(s) + 1
        /\ Append(s, m)[Len(s) + 1] = m
        /\ \A i \in 1 .. Len(s) : Append(s, m)[i] = s[i]
    OBVIOUS
  <1>2. DOMAIN s = 1 .. Len(s) /\ Len(s) \in Nat
    OBVIOUS
  <1>3. 1 .. Len(s) + 1 = (1 .. Len(s)) \cup {Len(s) + 1}
    BY <1>2
  <1> QED
    BY <1>1, <1>2, <1>3 DEF Range

(* It is read at the head.                                                  *)
LEMMA Reading ==
    ASSUME NEW s \in Seq(Message), s # <<>>
    PROVE  /\ Tail(s) \in Seq(Message) /\ Head(s) \in Range(s)
           /\ Range(s) = {Head(s)} \cup Range(Tail(s))
  <1>1. /\ Tail(s) \in Seq(Message) /\ DOMAIN Tail(s) = 1 .. Len(s) - 1
        /\ \A i \in 1 .. Len(s) - 1 : Tail(s)[i] = s[i + 1]
        /\ Head(s) = s[1]
    OBVIOUS
  <1>2. DOMAIN s = 1 .. Len(s) /\ Len(s) \in Nat \ {0}
    OBVIOUS
  <1>3. Range(s) \subseteq {Head(s)} \cup Range(Tail(s))
    <2> SUFFICES ASSUME NEW i \in 1 .. Len(s) PROVE s[i] \in {Head(s)} \cup Range(Tail(s))
      BY <1>2 DEF Range
    <2>1. CASE i = 1
      BY <1>1, <2>1
    <2>2. CASE i # 1
      <3>1. i - 1 \in 1 .. Len(s) - 1 /\ (i - 1) + 1 = i
        BY <1>2, <2>2
      <3> QED
        BY <1>1, <3>1 DEF Range
    <2> QED
      BY <2>1, <2>2
  <1>4. Range(Tail(s)) \subseteq Range(s)
    <2> SUFFICES ASSUME NEW i \in 1 .. Len(s) - 1 PROVE Tail(s)[i] \in Range(s)
      BY <1>1 DEF Range
    <2>1. i + 1 \in 1 .. Len(s)
      BY <1>2
    <2> QED
      BY <1>1, <1>2, <2>1 DEF Range
  <1> QED
    <2>1. Head(s) \in Range(s)
      BY <1>1, <1>2 DEF Range
    <2> QED
      BY <1>1, <1>3, <1>4, <2>1

(* x writes a message on a path that delivers.                              *)
LEMMA WrittenOnWay ==
    ASSUME Alive!TypeOK, NEW x \in Alive!Ends, NEW kind \in {"ping", "pong", "frame"},
           net = "up", inbox' = Alive!Written(x, kind)
    PROVE  /\ OnWay(x)' = OnWay(x)
           /\ OnWay(Other(x))' = OnWay(Other(x)) \cup {[kind |-> kind, age |-> 0]}
  <1> DEFINE m == [kind |-> kind, age |-> 0]
  <1>1. m \in Message
    BY AliveConstants DEF Message
  <1>2. Other(x) \in Alive!Ends /\ Other(x) # x /\ inbox[Other(x)] \in Seq(Message)
    BY AliveNumbers
  <1>3. inbox' = [inbox EXCEPT ![Other(x)] = Append(@, m)]
    BY DEF Alive!Written, Other
  <1>4. inbox'[x] = inbox[x] /\ inbox'[Other(x)] = Append(inbox[Other(x)], m)
    BY <1>2, <1>3 DEF Alive!TypeOK
  <1> HIDE DEF m
  <1>5. Range(Append(inbox[Other(x)], m)) = Range(inbox[Other(x)]) \cup {m}
    BY <1>1, <1>2, Sending
  <1>6. OnWay(x)' = OnWay(x) /\ OnWay(Other(x))' = OnWay(Other(x)) \cup {m}
    BY <1>4, <1>5 DEF OnWay, Other
  <1> QED
    BY <1>6 DEF m

----------------------------------------------------------------------------
(***************************************************************************)
(* Each action keeps the promises of both ends.                            *)
(***************************************************************************)
\* The invariant, when it is x that acts; below, e is x or the other end.
AliveAt(x) == Alive!TypeOK /\ SkipsOwed /\ (\A e \in Alive!Ends : InTime(e)) /\ x \in Alive!Ends

(* A ping that was due is under way.                                        *)
LEMMA PingInTime ==
    ASSUME NEW x, AliveAt(x), Alive!Ping(x),
           UNCHANGED <<idle, net, end, deadline, ticker, busy>>,
           x = "client" => skips' = skips,
           NEW e \in Alive!Ends
    PROVE  InTime(e)'
  <1> USE AliveConstants DEF AliveAt
  <1> SUFFICES ASSUME net = "up", Alive!Timeout(e) > Alive!LongestSilence(e), end[e] = "open"
               PROVE  deadline[e] > 0 /\ Promised(e)'
    BY DEF InTime, Alive!Timeout, Alive!LongestSilence
  <1>1. deadline[e] > 0 /\ Promised(e)
    BY DEF InTime
  <1>2. /\ skips \in 0 .. MaxSkips /\ busy[e] \in 0 .. 2 /\ deadline[e] \in Nat
        /\ Other(e) \in Alive!Ends /\ Other(e) # e /\ Other(Other(e)) = e
        /\ x = e \/ x = Other(e)
    BY AliveNumbers
  <1>3. /\ due[x] /\ end[x] = "open" /\ inbox' = Alive!Written(x, "ping")
        /\ due' = [due EXCEPT ![x] = FALSE]
    BY DEF Alive!Ping
  <1>4. /\ OnWay(x)' = OnWay(x)
        /\ OnWay(Other(x))' = OnWay(Other(x)) \cup {[kind |-> "ping", age |-> 0]}
    BY <1>3, WrittenOnWay
  <1>5. CASE x = e
    <2>1. HasToPing(e) => HasPinged(e)'
      <3>1. PingWait(e) \in Nat
        BY <1>2 DEF PingWait, Alive!WriteWait
      <3>2. [kind |-> "ping", age |-> 0] \in OnWay(Other(e))'
        BY <1>4, <1>5 DEF Other
      <3>3. [kind |-> "ping", age |-> 0].kind = "ping" /\ [kind |-> "ping", age |-> 0].age = 0
        OBVIOUS
      <3>4. HasToPing(e) => deadline[e] > PongTime - 0
        BY <1>2, <3>1 DEF HasToPing, PongTime, Alive!WriteWait
      <3> QED
        BY <3>2, <3>3, <3>4 DEF HasPinged, PongTime
    <2>2. ~WillPing(e)
      BY <1>3, <1>5 DEF WillPing
    <2>3. /\ HasPinged(e) => HasPinged(e)'
          /\ IsSentFrame(e) => IsSentFrame(e)'
          /\ WillRefresh(e) => WillRefresh(e)'
          /\ WillSeeEOF(e) => WillSeeEOF(e)'
      BY <1>4, <1>5 DEF HasPinged, IsSentFrame, WillRefresh, WillSeeEOF, PongTime, Other
    <2> QED
      BY <1>1, <2>1, <2>2, <2>3 DEF Promised, Other
  <1>6. CASE x = Other(e)
    <2>1. due'[e] = due[e]
      BY <1>2, <1>3, <1>6 DEF Alive!TypeOK
    <2>2. PingWait(e)' = PingWait(e)
      BY <1>2, <1>6 DEF PingWait, Alive!Ends
    <2>3. /\ WillPing(e) => WillPing(e)'
          /\ HasToPing(e) => HasToPing(e)'
      BY <2>1, <2>2 DEF WillPing, HasToPing, PongTime, MaxPingWait
    <2>4. /\ HasPinged(e) => HasPinged(e)'
          /\ IsSentFrame(e) => IsSentFrame(e)'
          /\ WillRefresh(e) => WillRefresh(e)'
      BY <1>2, <1>4, <1>6 DEF HasPinged, IsSentFrame, WillRefresh, PongTime, Other
    <2> QED
      BY <1>1, <1>3, <1>6, <2>3, <2>4 DEF Promised, Other
  <1> QED
    BY <1>2, <1>5, <1>6

(* The write of a frame begins: a relay's ping that is due waits for one     *)
(* more, and may be skipped once less.                                      *)
LEMMA WriteFrameInTime ==
    ASSUME NEW x, AliveAt(x), Alive!WriteFrame(x),
           UNCHANGED <<idle, net, inbox, end, deadline, ticker, due>>,
           x = "client" => skips' = skips,
           x = "relay" /\ due["relay"] => skips < MaxSkips /\ skips' = skips + 1,
           NEW e \in Alive!Ends
    PROVE  InTime(e)'
  <1> USE AliveConstants DEF AliveAt
  <1> SUFFICES ASSUME net = "up", Alive!Timeout(e) > Alive!LongestSilence(e), end[e] = "open"
               PROVE  deadline[e] > 0 /\ Promised(e)'
    BY DEF InTime, Alive!Timeout, Alive!LongestSilence
  <1>1. deadline[e] > 0 /\ Promised(e)
    BY DEF InTime
  <1>2. /\ skips \in 0 .. MaxSkips /\ busy[e] \in 0 .. 2 /\ deadline[e] \in Nat
        /\ Other(e) \in Alive!Ends /\ Other(e) # e
        /\ x = e \/ x = Other(e)
    BY AliveNumbers
  <1>3. busy[x] = 0 /\ busy' = [busy EXCEPT ![x] = 1] /\ busy \in [Alive!Ends -> 0 .. 2]
    BY DEF Alive!TypeOK, Alive!WriteWait, Alive!WriteFrame
  <1>4. /\ WillPing(e) => WillPing(e)'
        /\ HasPinged(e) => HasPinged(e)'
        /\ WillRefresh(e) => WillRefresh(e)'
        /\ WillSeeEOF(e) => WillSeeEOF(e)'
    BY DEF WillPing, MaxPingWait, HasPinged, WillRefresh, WillSeeEOF, PongTime, Other, OnWay
  <1>5. IsSentFrame(e) => IsSentFrame(e)'
    BY <1>2, <1>3 DEF IsSentFrame
  <1>6. HasToPing(e) => HasToPing(e)'
    BY <1>2, <1>3 DEF HasToPing, PingWait, PongTime, Alive!WriteWait, Alive!Ends
  <1> QED
    BY <1>1, <1>4, <1>5, <1>6 DEF Promised, Other

(* The frame is under way.                                                  *)
LEMMA FrameWrittenInTime ==
    ASSUME NEW x, AliveAt(x), Alive!FrameWritten(x), NEW e \in Alive!Ends
    PROVE  InTime(e)'
  <1> USE AliveConstants DEF AliveAt
  <1> SUFFICES ASSUME net = "up", Alive!Timeout(e) > Alive!LongestSilence(e), end[e] = "open"
               PROVE  deadline[e] > 0 /\ Promised(e)'
    BY DEF InTime, Alive!Timeout, Alive!LongestSilence, Alive!FrameWritten
  <1>1. deadline[e] > 0 /\ Promised(e)
    BY DEF InTime
  <1>2. /\ skips \in 0 .. MaxSkips /\ busy[e] \in 0 .. 2 /\ deadline[e] \in Nat
        /\ Other(e) \in Alive!Ends /\ Other(e) # e /\ Other(Other(e)) = e
        /\ busy[Other(e)] \in 0 .. 2
        /\ x = e \/ x = Other(e)
    <2>1. Other(e) \in Alive!Ends
      BY AliveNumbers
    <2> QED
      BY <2>1, AliveNumbers
  <1>3. /\ busy[x] > 0 /\ end[x] = "open" /\ inbox' = Alive!Written(x, "frame")
        /\ busy' = [busy EXCEPT ![x] = 0]
        /\ UNCHANGED <<idle, net, end, deadline, ticker, due, skips, wrote>>
    BY DEF Alive!FrameWritten
  <1>4. /\ OnWay(x)' = OnWay(x)
        /\ OnWay(Other(x))' = OnWay(Other(x)) \cup {[kind |-> "frame", age |-> 0]}
    BY <1>3, WrittenOnWay
  <1>5. /\ WillPing(e) => WillPing(e)'
        /\ HasPinged(e) => HasPinged(e)'
        /\ WillRefresh(e) => WillRefresh(e)'
    BY <1>2, <1>3, <1>4
       DEF WillPing, MaxPingWait, HasPinged, WillRefresh, PongTime, Other
  <1>6. HasToPing(e) => HasToPing(e)'
    <2>1. busy'[e] = busy[e] \/ busy'[e] = 0
      BY <1>2, <1>3 DEF Alive!TypeOK
    <2> QED
      BY <1>2, <1>3, <2>1 DEF HasToPing, PingWait, PongTime, Alive!WriteWait
  <1>7. CASE x = e
    <2>1. IsSentFrame(e) => IsSentFrame(e)'
      BY <1>2, <1>3, <1>7 DEF IsSentFrame, Other, Alive!TypeOK
    <2>2. WillSeeEOF(e) => WillSeeEOF(e)'
      BY <1>3, <1>4, <1>7 DEF WillSeeEOF
    <2> QED
      BY <1>1, <1>3, <1>5, <1>6, <2>1, <2>2 DEF Promised, Other
  <1>8. CASE x = Other(e)
    <2>1. IsSentFrame(e) => WillRefresh(e)'
      <3>1. [kind |-> "frame", age |-> 0] \in OnWay(e)'
        BY <1>2, <1>4, <1>8
      <3>2. [kind |-> "frame", age |-> 0].kind = "frame" /\ [kind |-> "frame", age |-> 0].age = 0
        OBVIOUS
      <3>3. IsSentFrame(e) => deadline[e] > Delay - 0
        BY <1>2 DEF IsSentFrame, Alive!WriteWait
      <3> QED
        BY <1>3, <3>1, <3>2, <3>3 DEF WillRefresh
    <2> QED
      BY <1>1, <1>3, <1>5, <1>6, <1>8, <2>1 DEF Promised, Other
  <1> QED
    BY <1>2, <1>7, <1>8
(* x closes: whatever was promised leaves the other end the time to read     *)
(* what is under way.                                                       *)
LEMMA CloseInTime ==
    ASSUME NEW x, AliveAt(x), end[x] = "open", NEW why, why # "open", Alive!Close(x, why),
           why = "read" => deadline[x] = 0,
           UNCHANGED <<idle, net, inbox, deadline, ticker, due, busy, skips>>,
           NEW e \in Alive!Ends
    PROVE  InTime(e)'
  <1> USE AliveConstants DEF AliveAt
  <1>1. /\ deadline[e] \in Nat /\ busy[Other(e)] \in 0 .. 2 /\ PingWait(e) \in Nat
        /\ ticker[e] \in Nat /\ MaxPingWait(e) \in Nat
        /\ Other(e) \in Alive!Ends /\ Other(e) # e /\ (x = e \/ x = Other(e))
        /\ \A m \in OnWay(e) : m.age \in Nat
        /\ \A m \in OnWay(Other(e)) : m.age \in Nat /\ m.age <= Delay
    <2>1. Other(e) \in Alive!Ends
      BY AliveNumbers
    <2>2. PingWait(e) \in Nat /\ MaxPingWait(e) \in Nat
      <3>1. skips \in 0 .. MaxSkips /\ busy[e] \in 0 .. 2
        BY AliveNumbers
      <3> QED
        BY <3>1 DEF PingWait, MaxPingWait, Alive!WriteWait
    <2> QED
      BY <2>1, <2>2, AliveNumbers
  <1>2. end' = [end EXCEPT ![x] = why] /\ end'[x] = why
    BY DEF Alive!Close, Alive!TypeOK
  <1>3. CASE x = e
    BY <1>2, <1>3 DEF InTime, Alive!Timeout, Alive!LongestSilence
  <1>4. CASE x = Other(e)
    <2> SUFFICES ASSUME net = "up", Alive!Timeout(e) > Alive!LongestSilence(e)
                 PROVE  /\ end'[e] # "read"
                        /\ end'[e] = "open" => deadline[e] > 0 /\ Promised(e)'
      BY DEF InTime, Alive!Timeout, Alive!LongestSilence
    <2>1. end'[e] = end[e] /\ end'[Other(e)] # "open"
      BY <1>1, <1>2, <1>4
    <2>2. end[e] # "read" /\ (end[e] = "open" => deadline[e] > 0 /\ Promised(e))
      BY DEF InTime
    <2>3. WillPing(e) \/ HasToPing(e) => deadline[e] > Delay
      BY <1>1 DEF WillPing, HasToPing, PongTime, Alive!WriteWait
    <2>4. HasPinged(e) \/ IsSentFrame(e) => deadline[e] > Delay
      BY <1>1 DEF HasPinged, IsSentFrame, PongTime, Alive!WriteWait
    <2>5. deadline[e] > Delay => WillSeeEOF(e)
      BY <1>1 DEF WillSeeEOF
    <2>6. (WillSeeEOF(e) => WillSeeEOF(e)') /\ (WillRefresh(e) => WillRefresh(e)')
      BY DEF WillSeeEOF, WillRefresh, OnWay
    <2> QED
      BY <1>4, <2>1, <2>2, <2>3, <2>4, <2>5, <2>6 DEF Promised, Other
  <1> QED
    BY <1>1, <1>3, <1>4

(* x reads a ping: the other end gets its pong, or a frame instead.          *)
LEMMA ReadPingInTime ==
    ASSUME NEW x, AliveAt(x), Alive!Read(x), Head(inbox[x]).kind = "ping",
           NEW e \in Alive!Ends
    PROVE  InTime(e)'
  <1> USE AliveConstants DEF AliveAt
  <1> DEFINE pong == [kind |-> "pong", age |-> 0]
  <1> SUFFICES ASSUME net = "up", Alive!Timeout(e) > Alive!LongestSilence(e), end[e] = "open"
               PROVE  deadline'[e] > 0 /\ Promised(e)'
    BY DEF InTime, Alive!Timeout, Alive!LongestSilence, Alive!Read
  <1>1. deadline[e] > 0 /\ Promised(e)
    BY DEF InTime
  <1>2. /\ deadline[e] \in Nat
        /\ Other(e) \in Alive!Ends /\ Other(e) # e /\ Other(Other(e)) = e
        /\ busy[Other(e)] \in 0 .. 2
        /\ x = e \/ x = Other(e)
        /\ \A m \in OnWay(Other(e)) : m.age \in Nat /\ m.age <= Delay
    <2>1. Other(e) \in Alive!Ends
      BY AliveNumbers
    <2> QED
      BY <2>1, AliveNumbers
  <1>3. /\ end[x] = "open" /\ inbox[x] # <<>>
        /\ inbox' = IF busy[x] = 0
                      THEN [[inbox EXCEPT ![x] = Tail(@)] EXCEPT ![Other(x)] = Append(@, pong)]
                      ELSE [inbox EXCEPT ![x] = Tail(@)]
        /\ UNCHANGED <<idle, net, end, deadline, ticker, due, busy, skips>>
    BY DEF Alive!Read, Other
  <1>4. /\ Other(x) \in Alive!Ends /\ Other(x) # x
        /\ inbox[x] \in Seq(Message) /\ inbox[Other(x)] \in Seq(Message)
    <2>1. Other(x) \in Alive!Ends /\ Other(x) # x /\ inbox[x] \in Seq(Message)
      BY AliveNumbers
    <2> QED
      BY <2>1, AliveNumbers
  <1>5. /\ inbox'[x] = Tail(inbox[x])
        /\ busy[x] = 0 => inbox'[Other(x)] = Append(inbox[Other(x)], pong)
        /\ busy[x] # 0 => inbox'[Other(x)] = inbox[Other(x)]
    <2> HIDE DEF pong
    <2> QED
      BY <1>3, <1>4 DEF Alive!TypeOK
  <1>6. pong \in Message /\ pong.kind = "pong" /\ pong.age = 0
    BY DEF Message
  <1> HIDE DEF pong
  <1>7. /\ OnWay(x) = {Head(inbox[x])} \cup OnWay(x)'
        /\ busy[x] = 0 => OnWay(Other(x))' = OnWay(Other(x)) \cup {pong}
        /\ busy[x] # 0 => OnWay(Other(x))' = OnWay(Other(x))
    <2>1. OnWay(x) = {Head(inbox[x])} \cup OnWay(x)'
      BY <1>3, <1>4, <1>5, Reading DEF OnWay
    <2>2. Range(Append(inbox[Other(x)], pong)) = Range(inbox[Other(x)]) \cup {pong}
      BY <1>4, <1>6, Sending
    <2> QED
      BY <1>5, <2>1, <2>2 DEF OnWay, Other
  <1>8. /\ WillPing(e) => WillPing(e)'
        /\ HasToPing(e) => HasToPing(e)'
        /\ IsSentFrame(e) => IsSentFrame(e)'
    BY <1>3 DEF WillPing, MaxPingWait, HasToPing, PingWait, IsSentFrame, PongTime, Other
  <1>9. CASE x = e
    <2>1. HasPinged(e) => HasPinged(e)'
      BY <1>3, <1>7, <1>9 DEF HasPinged, PongTime, Other
    <2>2. /\ WillRefresh(e) => WillRefresh(e)'
          /\ WillSeeEOF(e) => WillSeeEOF(e)'
      BY <1>3, <1>7, <1>9 DEF WillRefresh, WillSeeEOF
    <2> QED
      BY <1>1, <1>3, <1>8, <2>1, <2>2 DEF Promised, Other
  <1>10. CASE x = Other(e)
    <2>1. WillRefresh(e) => WillRefresh(e)'
      BY <1>2, <1>3, <1>7, <1>10 DEF WillRefresh
    <2>2. HasPinged(e) => HasPinged(e)' \/ IsSentFrame(e)' \/ WillRefresh(e)'
      <3> SUFFICES ASSUME NEW m \in OnWay(x), m.kind = "ping", deadline[e] > PongTime - m.age
                   PROVE  HasPinged(e)' \/ IsSentFrame(e)' \/ WillRefresh(e)'
        BY <1>10 DEF HasPinged
      <3>1. busy[x] # 0 => deadline[e] > Alive!WriteWait + 1 - busy[x] + Delay
        BY <1>2, <1>10 DEF PongTime, Alive!WriteWait
      <3>2. deadline[e] > Delay
        BY <1>2, <1>10 DEF PongTime, Alive!WriteWait
      <3>3. CASE busy[x] = 0
        BY <1>2, <1>3, <1>6, <1>7, <1>10, <3>2, <3>3 DEF WillRefresh
      <3>4. CASE busy[x] # 0
        BY <1>2, <1>3, <1>10, <3>1, <3>4 DEF IsSentFrame, Alive!WriteWait, Other
      <3> QED
        BY <3>3, <3>4
    <2> QED
      BY <1>1, <1>3, <1>8, <1>10, <2>1, <2>2 DEF Promised, Other
  <1> QED
    BY <1>2, <1>9, <1>10

(* x reads a pong or a frame: its deadline is set anew.                      *)
LEMMA ReadRefreshInTime ==
    ASSUME NEW x, AliveAt(x), Alive!Read(x), Head(inbox[x]).kind # "ping",
           Alive!TypeOK', NEW e \in Alive!Ends
    PROVE  InTime(e)'
  <1> USE AliveConstants DEF AliveAt
  <1>1. /\ end[x] = "open" /\ inbox[x] # <<>>
        /\ inbox' = [inbox EXCEPT ![x] = Tail(@)]
        /\ deadline' = [deadline EXCEPT ![x] = Alive!Timeout(x)]
        /\ UNCHANGED <<idle, net, end, ticker, due, busy, skips>>
    BY DEF Alive!Read
  <1>2. /\ Alive!Timeout(e)' = Alive!Timeout(e)
        /\ Alive!LongestSilence(e)' = Alive!LongestSilence(e)
    BY <1>1 DEF Alive!Timeout, Alive!LongestSilence
  <1> SUFFICES ASSUME net = "up", Alive!Timeout(e) > Alive!LongestSilence(e), end[e] = "open"
               PROVE  deadline'[e] > 0 /\ Promised(e)'
    BY <1>1, <1>2 DEF InTime
  <1>3. /\ Other(e) \in Alive!Ends /\ Other(e) # e /\ (x = e \/ x = Other(e))
        /\ inbox[x] \in Seq(Message)
    BY AliveNumbers
  <1>4. CASE x = e
    <2>1. SkipsOwed'
      BY <1>1 DEF SkipsOwed
    <2>2. deadline'[e] = Alive!Timeout(e)'
      BY <1>1, <1>2, <1>4 DEF Alive!TypeOK
    <2>3. (Alive!TypeOK /\ SkipsOwed /\ end[e] = "open"
              /\ Alive!Timeout(e) > Alive!LongestSilence(e) /\ deadline[e] = Alive!Timeout(e)
              => deadline[e] > 0 /\ Promised(e))'
      BY Refreshed, PTL
    <2> QED
      BY <1>1, <1>2, <2>1, <2>2, <2>3
  <1>5. CASE x = Other(e)
    <2>1. deadline[e] > 0 /\ Promised(e)
      BY DEF InTime
    <2>2. deadline'[e] = deadline[e] /\ inbox'[e] = inbox[e] /\ inbox'[x] = Tail(inbox[x])
      BY <1>1, <1>3, <1>5 DEF Alive!TypeOK
    <2>3. OnWay(x) = {Head(inbox[x])} \cup OnWay(x)' /\ OnWay(e)' = OnWay(e)
      BY <1>1, <1>3, <2>2, Reading DEF OnWay
    <2>4. /\ WillPing(e) => WillPing(e)'
          /\ HasToPing(e) => HasToPing(e)'
          /\ IsSentFrame(e) => IsSentFrame(e)'
      BY <1>1, <2>2
         DEF WillPing, MaxPingWait, HasToPing, PingWait, IsSentFrame, PongTime, Other
    <2>5. /\ HasPinged(e) => HasPinged(e)'
          /\ WillRefresh(e) => WillRefresh(e)'
      BY <1>5, <2>2, <2>3 DEF HasPinged, WillRefresh, PongTime, Other
    <2> QED
      BY <1>1, <1>5, <2>1, <2>2, <2>4, <2>5 DEF Promised, Other
  <1> QED
    BY <1>3, <1>4, <1>5

(* What is under way to an open end when a unit of time passes.              *)
LEMMA TickOnWay ==
    ASSUME Alive!TypeOK, Alive!Tick, NEW e \in Alive!Ends, end[e] = "open"
    PROVE  /\ \A m \in OnWay(e) :
                 m.age < Delay /\ [kind |-> m.kind, age |-> m.age + 1] \in OnWay(e)'
           /\ \A n \in OnWay(e)' :
                 \E m \in OnWay(e) : n = [kind |-> m.kind, age |-> m.age + 1]
           /\ inbox'[e] \in Seq(Message)
  <1> USE AliveConstants
  <1>1. inbox[e] \in Seq(Message)
    BY AliveNumbers
  <1>2. inbox'[e] = [i \in DOMAIN inbox[e] |-> [inbox[e][i] EXCEPT !.age = @ + 1]]
    BY DEF Alive!Tick
  <1>3. \A i \in DOMAIN inbox[e] :
           /\ inbox[e][i] \in Message /\ inbox[e][i].age < Delay
           /\ [inbox[e][i] EXCEPT !.age = @ + 1]
                 = [kind |-> inbox[e][i].kind, age |-> inbox[e][i].age + 1]
    <2> SUFFICES ASSUME NEW i \in DOMAIN inbox[e]
                 PROVE  /\ inbox[e][i] \in Message /\ inbox[e][i].age < Delay
                        /\ [inbox[e][i] EXCEPT !.age = @ + 1]
                              = [kind |-> inbox[e][i].kind, age |-> inbox[e][i].age + 1]
      OBVIOUS
    <2>1. inbox[e][i] \in Message
      BY <1>1
    <2>2. inbox[e][i].age # Delay
      BY DEF Alive!Tick, Alive!Late
    <2> QED
      BY <2>1, <2>2 DEF Message
  <1>4. DOMAIN inbox'[e] = DOMAIN inbox[e]
    BY <1>2
  <1>5. \A i \in DOMAIN inbox[e] :
           inbox'[e][i] = [kind |-> inbox[e][i].kind, age |-> inbox[e][i].age + 1]
    BY <1>2, <1>3
  <1>6. inbox'[e] \in Seq(Message)
    <2>1. DOMAIN inbox[e] = 1 .. Len(inbox[e]) /\ Len(inbox[e]) \in Nat
      BY <1>1
    <2>2. \A i \in DOMAIN inbox[e] : inbox'[e][i] \in Message
      <3> SUFFICES ASSUME NEW i \in DOMAIN inbox[e] PROVE inbox'[e][i] \in Message
        OBVIOUS
      <3> DEFINE m == inbox[e][i]
      <3>1. m \in Message /\ m.age < Delay
        BY <1>3
      <3>2. inbox'[e][i] = [kind |-> m.kind, age |-> m.age + 1]
        BY <1>5
      <3> HIDE DEF m
      <3>3. m.kind \in {"ping", "pong", "frame"} /\ m.age + 1 \in 0 .. Delay
        BY <3>1 DEF Message
      <3>4. [kind |-> m.kind, age |-> m.age + 1] \in Message
        BY <3>3 DEF Message
      <3> QED
        BY <3>2, <3>4
    <2>3. inbox'[e] \in [1 .. Len(inbox[e]) -> Message]
      BY <1>2, <2>1, <2>2
    <2> QED
      BY <2>1, <2>3, SeqDef
  <1>7. ASSUME NEW m \in OnWay(e)
        PROVE  m.age < Delay /\ [kind |-> m.kind, age |-> m.age + 1] \in OnWay(e)'
    <2>1. PICK i \in DOMAIN inbox[e] : m = inbox[e][i]
      BY DEF OnWay, Range
    <2>2. [kind |-> m.kind, age |-> m.age + 1] = inbox'[e][i]
      BY <1>5, <2>1
    <2> QED
      BY <1>3, <1>4, <2>1, <2>2 DEF OnWay, Range
  <1>8. ASSUME NEW n \in OnWay(e)'
        PROVE  \E m \in OnWay(e) : n = [kind |-> m.kind, age |-> m.age + 1]
    <2>1. PICK i \in DOMAIN inbox[e] : n = inbox'[e][i]
      BY <1>4 DEF OnWay, Range
    <2> QED
      BY <1>5, <2>1 DEF OnWay, Range
  <1> QED
    BY <1>6, <1>7, <1>8

(* A unit of time passes: each promise is a unit nearer, and is not yet due. *)
LEMMA TickInTime ==
    ASSUME Alive!TypeOK, SkipsOwed, Alive!Tick, NEW e \in Alive!Ends, InTime(e)
    PROVE  InTime(e)'
  <1> USE AliveConstants
  <1>1. UNCHANGED <<idle, net, end, skips>>
    BY DEF Alive!Tick
  <1> SUFFICES ASSUME net = "up", Alive!Timeout(e) > Alive!LongestSilence(e), end[e] = "open"
               PROVE  deadline'[e] > 0 /\ Promised(e)'
    BY <1>1 DEF InTime, Alive!Timeout, Alive!LongestSilence
  <1>2. Promised(e)
    BY DEF InTime
  <1>3. /\ skips \in 0 .. MaxSkips /\ busy[e] \in 0 .. 2 /\ deadline[e] \in Nat
        /\ ticker[e] \in Nat \ {0} /\ due[e] \in BOOLEAN
        /\ Other(e) \in Alive!Ends /\ busy[Other(e)] \in 0 .. 2
        /\ \A m \in OnWay(e) : m.age \in Nat
        /\ \A m \in OnWay(Other(e)) : m.age \in Nat
    <2>1. Other(e) \in Alive!Ends
      BY AliveNumbers
    <2> QED
      BY <2>1, AliveNumbers
  <1>4. /\ deadline'[e] = deadline[e] - 1
        /\ ticker'[e] = IF ticker[e] > 1 THEN ticker[e] - 1 ELSE Alive!Period(e)
        /\ due'[e] = (due[e] \/ ticker[e] = 1)
        /\ busy'[e] = IF busy[e] > 0 THEN busy[e] + 1 ELSE 0
        /\ end[Other(e)] = "open" =>
              busy'[Other(e)] = IF busy[Other(e)] > 0 THEN busy[Other(e)] + 1 ELSE 0
    BY <1>3 DEF Alive!Tick
  <1>5. /\ busy[e] # 2 /\ (due[e] => busy[e] # 0 /\ e = "relay")
        /\ end[Other(e)] = "open" => busy[Other(e)] # 2
        /\ end[Other(e)] # "open" => inbox[e] # <<>>
    BY <1>3 DEF Alive!Tick, Alive!Late, Alive!WriteWait, Alive!Ends, Other
  <1>6. \A m \in OnWay(e) :
           m.age < Delay /\ [kind |-> m.kind, age |-> m.age + 1] \in OnWay(e)'
    BY TickOnWay
  <1>7. WillRefresh(e) => deadline'[e] > 0 /\ WillRefresh(e)'
    <2> SUFFICES ASSUME NEW m \in OnWay(e), m.kind # "ping", deadline[e] > Delay - m.age
                 PROVE  deadline'[e] > 0 /\ WillRefresh(e)'
      BY DEF WillRefresh
    <2> DEFINE n == [kind |-> m.kind, age |-> m.age + 1]
    <2>1. m.age < Delay /\ n \in OnWay(e)' /\ n.kind = m.kind /\ n.age = m.age + 1
      BY <1>6
    <2> HIDE DEF n
    <2>2. deadline'[e] > 0 /\ deadline'[e] > Delay - n.age
      BY <1>3, <1>4, <2>1
    <2> QED
      BY <2>1, <2>2 DEF WillRefresh
  <1>8. CASE end[Other(e)] # "open"
    <2>1. WillSeeEOF(e) => deadline'[e] > 0
      <3>1. Head(inbox[e]) \in OnWay(e)
        <4>1. inbox[e] \in Seq(Message)
          BY AliveNumbers
        <4> QED
          BY <1>5, <1>8, <4>1, Reading DEF OnWay
      <3>2. Head(inbox[e]).age \in Nat /\ Head(inbox[e]).age < Delay
        BY <1>3, <1>6, <3>1
      <3> QED
        BY <1>3, <1>4, <3>1, <3>2 DEF WillSeeEOF
    <2>2. WillSeeEOF(e) => WillSeeEOF(e)'
      <3> SUFFICES ASSUME WillSeeEOF(e), NEW n \in OnWay(e)'
                   PROVE  deadline'[e] > Delay - n.age
        BY DEF WillSeeEOF
      <3>1. PICK m \in OnWay(e) : n = [kind |-> m.kind, age |-> m.age + 1]
        BY TickOnWay
      <3>2. n.age = m.age + 1
        BY <3>1
      <3> QED
        BY <1>3, <1>4, <3>2 DEF WillSeeEOF
    <2> QED
      BY <1>1, <1>2, <1>7, <1>8, <2>1, <2>2 DEF Promised, Other
  <1>9. CASE end[Other(e)] = "open"
    <2>1. WillPing(e) => deadline'[e] > 0 /\ (WillPing(e)' \/ HasToPing(e)')
      <3> SUFFICES ASSUME WillPing(e)
                   PROVE  deadline'[e] > 0 /\ (WillPing(e)' \/ HasToPing(e)')
        OBVIOUS
      <3>1. MaxPingWait(e) \in Nat /\ MaxPingWait(e)' = MaxPingWait(e)
        BY DEF MaxPingWait, Alive!WriteWait
      <3>2. PongTime \in Nat /\ PongTime > 0
        BY DEF PongTime, Alive!WriteWait
      <3>3. deadline'[e] > 0
        BY <1>3, <1>4, <3>1, <3>2 DEF WillPing
      <3>4. CASE ticker[e] > 1
        BY <1>3, <1>4, <3>1, <3>2, <3>3, <3>4 DEF WillPing, PongTime
      <3>5. CASE ticker[e] = 1
        <4>1. PingWait(e)' \in Int /\ PingWait(e)' <= MaxPingWait(e)
          BY <1>1, <1>3, <1>4 DEF PingWait, MaxPingWait, Alive!WriteWait
        <4>2. due'[e]
          BY <1>4, <3>5
        <4>3. deadline'[e] > MaxPingWait(e) + PongTime
          BY <1>3, <1>4, <3>1, <3>2, <3>5 DEF WillPing
        <4> QED
          BY <1>3, <1>4, <3>1, <3>2, <3>3, <4>1, <4>2, <4>3 DEF HasToPing, PongTime
      <3> QED
        BY <1>3, <3>4, <3>5
    <2>2. HasToPing(e) => deadline'[e] > 0 /\ HasToPing(e)'
      <3> SUFFICES ASSUME HasToPing(e) PROVE deadline'[e] > 0 /\ HasToPing(e)'
        OBVIOUS
      <3>1. due[e] /\ e = "relay" /\ busy[e] = 1
        BY <1>3, <1>5 DEF HasToPing
      <3>2. PingWait(e) = (MaxSkips - skips) + 1 /\ PingWait(e)' = MaxSkips - skips
        BY <1>1, <1>3, <1>4, <3>1 DEF PingWait, Alive!WriteWait
      <3>3. due'[e]
        BY <1>4, <3>1
      <3>4. PongTime \in Nat /\ PongTime' = PongTime
        BY DEF PongTime, Alive!WriteWait
      <3> QED
        BY <1>3, <1>4, <3>1, <3>2, <3>3, <3>4 DEF HasToPing
    <2>3. HasPinged(e) => deadline'[e] > 0 /\ HasPinged(e)'
      <3> SUFFICES ASSUME NEW m \in OnWay(Other(e)), m.kind = "ping",
                          deadline[e] > PongTime - m.age
                   PROVE  deadline'[e] > 0 /\ HasPinged(e)'
        BY DEF HasPinged
      <3> DEFINE n == [kind |-> m.kind, age |-> m.age + 1]
      <3>1. m.age < Delay /\ n \in OnWay(Other(e))' /\ n.kind = "ping" /\ n.age = m.age + 1
        BY <1>3, <1>9, TickOnWay
      <3> HIDE DEF n
      <3>2. deadline'[e] > 0 /\ deadline'[e] > PongTime - n.age
        BY <1>3, <1>4, <3>1 DEF PongTime, Alive!WriteWait
      <3> QED
        BY <3>1, <3>2 DEF HasPinged, PongTime, Other
    <2>4. IsSentFrame(e) => deadline'[e] > 0 /\ IsSentFrame(e)'
      BY <1>3, <1>4, <1>5, <1>9 DEF IsSentFrame, Alive!WriteWait, Other
    <2> QED
      BY <1>1, <1>2, <1>7, <1>9, <2>1, <2>2, <2>3, <2>4 DEF Promised, Other
  <1> QED
    BY <1>8, <1>9

(* The type invariant is inductive.                                         *)
LEMMA TypedAlive == Alive!TypeOK /\ Alive!Next => Alive!TypeOK'
  <1> SUFFICES ASSUME Alive!TypeOK, Alive!Next PROVE Alive!TypeOK'
    OBVIOUS
  <1> USE AliveConstants
  <1> DEFINE Whys == {"open", "read", "write", "ping", "eof"}
  <1>1. \A e \in Alive!Ends :
           /\ Other(e) \in Alive!Ends /\ inbox[e] \in Seq(Message)
           /\ deadline[e] \in Nat /\ deadline[e] <= Alive!Timeout(e)
           /\ ticker[e] \in Nat \ {0} /\ ticker[e] <= Alive!Period(e)
           /\ busy[e] \in 0 .. 2 /\ Alive!Timeout(e) \in Nat \ {0}
           /\ Alive!Period(e) \in Nat \ {0}
    BY AliveNumbers
  <1>2. /\ inbox \in [Alive!Ends -> Seq(Message)] /\ busy \in [Alive!Ends -> 0 .. 2]
        /\ deadline \in [Alive!Ends -> Nat] /\ ticker \in [Alive!Ends -> Nat]
        /\ due \in [Alive!Ends -> BOOLEAN] /\ wrote \in [Alive!Ends -> BOOLEAN]
        /\ end \in [Alive!Ends -> Whys]
        /\ idle \in Idles /\ net \in {"up", "down"} /\ skips \in 0 .. MaxSkips
    <2>1. inbox \in [Alive!Ends -> Seq(Message)]
      BY <1>1 DEF Alive!TypeOK
    <2>2. busy \in [Alive!Ends -> 0 .. 2]
      BY <1>1 DEF Alive!TypeOK
    <2> QED
      BY <2>1, <2>2 DEF Alive!TypeOK
  <1> DEFINE Bounds == \A e \in Alive!Ends :
                          /\ deadline'[e] <= Alive!Timeout(e)
                          /\ ticker'[e] >= 1 /\ ticker'[e] <= Alive!Period(e)
  <1>3. ASSUME inbox' \in [Alive!Ends -> Seq(Message)], busy' \in [Alive!Ends -> 0 .. 2],
               deadline' \in [Alive!Ends -> Nat], ticker' \in [Alive!Ends -> Nat],
               due' \in [Alive!Ends -> BOOLEAN], wrote' \in [Alive!Ends -> BOOLEAN],
               end' \in [Alive!Ends -> Whys],
               idle' = idle, net' \in {"up", "down"}, skips' \in 0 .. MaxSkips, Bounds
        PROVE  Alive!TypeOK'
    <2>1. \A e \in Alive!Ends : deadline'[e] \in Nat /\ ticker'[e] \in Nat
      BY <1>3
    <2>2. \A e \in Alive!Ends :
             /\ Alive!Timeout(e)' = Alive!Timeout(e) /\ Alive!Period(e)' = Alive!Period(e)
      BY <1>3 DEF Alive!Timeout, Alive!Period, Alive!PingEvery
    <2>3. \A e \in Alive!Ends : /\ deadline'[e] \in 0 .. Alive!Timeout(e)'
                                /\ ticker'[e] \in 1 .. Alive!Period(e)'
      BY <1>1, <1>3, <2>1, <2>2
    <2>4. busy' \in [Alive!Ends -> 0 .. Alive!WriteWait + 1]
      BY <1>3 DEF Alive!WriteWait
    <2>5. inbox' \in [Alive!Ends -> Seq([kind : {"ping", "pong", "frame"}, age : 0 .. Delay])]
      BY <1>3 DEF Message
    <2> QED
      BY <1>2, <1>3, <2>3, <2>4, <2>5 DEF Alive!TypeOK
  <1> HIDE DEF Bounds
  <1>4. ASSUME NEW x \in Alive!Ends, NEW k \in {"ping", "pong", "frame"}
        PROVE  Alive!Written(x, k) \in [Alive!Ends -> Seq(Message)]
    <2> DEFINE m == [kind |-> k, age |-> 0]
    <2>1. m \in Message
      BY DEF Message
    <2> HIDE DEF m
    <2>2. Append(inbox[Other(x)], m) \in Seq(Message)
      BY <1>1, <2>1, Sending
    <2>3. [inbox EXCEPT ![Other(x)] = Append(@, m)] \in [Alive!Ends -> Seq(Message)]
      BY <1>1, <1>2, <2>2
    <2> QED
      BY <1>2, <2>3 DEF Alive!Written, Other, m
  <1>5. ASSUME NEW x \in Alive!Ends, Alive!Ping(x), skips' \in 0 .. MaxSkips,
               UNCHANGED <<idle, net, end, deadline, ticker, busy, wrote>>
        PROVE  Alive!TypeOK'
    <2>1. inbox' \in [Alive!Ends -> Seq(Message)] /\ due' \in [Alive!Ends -> BOOLEAN]
      BY <1>2, <1>4, <1>5 DEF Alive!Ping
    <2>2. /\ busy' \in [Alive!Ends -> 0 .. 2] /\ deadline' \in [Alive!Ends -> Nat]
          /\ ticker' \in [Alive!Ends -> Nat] /\ wrote' \in [Alive!Ends -> BOOLEAN]
          /\ end' \in [Alive!Ends -> Whys] /\ idle' = idle /\ net' \in {"up", "down"}
      BY <1>2, <1>5
    <2>3. Bounds
      BY <1>1, <1>5 DEF Bounds
    <2> QED
      BY <1>3, <1>5, <2>1, <2>2, <2>3
  <1>6. ASSUME NEW x \in Alive!Ends, Alive!WriteFrame(x), skips' \in 0 .. MaxSkips,
               UNCHANGED <<idle, net, inbox, end, deadline, ticker, due>>
        PROVE  Alive!TypeOK'
    <2>1. busy' \in [Alive!Ends -> 0 .. 2] /\ wrote' \in [Alive!Ends -> BOOLEAN]
      BY <1>2, <1>6 DEF Alive!WriteFrame
    <2>2. /\ inbox' \in [Alive!Ends -> Seq(Message)] /\ deadline' \in [Alive!Ends -> Nat]
          /\ ticker' \in [Alive!Ends -> Nat] /\ due' \in [Alive!Ends -> BOOLEAN]
          /\ end' \in [Alive!Ends -> Whys] /\ idle' = idle /\ net' \in {"up", "down"}
      BY <1>2, <1>6
    <2>3. Bounds
      BY <1>1, <1>6 DEF Bounds
    <2> QED
      BY <1>3, <1>6, <2>1, <2>2, <2>3
  <1>7. ASSUME NEW x \in Alive!Ends, Alive!FrameWritten(x) PROVE Alive!TypeOK'
    <2>1. inbox' \in [Alive!Ends -> Seq(Message)] /\ busy' \in [Alive!Ends -> 0 .. 2]
      BY <1>2, <1>4, <1>7 DEF Alive!FrameWritten
    <2>2. UNCHANGED <<idle, net, end, deadline, ticker, due, skips, wrote>>
      BY <1>7 DEF Alive!FrameWritten
    <2>3. /\ deadline' \in [Alive!Ends -> Nat] /\ ticker' \in [Alive!Ends -> Nat]
          /\ due' \in [Alive!Ends -> BOOLEAN] /\ wrote' \in [Alive!Ends -> BOOLEAN]
          /\ end' \in [Alive!Ends -> Whys] /\ idle' = idle /\ net' \in {"up", "down"}
          /\ skips' \in 0 .. MaxSkips
      BY <1>2, <2>2
    <2>4. Bounds
      BY <1>1, <2>2 DEF Bounds
    <2> QED
      BY <1>3, <2>1, <2>3, <2>4
  <1>8. ASSUME NEW x \in Alive!Ends, NEW why \in Whys, Alive!Close(x, why),
               UNCHANGED <<idle, net, inbox, deadline, ticker, due, busy, skips, wrote>>
        PROVE  Alive!TypeOK'
    <2>1. end' \in [Alive!Ends -> Whys]
      BY <1>2, <1>8 DEF Alive!Close
    <2>2. /\ inbox' \in [Alive!Ends -> Seq(Message)] /\ busy' \in [Alive!Ends -> 0 .. 2]
          /\ deadline' \in [Alive!Ends -> Nat] /\ ticker' \in [Alive!Ends -> Nat]
          /\ due' \in [Alive!Ends -> BOOLEAN] /\ wrote' \in [Alive!Ends -> BOOLEAN]
          /\ idle' = idle /\ net' \in {"up", "down"} /\ skips' \in 0 .. MaxSkips
      BY <1>2, <1>8
    <2>3. Bounds
      BY <1>1, <1>8 DEF Bounds
    <2> QED
      BY <1>3, <2>1, <2>2, <2>3
  <1>9. ASSUME NEW x \in Alive!Ends, Alive!Read(x) PROVE Alive!TypeOK'
    <2> DEFINE rest == [inbox EXCEPT ![x] = Tail(@)]
               pong == [kind |-> "pong", age |-> 0]
    <2>1. /\ inbox' = rest \/ inbox' = [rest EXCEPT ![Other(x)] = Append(@, pong)]
          /\ deadline' = deadline \/ deadline' = [deadline EXCEPT ![x] = Alive!Timeout(x)]
          /\ inbox[x] # <<>>
          /\ UNCHANGED <<idle, net, end, ticker, due, busy, skips, wrote>>
      BY <1>9 DEF Alive!Read, Other
    <2>2. Tail(inbox[x]) \in Seq(Message)
      BY <1>1, <2>1
    <2>3. rest \in [Alive!Ends -> Seq(Message)]
      BY <1>2, <2>2
    <2>4. pong \in Message
      BY DEF Message
    <2> HIDE DEF rest, pong
    <2>5. Append(rest[Other(x)], pong) \in Seq(Message)
      BY <1>1, <2>3, <2>4, Sending
    <2>6. [rest EXCEPT ![Other(x)] = Append(@, pong)] \in [Alive!Ends -> Seq(Message)]
      BY <1>1, <2>3, <2>5
    <2>7. inbox' \in [Alive!Ends -> Seq(Message)]
      BY <2>1, <2>3, <2>6
    <2>8. deadline' \in [Alive!Ends -> Nat]
      <3>1. [deadline EXCEPT ![x] = Alive!Timeout(x)] \in [Alive!Ends -> Nat]
        BY <1>1, <1>2
      <3> QED
        BY <1>2, <2>1, <3>1
    <2>9. Bounds
      <3> SUFFICES ASSUME NEW e \in Alive!Ends
                   PROVE  /\ deadline'[e] <= Alive!Timeout(e)
                          /\ ticker'[e] >= 1 /\ ticker'[e] <= Alive!Period(e)
        BY DEF Bounds
      <3>1. deadline'[e] = deadline[e] \/ deadline'[e] = Alive!Timeout(e)
        BY <1>2, <2>1
      <3> QED
        BY <1>1, <2>1, <3>1
    <2>10. /\ busy' \in [Alive!Ends -> 0 .. 2] /\ ticker' \in [Alive!Ends -> Nat]
           /\ due' \in [Alive!Ends -> BOOLEAN] /\ wrote' \in [Alive!Ends -> BOOLEAN]
           /\ end' \in [Alive!Ends -> Whys] /\ idle' = idle /\ net' \in {"up", "down"}
           /\ skips' \in 0 .. MaxSkips
      BY <1>2, <2>1
    <2> QED
      BY <1>3, <2>7, <2>8, <2>9, <2>10
  <1>10. CASE Alive!Tick
    <2>1. \A e \in Alive!Ends : inbox'[e] \in Seq(Message)
      <3> SUFFICES ASSUME NEW e \in Alive!Ends PROVE inbox'[e] \in Seq(Message)
        OBVIOUS
      <3>1. CASE end[e] = "open"
        BY <1>10, <3>1, TickOnWay
      <3>2. CASE end[e] # "open"
        BY <1>10, <3>2 DEF Alive!Tick
      <3> QED
        BY <3>1, <3>2
    <2>2. inbox' = [e \in Alive!Ends |-> inbox'[e]]
      BY <1>10 DEF Alive!Tick
    <2>3. \A e \in Alive!Ends : end[e] = "open" => deadline[e] # 0 /\ busy[e] # 2
      BY <1>10 DEF Alive!Tick, Alive!Late, Alive!WriteWait
    <2>4. /\ deadline' = [e \in Alive!Ends |-> IF end[e] = "open" THEN deadline[e] - 1 ELSE 0]
          /\ ticker' = [e \in Alive!Ends |-> IF end[e] = "open" /\ ticker[e] > 1
                                                THEN ticker[e] - 1 ELSE Alive!Period(e)]
          /\ due' = [e \in Alive!Ends |-> end[e] = "open" /\ (due[e] \/ ticker[e] = 1)]
          /\ busy' = [e \in Alive!Ends |-> IF end[e] = "open" /\ busy[e] > 0
                                              THEN busy[e] + 1 ELSE 0]
          /\ wrote' = [e \in Alive!Ends |-> FALSE]
          /\ UNCHANGED <<idle, net, end, skips>>
      BY <1>10 DEF Alive!Tick
    <2>5. \A e \in Alive!Ends :
             /\ deadline'[e] \in Nat /\ deadline'[e] <= Alive!Timeout(e)
             /\ busy'[e] \in 0 .. 2
             /\ ticker'[e] \in Nat /\ ticker'[e] >= 1 /\ ticker'[e] <= Alive!Period(e)
      <3> SUFFICES ASSUME NEW e \in Alive!Ends
                   PROVE  /\ deadline'[e] \in Nat /\ deadline'[e] <= Alive!Timeout(e)
                          /\ busy'[e] \in 0 .. 2
                          /\ ticker'[e] \in Nat /\ ticker'[e] >= 1
                          /\ ticker'[e] <= Alive!Period(e)
        OBVIOUS
      <3>1. deadline'[e] \in Nat /\ deadline'[e] <= Alive!Timeout(e)
        BY <1>1, <2>3, <2>4
      <3>2. busy'[e] \in 0 .. 2
        <4>1. busy'[e] = IF end[e] = "open" /\ busy[e] > 0 THEN busy[e] + 1 ELSE 0
          BY <2>4
        <4>2. busy[e] \in 0 .. 2 /\ (end[e] = "open" => busy[e] # 2)
          BY <1>1, <2>3
        <4> QED
          BY <4>1, <4>2
      <3>3. ticker'[e] \in Nat /\ ticker'[e] >= 1 /\ ticker'[e] <= Alive!Period(e)
        BY <1>1, <2>4
      <3> QED
        BY <3>1, <3>2, <3>3
    <2>6. /\ deadline' \in [Alive!Ends -> Nat] /\ ticker' \in [Alive!Ends -> Nat]
          /\ busy' \in [Alive!Ends -> 0 .. 2]
      BY <2>4, <2>5
    <2>7. due' \in [Alive!Ends -> BOOLEAN] /\ wrote' \in [Alive!Ends -> BOOLEAN]
      BY <2>4
    <2>8. inbox' \in [Alive!Ends -> Seq(Message)]
      BY <2>1, <2>2
    <2>9. Bounds
      BY <2>5 DEF Bounds
    <2>10. /\ end' \in [Alive!Ends -> Whys] /\ idle' = idle /\ net' \in {"up", "down"}
           /\ skips' \in 0 .. MaxSkips
      BY <1>2, <2>4
    <2> QED
      BY <1>3, <2>6, <2>7, <2>8, <2>9, <2>10
  <1>11. CASE Alive!NetDown
    <2>1. inbox' \in [Alive!Ends -> Seq(Message)]
      BY <1>11 DEF Alive!NetDown
    <2>2. net' = "down" /\ UNCHANGED <<idle, end, deadline, ticker, due, busy, skips, wrote>>
      BY <1>11 DEF Alive!NetDown
    <2>3. Bounds
      BY <1>1, <2>2 DEF Bounds
    <2> QED
      BY <1>2, <1>3, <2>1, <2>2, <2>3
  <1>12. "relay" \in Alive!Ends /\ "client" \in Alive!Ends
    BY DEF Alive!Ends
  <1>13. CASE Alive!RelayPing
    BY <1>2, <1>5, <1>12, <1>13 DEF Alive!RelayPing
  <1>14. CASE Alive!ClientPings
    BY <1>2, <1>5, <1>12, <1>14 DEF Alive!ClientPings
  <1>15. CASE Alive!RelayWriteFrame
    <2>1. skips' \in 0 .. MaxSkips
      BY <1>2, <1>15 DEF Alive!RelayWriteFrame
    <2> QED
      BY <1>6, <1>12, <1>15, <2>1 DEF Alive!RelayWriteFrame
  <1>16. CASE Alive!ClientWriteFrame
    BY <1>2, <1>6, <1>12, <1>16 DEF Alive!ClientWriteFrame
  <1>17. ASSUME NEW x \in Alive!Ends,
                Alive!WriteFails(x) \/ Alive!ReadDeadline(x) \/ Alive!ReadEOF(x)
         PROVE  Alive!TypeOK'
    BY <1>8, <1>17 DEF Alive!WriteFails, Alive!ReadDeadline, Alive!ReadEOF
  <1>18. CASE Alive!ClientPingFails
    BY <1>8, <1>12, <1>18 DEF Alive!ClientPingFails
  <1> QED
    BY <1>7, <1>9, <1>10, <1>11, <1>12, <1>13, <1>14, <1>15, <1>16, <1>17, <1>18
       DEF Alive!Next, Alive!RelayRead, Alive!RelayWrite, Alive!ClientRead, Alive!ClientWrite,
           Alive!PingLoop

(* A relay that owes no ping has skipped none.                              *)
LEMMA SkipsAlive == Alive!TypeOK /\ SkipsOwed /\ Alive!Next => SkipsOwed'
  <1> SUFFICES ASSUME Alive!TypeOK, SkipsOwed, Alive!Next, end'["relay"] = "open", skips' > 0
               PROVE  due'["relay"]
    BY DEF SkipsOwed
  <1> USE DEF SkipsOwed
  <1>1. /\ end \in [Alive!Ends -> {"open", "read", "write", "ping", "eof"}]
        /\ due \in [Alive!Ends -> BOOLEAN]
        /\ "relay" \in Alive!Ends /\ "client" \in Alive!Ends
    BY DEF Alive!TypeOK, Alive!Ends
  <1>2. CASE Alive!Tick
    BY <1>1, <1>2 DEF Alive!Tick
  <1>3. CASE Alive!RelayPing
    BY <1>3 DEF Alive!RelayPing
  <1>4. CASE Alive!RelayWriteFrame
    BY <1>4 DEF Alive!RelayWriteFrame, Alive!WriteFrame
  <1>5. CASE Alive!ClientPings
    BY <1>1, <1>5 DEF Alive!ClientPings, Alive!Ping
  <1>6. CASE Alive!ClientWriteFrame
    BY <1>6 DEF Alive!ClientWriteFrame
  <1>7. CASE Alive!NetDown
    BY <1>7 DEF Alive!NetDown
  <1>8. ASSUME NEW x \in Alive!Ends, Alive!FrameWritten(x) \/ Alive!Read(x)
        PROVE  due'["relay"]
    BY <1>8 DEF Alive!FrameWritten, Alive!Read
  <1>9. ASSUME NEW x \in Alive!Ends, NEW why, why # "open", Alive!Close(x, why),
               UNCHANGED <<due, skips>>
        PROVE  due'["relay"]
    BY <1>1, <1>9 DEF Alive!Close
  <1>10. ASSUME NEW x \in Alive!Ends,
                Alive!WriteFails(x) \/ Alive!ReadDeadline(x) \/ Alive!ReadEOF(x)
         PROVE  due'["relay"]
    BY <1>9, <1>10 DEF Alive!WriteFails, Alive!ReadDeadline, Alive!ReadEOF
  <1>11. CASE Alive!ClientPingFails
    BY <1>1, <1>9, <1>11 DEF Alive!ClientPingFails
  <1> QED
    BY <1>1, <1>2, <1>3, <1>4, <1>5, <1>6, <1>7, <1>8, <1>10, <1>11
       DEF Alive!Next, Alive!RelayRead, Alive!RelayWrite, Alive!ClientRead, Alive!ClientWrite,
           Alive!PingLoop

(* Every step of the connection preserves the invariant.                    *)
LEMMA AliveNext == AliveInv /\ [ConnectionNext]_<<vars, aliveVars, dropVars, part>> => AliveInv'
  <1> SUFFICES ASSUME AliveInv, [ConnectionNext]_<<vars, aliveVars, dropVars, part>>
               PROVE  AliveInv'
    OBVIOUS
  <1>1. CASE UNCHANGED aliveVars
    <2>1. /\ idle' = idle /\ net' = net /\ inbox' = inbox /\ end' = end
          /\ deadline' = deadline /\ ticker' = ticker /\ due' = due /\ busy' = busy
          /\ wrote' = wrote /\ skips' = skips
      BY <1>1 DEF aliveVars
    <2>2. Alive!TypeOK'
      BY <2>1 DEF AliveInv, Alive!TypeOK, Alive!Timeout, Alive!Period, Alive!PingEvery
    <2>3. SkipsOwed'
      BY <2>1 DEF AliveInv, SkipsOwed
    <2>4. ASSUME NEW e \in Alive!Ends PROVE InTime(e)'
      <3>1. /\ WillPing(e)' = WillPing(e) /\ HasToPing(e)' = HasToPing(e)
            /\ HasPinged(e)' = HasPinged(e) /\ IsSentFrame(e)' = IsSentFrame(e)
            /\ WillRefresh(e)' = WillRefresh(e) /\ WillSeeEOF(e)' = WillSeeEOF(e)
        BY <2>1
           DEF WillPing, HasToPing, HasPinged, IsSentFrame, WillRefresh, WillSeeEOF,
               MaxPingWait, PingWait, PongTime, OnWay, Other
      <3>2. Promised(e)' = Promised(e)
        BY <2>1, <3>1 DEF Promised, Other
      <3> QED
        BY <2>1, <3>2 DEF AliveInv, InTime, Alive!Timeout, Alive!LongestSilence
    <2> QED
      BY <2>2, <2>3, <2>4 DEF AliveInv
  <1>2. CASE StaysAlive
    <2>1. Alive!Next /\ \A x \in Alive!Ends : AliveAt(x)
      BY <1>2 DEF StaysAlive, AliveInv, AliveAt
    <2>2. Alive!TypeOK' /\ SkipsOwed'
      BY <2>1, TypedAlive, SkipsAlive DEF AliveInv
    <2>3. "relay" \in Alive!Ends /\ "client" \in Alive!Ends /\ "relay" # "client"
      BY DEF Alive!Ends
    <2>4. ASSUME NEW e \in Alive!Ends PROVE InTime(e)'
      <3>1. CASE Alive!Tick
        BY <3>1, TickInTime DEF AliveInv
      <3>2. CASE Alive!NetDown
        BY <3>2 DEF Alive!NetDown, InTime
      <3>3. CASE Alive!RelayPing
        BY <2>1, <2>3, <3>3, PingInTime DEF Alive!RelayPing
      <3>4. CASE Alive!ClientPings
        BY <2>1, <2>3, <3>4, PingInTime DEF Alive!ClientPings
      <3>5. CASE Alive!RelayWriteFrame
        BY <2>1, <2>3, <3>5, WriteFrameInTime DEF Alive!RelayWriteFrame
      <3>6. CASE Alive!ClientWriteFrame
        BY <2>1, <2>3, <3>6, WriteFrameInTime DEF Alive!ClientWriteFrame
      <3>7. ASSUME NEW x \in Alive!Ends, Alive!FrameWritten(x) PROVE InTime(e)'
        BY <2>1, <3>7, FrameWrittenInTime
      <3>8. ASSUME NEW x \in Alive!Ends, Alive!Read(x) PROVE InTime(e)'
        BY <2>1, <2>2, <3>8, ReadPingInTime, ReadRefreshInTime
      <3>9. ASSUME NEW x \in Alive!Ends, Alive!WriteFails(x) PROVE InTime(e)'
        BY <2>1, <3>9, CloseInTime DEF Alive!WriteFails
      <3>10. ASSUME NEW x \in Alive!Ends, Alive!ReadDeadline(x) PROVE InTime(e)'
        BY <2>1, <3>10, CloseInTime DEF Alive!ReadDeadline
      <3>11. ASSUME NEW x \in Alive!Ends, Alive!ReadEOF(x) PROVE InTime(e)'
        BY <2>1, <3>11, CloseInTime DEF Alive!ReadEOF
      <3>12. CASE Alive!ClientPingFails
        BY <2>1, <2>3, <3>12, CloseInTime DEF Alive!ClientPingFails
      <3> QED
        BY <2>1, <2>3, <3>1, <3>2, <3>3, <3>4, <3>5, <3>6, <3>7, <3>8, <3>9, <3>10, <3>11, <3>12
           DEF Alive!Next, Alive!RelayRead, Alive!RelayWrite, Alive!ClientRead,
               Alive!ClientWrite, Alive!PingLoop
    <2> QED
      BY <2>2, <2>4 DEF AliveInv
  <1> QED
    BY <1>1, <1>2 DEF ConnectionNext, Handshakes, Reports

(* The deadlines of readLoop and webSocketToTap, and the pings of writeLoop *)
(* and pingLoop, fit together for every timeout, delay and number of frames *)
(* that hold up a ping: on a path that delivers, an end whose timeout leaves *)
(* room for a ping and its pong is not cut for silence.                      *)
THEOREM HealthySessionKept == ConnectionSafety => []HealthyNeverCut
  <1>1. ConnectionInit => AliveInv
    BY AliveInit DEF ConnectionInit
  <1>2. AliveInv => HealthyNeverCut
    BY DEF AliveInv, InTime, HealthyNeverCut, Alive!HealthyNeverCut
  <1> QED
    BY <1>1, <1>2, AliveNext, PTL DEF ConnectionSafety
============================================================================
