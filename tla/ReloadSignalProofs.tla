------------------------ MODULE ReloadSignalProofs ------------------------
(***************************************************************************)
(* Proofs about ReloadSignal for any client lists and any number of script *)
(* runs and crashes.                                                       *)
(***************************************************************************)
EXTENDS ReloadSignal, TLAPS

(***************************************************************************)
(* What makes SettledIsCurrent inductive.  While nothing is due the file   *)
(* is a whole list and every load under way has so far read what the file  *)
(* holds now; a relay that has not called signal.Notify has no signal and  *)
(* no reload under way.                                                    *)
(***************************************************************************)
ScriptProgress ==
    /\ script # "idle" => source \in Lists
    /\ script = "half" => file.head = source
    /\ script = "written" => file = Whole(source)
    /\ script = "idle" /\ ~unsignalled => Consistent(file)

NotYetNotified == proc # "up" => watcher = "wait" /\ ~pending

LoadsAreFresh ==
    ~Due =>
        /\ proc = "tail" => buffer.head = file.head
        /\ proc = "prenotify" => running = file
        /\ proc = "up" /\ watcher = "wait" => running = file
        /\ proc = "up" /\ watcher = "tail" => buffer.head = file.head
        /\ proc = "up" /\ watcher = "send" => buffer = file

LoadedIsWhole == watcher = "send" => Complete(buffer)

IInv ==
    /\ TypeOK /\ ScriptProgress /\ NotYetNotified /\ LoadsAreFresh
    /\ LoadedIsWhole /\ NeverTruncated

(* The first states satisfy the inductive invariant: the file is whole and  *)
(* the relay is down.                                                       *)
LEMMA InitIInv == Init => IInv
  <1> SUFFICES ASSUME Init, NEW l \in Lists, file = Whole(l) PROVE IInv
    BY DEF Init
  <1>0. pending \in BOOLEAN /\ unsignalled \in BOOLEAN
    BY DEF Init
  <1>1. TypeOK
    <2>1. file \in Content /\ source \in Half /\ buffer \in Content /\ running \in Content
      BY DEF Init, Content, Half, Empty, Whole
    <2>2. scripts \in 0 .. MaxScripts /\ crashes \in 0 .. MaxCrashes
      BY BoundsAssumption DEF Init
    <2> QED
      BY <1>0, <2>1, <2>2, Zenon DEF Init, TypeOK
  <1>2. Consistent(file) /\ ~pending
    BY ListsAssumption DEF Init, Whole, Consistent, Complete
  <1> QED
    BY <1>1, <1>2 DEF Init, IInv, ScriptProgress, NotYetNotified, LoadsAreFresh, LoadedIsWhole,
       NeverTruncated

(* Every step of the script, of the relay and of Docker preserves it.       *)
LEMMA StepIInv == IInv /\ [Next]_vars => IInv'
  <1> SUFFICES ASSUME IInv, [Next]_vars PROVE IInv'
    OBVIOUS
  <1> USE ListsAssumption, BoundsAssumption
      DEF IInv, TypeOK, ScriptProgress, NotYetNotified, LoadsAreFresh, LoadedIsWhole,
          NeverTruncated,
          Content, Half, Empty, Whole, Consistent, Complete, Due, scriptVars, relayVars
  <1>1. ASSUME NEW l \in Lists, ScriptStart(l) PROVE IInv'
    BY <1>1 DEF ScriptStart
  <1>2. CASE ScriptWriteHead
    BY <1>2 DEF ScriptWriteHead
  <1>3. CASE ScriptWriteTail
    BY <1>3 DEF ScriptWriteTail
  <1>4. CASE ScriptDies
    BY <1>4 DEF ScriptDies
  <1>5. CASE Signal
    <2>0. pending' \in BOOLEAN /\ unsignalled' \in BOOLEAN /\ ~unsignalled'
      BY <1>5 DEF Signal, Dead
    <2>1. CASE proc = "up"
      <3>1. pending'
        BY <1>5, <2>1 DEF Signal
      <3> QED
        BY <1>5, <2>0, <2>1, <3>1 DEF Signal
    <2>2. CASE proc = "down"
      <3>1. UNCHANGED pending
        BY <1>5, <2>2 DEF Signal
      <3> QED
        BY <1>5, <2>0, <2>2, <3>1 DEF Signal
    <2>3. CASE proc \in {"head", "tail", "prenotify"}
      <3>1. ~pending'
        BY <1>5, <2>3 DEF Signal, Dead
      <3> QED
        BY <1>5, <2>0, <2>3, <3>1 DEF Signal, Dead
    <2> QED
      BY <2>1, <2>2, <2>3
  <1>6. CASE Restart
    BY <1>6 DEF Restart
  <1>7. CASE StartReadHead
    BY <1>7 DEF StartReadHead
  <1>8. CASE StartReadTail
    <2> DEFINE loaded == [buffer EXCEPT !.tail = file.tail]
    <2>1. CASE Complete(loaded) /\ proc' = "prenotify" /\ running' = loaded
                 /\ buffer' = Empty /\ UNCHANGED <<watcher, pending, server>>
      BY <1>8, <2>1 DEF StartReadTail
    <2>2. CASE ~Consistent(loaded) /\ Dead
      <3>1. ~pending' /\ pending' \in BOOLEAN
        BY <2>2 DEF Dead
      <3> QED
        BY <1>8, <2>2, <3>1 DEF StartReadTail, Dead
    <2> QED
      BY <1>8, <2>1, <2>2 DEF StartReadTail
  <1>9. CASE Notify
    BY <1>9 DEF Notify
  <1>10. CASE Crash
    <2>1. ~pending' /\ pending' \in BOOLEAN
      BY <1>10 DEF Crash, Dead
    <2> QED
      BY <1>10, <2>1 DEF Crash, Dead
  <1>11. CASE TakeSignal
    BY <1>11 DEF TakeSignal
  <1>12. CASE ReloadReadHead
    BY <1>12 DEF ReloadReadHead
  <1>13. CASE ReloadReadTail
    BY <1>13 DEF ReloadReadTail
  <1>14. CASE ReloadReceive
    BY <1>14 DEF ReloadReceive
  <1>15. CASE ReloadReturn
    BY <1>15 DEF ReloadReturn
  <1>16. CASE UNCHANGED vars
    BY <1>16 DEF vars
  <1> QED
    BY <1>1, <1>2, <1>3, <1>4, <1>5, <1>6, <1>7, <1>8, <1>9, <1>10, <1>11, <1>12,
       <1>13, <1>14, <1>15, <1>16
    DEF Next, ScriptStep, MainStep, WatchStep

(* No SIGHUP is lost: whenever reload.sh is over and the relay's goroutines *)
(* wait, the relay enforces the list in the file.                           *)
THEOREM SettledRelayIsCurrent == Spec => []SettledIsCurrent
  <1>1. IInv => SettledIsCurrent
    BY DEF IInv, LoadsAreFresh, SettledIsCurrent
  <1> QED
    BY <1>1, InitIInv, StepIInv, PTL DEF Spec

(* A started relay never enforces a list cut short, whenever it reads the   *)
(* file that reload.sh rewrites in place.                                   *)
THEOREM ListIsNeverTruncated == Spec => []NeverTruncated
  <1>1. IInv => NeverTruncated
    BY DEF IInv
  <1> QED
    BY <1>1, InitIInv, StepIInv, PTL DEF Spec
=============================================================================
