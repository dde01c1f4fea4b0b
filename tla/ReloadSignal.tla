---------------------------- MODULE ReloadSignal ----------------------------
(***************************************************************************)
(* How a new client list reaches a running relay: deploy/server/reload.sh   *)
(* rewrites state/server.json in place and sends SIGHUP; watchReload        *)
(* (cmd/wsn-server/main.go) re-reads the file and hands the result to the   *)
(* loop of ListenAndServe; a relay that dies is started again by compose    *)
(* and reads the file at start-up.                                         *)
(*                                                                         *)
(* The file is written and read piecemeal, so it is modelled as two halves, *)
(* each of which holds a piece of some client list or nothing.  What Reload *)
(* does to the sessions is the subject of module Relay.                     *)
(***************************************************************************)
EXTENDS Naturals

CONSTANTS
    Lists,      \* client lists an administrator may install
    Nothing,    \* a half of the file that is not there
    MaxScripts, \* bound: runs of reload.sh
    MaxCrashes  \* bound: deaths of the relay other than by a stray SIGHUP

ASSUME ListsAssumption == Lists # {} /\ Nothing \notin Lists
ASSUME BoundsAssumption == MaxScripts \in Nat /\ MaxCrashes \in Nat

VARIABLES
    file,        \* state/server.json
    script,      \* where reload.sh stands
    source,      \* the list it installs
    unsignalled, \* a run of reload.sh changed the file and died before SIGHUP
    proc,        \* where the relay's main goroutine stands
    watcher,     \* where watchReload stands
    buffer,      \* what the load in progress (at start-up or on SIGHUP) has read
    pending,     \* a signal waits in watchReload's channel, whose capacity is 1
    server,      \* is ListenAndServe waiting or inside Reload
    running,     \* the client list the relay enforces
    scripts, crashes  \* counters for the bounds

scriptVars == <<script, source, unsignalled, scripts>>
relayVars  == <<proc, watcher, buffer, pending, server, running, crashes>>
vars == <<file, script, source, unsignalled, proc, watcher, buffer, pending,
          server, running, scripts, crashes>>

Half    == Lists \cup {Nothing}
Content == [head : Half, tail : Half]
Empty   == [head |-> Nothing, tail |-> Nothing]
Whole(l) == [head |-> l, tail |-> l]

\* loadJSON and the checks of LoadRelay refuse a file that stops half-way.
\* Two halves of different lists may or may not make a valid configuration.
Complete(f)   == f.head # Nothing /\ f.tail # Nothing
Consistent(f) == Complete(f) /\ f.head = f.tail

(* The type invariant; in particular watchReload, once started, is in one   *)
(* of the stages of its loop: no failed load ends it.                       *)
TypeOK ==
    /\ file \in Content
    /\ script \in {"idle", "truncated", "half", "written"}
    /\ source \in Half
    /\ unsignalled \in BOOLEAN
    /\ proc \in {"down", "head", "tail", "prenotify", "up"}
    /\ watcher \in {"wait", "head", "tail", "send"}
    /\ buffer \in Content
    /\ pending \in BOOLEAN
    /\ server \in {"wait", "reload"}
    /\ running \in Content
    /\ scripts \in 0 .. MaxScripts
    /\ crashes \in 0 .. MaxCrashes

\* install.sh has put a list in place; the relay has not been started yet.
Init ==
    /\ \E l \in Lists : file = Whole(l)
    /\ script = "idle" /\ source = Nothing /\ unsignalled = FALSE
    /\ proc = "down" /\ watcher = "wait" /\ buffer = Empty
    /\ pending = FALSE /\ server = "wait" /\ running = Empty
    /\ scripts = 0 /\ crashes = 0

----------------------------------------------------------------------------
(***************************************************************************)
(* reload.sh: cat "$source" >state/server.json; docker compose kill -s HUP *)
(***************************************************************************)
ScriptStart(l) ==
    /\ script = "idle" /\ scripts < MaxScripts
    /\ script' = "truncated" /\ source' = l
    /\ file' = Empty
    /\ scripts' = scripts + 1
    /\ UNCHANGED <<unsignalled, relayVars>>

ScriptWriteHead ==
    /\ script = "truncated"
    /\ file' = [file EXCEPT !.head = source]
    /\ script' = "half"
    /\ UNCHANGED <<source, unsignalled, scripts, relayVars>>

ScriptWriteTail ==
    /\ script = "half"
    /\ file' = [file EXCEPT !.tail = source]
    /\ script' = "written"
    /\ UNCHANGED <<source, unsignalled, scripts, relayVars>>

\* The script is interrupted, or a write fails and set -e ends it.
ScriptDies ==
    /\ script # "idle"
    /\ script' = "idle" /\ source' = Nothing /\ unsignalled' = TRUE
    /\ UNCHANGED <<file, scripts, relayVars>>

\* The relay is gone: nothing of it survives but the file.
Dead ==
    /\ proc' = "down" /\ watcher' = "wait" /\ buffer' = Empty
    /\ pending' = FALSE /\ server' = "wait" /\ running' = Empty

SignalUnbuffered ==
    /\ script = "written"
    /\ script' = "idle" /\ source' = Nothing /\ unsignalled' = FALSE
    /\ CASE proc = "up" ->
              /\ pending' = (watcher = "wait")
              /\ UNCHANGED <<proc, watcher, buffer, server, running>>
         [] proc = "down" ->
              UNCHANGED <<proc, watcher, buffer, pending, server, running>>
         [] OTHER -> Dead
    /\ UNCHANGED <<file, scripts, crashes>>

\* SIGHUP: after signal.Notify it is kept in the channel or, when one waits
\* there already, merged with it; before signal.Notify it kills the relay;
\* a container that is not running does not get it.
Signal ==
    /\ script = "written"
    /\ script' = "idle" /\ source' = Nothing /\ unsignalled' = FALSE
    /\ CASE proc = "up" ->
              /\ pending' = TRUE
              /\ UNCHANGED <<proc, watcher, buffer, server, running>>
         [] proc = "down" ->
              UNCHANGED <<proc, watcher, buffer, pending, server, running>>
         [] OTHER -> Dead
    /\ UNCHANGED <<file, scripts, crashes>>

----------------------------------------------------------------------------
(***************************************************************************)
(* The relay: main ...                                                     *)
(***************************************************************************)

\* restart: unless-stopped.
Restart ==
    /\ proc = "down"
    /\ proc' = "head"
    /\ UNCHANGED <<file, scriptVars, watcher, buffer, pending, server,
                   running, crashes>>

StartReadHead ==
    /\ proc = "head"
    /\ buffer' = [buffer EXCEPT !.head = file.head]
    /\ proc' = "tail"
    /\ UNCHANGED <<file, scriptVars, watcher, pending, server, running, crashes>>

StartReadTailUnchecked ==
    /\ proc = "tail"
    /\ proc' = "prenotify"
    /\ running' = [buffer EXCEPT !.tail = file.tail]
    /\ buffer' = Empty
    /\ UNCHANGED <<file, scriptVars, watcher, pending, server, crashes>>

\* LoadRelay succeeds and the relay starts to serve, or fails and fatal()
\* ends the process.
StartReadTail ==
    LET loaded == [buffer EXCEPT !.tail = file.tail] IN
    /\ proc = "tail"
    /\ \/ /\ Complete(loaded)
          /\ proc' = "prenotify" /\ running' = loaded /\ buffer' = Empty
          /\ UNCHANGED <<watcher, pending, server>>
       \/ ~Consistent(loaded) /\ Dead
    /\ UNCHANGED <<file, scriptVars, crashes>>

\* watchReload, in a goroutine of its own, registers for SIGHUP.
Notify ==
    /\ proc = "prenotify"
    /\ proc' = "up"
    /\ UNCHANGED <<file, scriptVars, watcher, buffer, pending, server,
                   running, crashes>>

Crash ==
    /\ proc # "down" /\ crashes < MaxCrashes
    /\ Dead
    /\ crashes' = crashes + 1
    /\ UNCHANGED <<file, scriptVars>>

----------------------------------------------------------------------------
(***************************************************************************)
(* ... watchReload, and the loop of ListenAndServe.                        *)
(***************************************************************************)
TakeSignal ==
    /\ proc = "up" /\ watcher = "wait" /\ pending
    /\ pending' = FALSE /\ watcher' = "head"
    /\ UNCHANGED <<file, scriptVars, proc, buffer, server, running, crashes>>

ReloadReadHead ==
    /\ watcher = "head"
    /\ buffer' = [buffer EXCEPT !.head = file.head]
    /\ watcher' = "tail"
    /\ UNCHANGED <<file, scriptVars, proc, pending, server, running, crashes>>

\* A load that fails is logged and the running configuration is kept.
ReloadReadTail ==
    LET loaded == [buffer EXCEPT !.tail = file.tail] IN
    /\ watcher = "tail"
    /\ \/ Complete(loaded) /\ watcher' = "send" /\ buffer' = loaded
       \/ ~Consistent(loaded) /\ watcher' = "wait" /\ buffer' = Empty
    /\ UNCHANGED <<file, scriptVars, proc, pending, server, running, crashes>>

\* reload <- updated meets ListenAndServe's receive, and Reload swaps in the list.
ReloadReceive ==
    /\ watcher = "send" /\ server = "wait"
    /\ running' = buffer
    /\ watcher' = "wait" /\ buffer' = Empty
    /\ server' = "reload"
    /\ UNCHANGED <<file, scriptVars, proc, pending, crashes>>

ReloadNeverReturns == FALSE /\ UNCHANGED vars

ReloadReturn ==
    /\ server = "reload"
    /\ server' = "wait"
    /\ UNCHANGED <<file, scriptVars, proc, watcher, buffer, pending, running, crashes>>

----------------------------------------------------------------------------
ScriptStep == ScriptWriteHead \/ ScriptWriteTail \/ Signal
MainStep   == Restart \/ StartReadHead \/ StartReadTail \/ Notify
WatchStep  == TakeSignal \/ ReloadReadHead \/ ReloadReadTail \/ ReloadReceive

Next ==
    \/ \E l \in Lists : ScriptStart(l)
    \/ ScriptStep \/ ScriptDies
    \/ MainStep \/ Crash
    \/ WatchStep \/ ReloadReturn

Spec == Init /\ [][Next]_vars

\* A script that is left alone goes on, Docker restarts the relay, and the
\* relay's goroutines are scheduled.  Nobody has to run reload.sh.
Fairness ==
    /\ WF_vars(ScriptStep) /\ WF_vars(MainStep)
    /\ WF_vars(WatchStep) /\ WF_vars(ReloadReturn)

FairSpec == Spec /\ Fairness

----------------------------------------------------------------------------
(***************************************************************************)
(* Properties.                                                             *)
(***************************************************************************)

\* Something will still tell the relay of the file, or nothing ever will
\* because a script died before its signal.
Due == script # "idle" \/ unsignalled \/ pending

(* When reload.sh has returned and watchReload and ListenAndServe wait with *)
(* nothing to do, the relay enforces the list in the file: no SIGHUP is     *)
(* lost, merged too early, or answered with what the file held before.      *)
SettledIsCurrent ==
    proc = "up" /\ watcher = "wait" /\ ~Due => running = file

(* A relay that has started never enforces a client list cut short by a     *)
(* script that was half-way through rewriting the file.                     *)
NeverTruncated ==
    proc \in {"prenotify", "up"} => Complete(running)

(* Whatever crashes, restarts and failed loads come in between, the relay   *)
(* ends up serving the list in the file, unless the last reload.sh died     *)
(* before it signalled.                                                     *)
FinallyCurrent ==
    <>[](unsignalled \/ (proc = "up" /\ running = file))
=============================================================================
