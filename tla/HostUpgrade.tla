----------------------------- MODULE HostUpgrade -----------------------------
(***************************************************************************)
(* The binaries of a Linux client host under upgrade-linux.sh and           *)
(* rollback-linux.sh (src/internal/provision/assets).  A script is a list   *)
(* of commands under `set -e`: it ends at the first that fails, and it can  *)
(* be killed between any two.  cp and install can leave half a file; mv     *)
(* cannot.  One administrator runs one script at a time.                    *)
(*                                                                          *)
(* systemd is external.  wsn-client.service is Type=simple and requires     *)
(* wsn-net.service: `systemctl start` may fail for any binary; if it does   *)
(* not, the unit is active two seconds later exactly if the binary works.   *)
(* A boot starts the unit, or fails to.                                     *)
(***************************************************************************)
EXTENDS Naturals, FiniteSets

CONSTANTS
    Versions,    \* the binaries that exist
    Works,       \* those that run on this host
    Installed,   \* the one install-linux.sh put there
    Torn,        \* half a file
    Missing,     \* no file
    MaxFaults    \* bound: scripts that are killed or meet a failing command

VersionsAssumption ==
    /\ IsFiniteSet(Versions) /\ Works \subseteq Versions /\ Installed \in Works
    /\ Torn \notin Versions /\ Missing \notin Versions
MaxFaultsAssumption == MaxFaults \in Nat

Files  == {"client", "previous", "rollback"}
Stages == {"idle", "stop", "save", "install", "start", "health", "restore",
           "again", "stopBack", "aside", "back", "keep", "startBack"}

VARIABLES
    file,      \* /opt/wsn/wsn-client, .previous and .rollback
    active,    \* the service runs
    stage,     \* the next command of the script at work
    new,       \* $new_binary
    before,    \* history: the files when the script began
    exit,      \* how the last script ended
    faults,    \* faults so far
    risked     \* history: an upgrade was begun of a client that does not run

vars == <<file, active, stage, new, before, exit, faults, risked>>
script == <<new, before, faults, risked>>

Content == Versions \cup {Torn, Missing}

(* The type invariant. *)
TypeOK ==
    /\ file \in [Files -> Content]
    /\ active \in BOOLEAN
    /\ stage \in Stages
    /\ new \in Versions
    /\ before \in [Files -> Content]
    /\ exit \in {"none", "upgraded", "restored", "rolledBack", "fault"}
    /\ faults \in 0 .. MaxFaults
    /\ risked \in BOOLEAN

Init ==
    /\ file = [f \in Files |-> IF f = "client" THEN Installed ELSE Missing]
    /\ active = TRUE
    /\ stage = "idle" /\ new = Installed /\ before = file
    /\ exit = "none" /\ faults = 0 /\ risked = FALSE

Runs == file["client"] \in Works

----------------------------------------------------------------------------
(***************************************************************************)
(* Commands                                                                *)
(***************************************************************************)
Stop(from, to) ==
    /\ stage = from
    /\ active' = FALSE
    /\ stage' = to
    /\ UNCHANGED <<file, exit, script>>

\* cp or install of a content; a missing source is a failing command.
Copy(from, content, target, to) ==
    /\ stage = from
    /\ content # Missing
    /\ file' = [file EXCEPT ![target] = content]
    /\ stage' = to
    /\ UNCHANGED <<active, exit, script>>

Move(from, source, target, to) ==
    /\ stage = from
    /\ file[source] # Missing
    /\ file' = [file EXCEPT ![target] = file[source], ![source] = Missing]
    /\ stage' = to
    /\ UNCHANGED <<active, exit, script>>

\* What a copy that is cut short leaves: half a file, or, of install, which
\* removes its target first, none.
CutShort == CASE stage = "save"    -> {[file EXCEPT !["previous"] = Torn]}
              [] stage = "restore" -> {[file EXCEPT !["client"] = Torn]}
              [] stage = "install" ->
                    {[file EXCEPT !["client"] = x] : x \in {Torn, Missing}}
              [] OTHER             -> {}

\* The script at work ends here: it is killed, or a command of it fails.
Fault ==
    /\ stage # "idle" /\ faults < MaxFaults
    /\ file' \in {file} \cup CutShort
    /\ stage' = "idle" /\ exit' = "fault"
    /\ faults' = faults + 1
    /\ UNCHANGED <<active, new, before, risked>>

\* A command that cannot succeed: cp or mv without its source.
Refused ==
    /\ \/ stage \in {"save", "aside"} /\ file["client"] = Missing
       \/ stage = "restore" /\ file["previous"] = Missing
    /\ stage' = "idle" /\ exit' = "fault"
    /\ UNCHANGED <<file, active, script>>

----------------------------------------------------------------------------
(***************************************************************************)
(* upgrade-linux.sh                                                        *)
(***************************************************************************)

\* The checksum matched.
BeginUpgrade(v) ==
    /\ stage = "idle"
    /\ stage' = "stop"
    /\ new' = v /\ before' = file /\ exit' = "none"
    /\ risked' = (risked \/ ~Runs)
    /\ UNCHANGED <<file, active, faults>>

SaveSkipped == Copy("save", file["client"], "client", "install")

Save       == Copy("save", file["client"], "previous", "install")
InstallNew == Copy("install", new, "client", "start")

\* systemctl start
Start ==
    /\ stage = "start"
    /\ \/ stage' = "health" /\ active' = Runs
       \/ stage' = "restore" /\ active' = FALSE
    /\ UNCHANGED <<file, exit, script>>

\* A start at the end of a script: if it fails the message is not printed.
Outcome(message) ==
    /\ stage' = "idle"
    /\ \/ exit' = message /\ active' = Runs
       \/ exit' = "fault" /\ active' = FALSE
    /\ UNCHANGED <<file, script>>

HealthUnchecked ==
    /\ stage = "health"
    /\ stage' = "idle" /\ exit' = "upgraded"
    /\ UNCHANGED <<file, active, script>>

\* systemctl is-active, after two seconds.
Health ==
    /\ stage = "health"
    /\ IF active THEN stage' = "idle" /\ exit' = "upgraded"
                 ELSE stage' = "restore" /\ exit' = exit
    /\ UNCHANGED <<file, active, script>>

Restore == Copy("restore", file["previous"], "client", "again")

\* systemctl start or restart, the message that the previous binary was
\* restored, and exit 1.
StartAgain ==
    /\ stage = "again"
    /\ Outcome("restored")

----------------------------------------------------------------------------
(***************************************************************************)
(* rollback-linux.sh                                                       *)
(***************************************************************************)
BeginRollback ==
    /\ stage = "idle"
    /\ file["previous"] # Missing
    /\ stage' = "stopBack"
    /\ before' = file /\ exit' = "none"
    /\ UNCHANGED <<file, active, new, faults, risked>>

MoveAsideForgotten == Move("aside", "previous", "client", "startBack")
MoveKeepForgotten ==
    /\ stage = "keep"
    /\ stage' = "startBack"
    /\ UNCHANGED <<file, active, exit, script>>

MoveAside == Move("aside", "client", "rollback", "back")
MoveBack  == Move("back", "previous", "client", "keep")
MoveKeep  == Move("keep", "rollback", "previous", "startBack")

StartBack ==
    /\ stage = "startBack"
    /\ Outcome("rolledBack")

\* The host restarts while no script is at work.
Boot ==
    /\ stage = "idle"
    /\ active' \in {Runs, FALSE}
    /\ exit' = "none"
    /\ UNCHANGED <<file, stage, script>>

----------------------------------------------------------------------------
Next ==
    \/ \E v \in Versions : BeginUpgrade(v)
    \/ Stop("stop", "save") \/ Save \/ InstallNew \/ Start \/ Health
    \/ Restore \/ StartAgain
    \/ BeginRollback
    \/ Stop("stopBack", "aside") \/ MoveAside \/ MoveBack \/ MoveKeep \/ StartBack
    \/ Fault \/ Refused \/ Boot

Spec == Init /\ [][Next]_vars

----------------------------------------------------------------------------
(* An upgrade that says it succeeded left the new binary in place, the      *)
(* binary it replaced as the previous one, and the service runs.  One that  *)
(* says it restored the previous binary put back exactly what was there     *)
(* when it began, whether or not that is a binary that runs, and a roll-back *)
(* that says it rolled back exchanged exactly the client and the previous   *)
(* binary; in both cases the service was started.  All this whatever        *)
(* happened to earlier scripts.                                             *)
ExitTellsTruth ==
    /\ exit = "upgraded" =>
          /\ file["client"] = new /\ file["previous"] = before["client"]
          /\ new \in Works /\ active
    /\ exit = "restored" =>
          /\ file["client"] = before["client"] /\ file["previous"] = before["client"]
          /\ active <=> Runs
    /\ exit = "rolledBack" =>
          /\ file["client"] = before["previous"] /\ file["previous"] = before["client"]
          /\ active <=> Runs

(* Scripts that are cut short at any command, and roll-backs, never cost    *)
(* /opt/wsn its last working binary.  Only an upgrade of a client that does *)
(* not run may: it saves that client over the previous binary.  So as long  *)
(* as there was no such upgrade a working binary is in one of the files,    *)
(* and an upgrade or a roll-back that found a working client keeps one in   *)
(* any case.                                                                *)
WorkingBinaryKept ==
    ~risked \/ before["client"] \in Works => \E f \in Files : file[f] \in Works

(* "Each upgrade retains one previous binary and automatically restores it  *)
(* if the service cannot restart" (src/README.md:284): after an upgrade     *)
(* that failed and restored, the client that is in place runs.              *)
RestoredRuns == exit = "restored" => Runs
==============================================================================
