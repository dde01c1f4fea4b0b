------------------------------- MODULE MCHost -------------------------------
(***************************************************************************)
(* What happens to a client's host outside the running client, for TLC:    *)
(* upgrades and roll-backs of its binary (HostUpgrade), a gateway's packet  *)
(* filter (GatewayRules) and ip_forward (ForwardingSetting), the route      *)
(* check (RouteCheck), and the log of the Windows service (LogRotation).    *)
(* They touch different files and settings, so a behaviour moves one of     *)
(* them and leaves the others as they began.                                *)
(***************************************************************************)
EXTENDS Integers

CONSTANTS Versions, Works, Installed, Torn, Missing, MaxFaults
VARIABLES file, running, stage, new, before, ended, upgradeFaults, risked
Upgrade == INSTANCE HostUpgrade WITH
    active <- running, exit <- ended, faults <- upgradeFaults

CONSTANT Networks
VARIABLES env, chain, jumps, todo, verb, unit, exit, faults
Rules == INSTANCE GatewayRules

VARIABLES own, kernel, saved, conf, steps, goal, result, losses
Setting == INSTANCE ForwardingSetting WITH todo <- steps, exit <- result

CONSTANTS Width, RouteSets, MaxLines
VARIABLES role, address, routes, table, read, lines, verdict
Routes == INSTANCE RouteCheck

CONSTANTS Limit, Lengths, MaxPieces
VARIABLES active, previous, exists, pieces, out, open, size, pc, line, failed
Log == INSTANCE LogRotation

\* At most one route is configured, canonical or not.
MCRouteSets ==
    {{}} \cup {{[addr |-> a, bits |-> b]} : a \in 0 .. 2 ^ Width - 1, b \in 0 .. Width}

VARIABLE part   \* the one that moves

ASSUME PartsAssumption ==
    /\ Upgrade!VersionsAssumption /\ Upgrade!MaxFaultsAssumption
    /\ Rules!NetworksAssumption /\ Rules!MaxFaultsAssumption
    /\ Setting!FilesAssumption
    /\ Routes!WidthAssumption /\ Routes!RoutesAssumption
    /\ Log!LimitAssumption /\ Log!LengthsAssumption /\ Log!MaxPiecesAssumption

upgradeVars == <<file, running, stage, new, before, ended, upgradeFaults, risked>>
rulesVars   == <<env, chain, jumps, todo, verb, unit, exit, faults>>
settingVars == <<own, kernel, saved, conf, steps, goal, result, losses>>
routesVars  == <<role, address, routes, table, read, lines, verdict>>
logVars     == <<active, previous, exists, pieces, out, open, size, pc, line, failed>>

Init ==
    /\ part \in {"upgrade", "rules", "setting", "routes", "log"}
    /\ Upgrade!Init /\ Log!Init
    /\ Rules!Init /\ (part # "rules" => env = <<>>)
    /\ Setting!Init /\ (part # "setting" => own = 0)
    /\ Routes!Init
    /\ part # "routes" => /\ role = "client" /\ routes = {}
                          /\ address = [addr |-> 1, bits |-> Width - 2]

Upgrades ==
    /\ part = "upgrade" /\ Upgrade!Next
    /\ UNCHANGED <<part, rulesVars, settingVars, routesVars, logVars>>
Filters ==
    /\ part = "rules" /\ Rules!Next
    /\ UNCHANGED <<part, upgradeVars, settingVars, routesVars, logVars>>
Forwards ==
    /\ part = "setting" /\ Setting!Next
    /\ UNCHANGED <<part, upgradeVars, rulesVars, routesVars, logVars>>
ChecksRoutes ==
    /\ part = "routes" /\ Routes!Next
    /\ UNCHANGED <<part, upgradeVars, rulesVars, settingVars, logVars>>
Logs ==
    /\ part = "log" /\ Log!Next
    /\ UNCHANGED <<part, upgradeVars, rulesVars, settingVars, routesVars>>

Next == Upgrades \/ Filters \/ Forwards \/ ChecksRoutes \/ Logs

Spec ==
    Init /\ [][Next]_<<part, upgradeVars, rulesVars, settingVars, routesVars, logVars>>

----------------------------------------------------------------------------
(* A script of the host that ends with a message or with success has done   *)
(* what it says, whatever earlier ones left behind: upgrade-linux.sh and    *)
(* rollback-linux.sh (ExitTellsTruth), wsn-gateway.sh up and down           *)
(* (UpIsExact, DownUnhooks), the installer and the uninstaller              *)
(* (ForwardingFollowsRole), these two except for the kernel's setting on a  *)
(* host that restarted between the unlinks of a client install.             *)
ScriptsTellTruth ==
    /\ Upgrade!ExitTellsTruth
    /\ Rules!UpIsExact /\ Rules!DownUnhooks
    /\ Setting!ForwardingFollowsRole

(* What a repair needs is lost in the cases these name and in no other: a   *)
(* working binary by an upgrade of a client that does not run               *)
(* (WorkingBinaryKept); the host's own value of ip_forward by a script that *)
(* ends while it writes the value down, or by a restart after a client      *)
(* install that ended between its unlinks (OwnSettingRemembered).           *)
RepairIsPossible == Upgrade!WorkingBinaryKept /\ Setting!OwnSettingRemembered

(* Packets of the overlay never pass through an incomplete chain.           *)
HookedIsConfined == Rules!HookedIsConfined

(* The route check refuses a configuration exactly when an address of the   *)
(* tunnel is one that the host already reaches another way.                 *)
CheckExact == Routes!CheckExact

(* Whatever operation of a rotation fails and wherever the service ends,    *)
(* only the oldest lines of the log go (KeepsLatestLines), and the limit is *)
(* kept and applied to the real size (GenerationBounded, SizeNotBehind).    *)
LogKeepsLatest ==
    Log!KeepsLatestLines /\ Log!SizeNotBehind /\ Log!GenerationBounded
=============================================================================
