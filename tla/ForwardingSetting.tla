-------------------------- MODULE ForwardingSetting --------------------------
(***************************************************************************)
(* IPv4 forwarding of a host that becomes a gateway, is installed again as  *)
(* a gateway or as a plain client, and is uninstalled: the steps of         *)
(* install-linux.sh and uninstall-linux.sh (src/internal/provision/assets)  *)
(* that touch net.ipv4.ip_forward.  The scripts work under `set -e`, can    *)
(* fail or be killed at any command, and the host may restart at any time;  *)
(* one administrator runs one of them at a time.  An `rm` of several files  *)
(* is one command per file that matters here, in the order it names them.   *)
(***************************************************************************)
EXTENDS Naturals, Sequences

CONSTANTS
    Missing,     \* no file
    Torn         \* a file that was created and not written

Values == {0, 1}

FilesAssumption ==
    Missing \notin Values /\ Torn \notin Values /\ Missing # Torn

VARIABLES
    own,      \* what the host sets net.ipv4.ip_forward to without WSN
    kernel,   \* net.ipv4.ip_forward
    saved,    \* /etc/wsn/ip_forward.previous
    conf,     \* is /etc/sysctl.d/90-wsn-gateway.conf there, with its line
    todo,     \* the commands left of the script at work
    goal,     \* that script, "none" when none is at work
    exit,     \* how the last script ended
    losses    \* history: what scripts that were cut short have cost so far

vars == <<own, kernel, saved, conf, todo, goal, exit, losses>>

Scripts == {"gateway", "client", "uninstall"}
Commands == {"save", "conf", "apply", "restore", "clearConf", "clearSaved", "other"}

\* "torn": a script ended between creating ip_forward.previous and writing it;
\* "unlinked": an install of a client between its unlinks of that file and of
\* the sysctl file; "applied": a restart then put the sysctl file into force.
Losses == {"torn", "unlinked", "applied"}

(* The type invariant. *)
TypeOK ==
    /\ own \in Values /\ kernel \in Values
    /\ saved \in Values \cup {Missing, Torn}
    /\ conf \in BOOLEAN
    /\ todo \in Seq(Commands)
    /\ goal \in Scripts \cup {"none"}
    /\ exit \in Scripts \cup {"none", "fault"}
    /\ losses \subseteq Losses

Init ==
    /\ own \in Values /\ kernel = own
    /\ saved = Missing /\ conf = FALSE
    /\ todo = <<>> /\ goal = "none" /\ exit = "none"
    /\ losses = {}

----------------------------------------------------------------------------
GatewayConfFirst == <<"other", "conf", "save", "apply", "other">>

\* install-linux.sh of a gateway bundle: binaries and the network check, the
\* setting, the services.
InstallGateway == <<"other", "save", "conf", "apply", "other">>

\* install-linux.sh of a client bundle, on a host that may be a gateway: its
\* rm names ip_forward.previous before 90-wsn-gateway.conf.
InstallClient == <<"restore", "clearSaved", "clearConf", "other">>

UninstallSavedFirst == <<"restore", "clearSaved", "clearConf", "other">>

\* uninstall-linux.sh, whose rm commands come in the other order.
Uninstall == <<"restore", "clearConf", "clearSaved", "other">>

Begin(script, commands) ==
    /\ goal = "none"
    /\ goal' = script /\ todo' = commands /\ exit' = "none"
    /\ UNCHANGED <<own, kernel, saved, conf, losses>>

At(command) ==
    /\ todo # <<>> /\ Head(todo) = command
    /\ todo' = Tail(todo)
    /\ UNCHANGED <<own, goal, exit, losses>>

SaveAgain ==
    /\ At("save")
    /\ saved' = kernel
    /\ UNCHANGED <<kernel, conf>>

\* The value in force is saved unless an earlier install has saved one.
Save ==
    /\ At("save")
    /\ saved' = IF saved = Missing THEN kernel ELSE saved
    /\ UNCHANGED <<kernel, conf>>

WriteConf ==
    /\ At("conf")
    /\ conf' = TRUE
    /\ UNCHANGED <<kernel, saved>>

\* sysctl --system, which a start of the host does as well.  That no file it
\* reads later than 90-wsn-gateway.conf sets ip_forward too is assumed.
Apply ==
    /\ At("apply")
    /\ kernel' = IF conf THEN 1 ELSE own
    /\ UNCHANGED <<saved, conf>>

\* sysctl -w with the saved value, if there is one; it fails on an empty one.
Restore ==
    /\ At("restore")
    /\ saved # Torn
    /\ kernel' = IF saved = Missing THEN kernel ELSE saved
    /\ UNCHANGED <<saved, conf>>

\* rm of 90-wsn-gateway.conf
ClearConf ==
    /\ At("clearConf")
    /\ conf' = FALSE
    /\ UNCHANGED <<kernel, saved>>

\* rm of ip_forward.previous, or of /etc/wsn with it
ClearSaved ==
    /\ At("clearSaved")
    /\ saved' = Missing
    /\ UNCHANGED <<kernel, conf>>

\* Commands that do not touch the setting.
Other == At("other") /\ UNCHANGED <<kernel, saved, conf>>

Finish ==
    /\ goal # "none" /\ todo = <<>>
    /\ exit' = goal /\ goal' = "none"
    /\ UNCHANGED <<own, kernel, saved, conf, todo, losses>>

\* A client is being installed, its rm has unlinked ip_forward.previous and not
\* yet the sysctl file.
Unlinking == goal = "client" /\ todo # <<>> /\ Head(todo) = "clearConf"

\* A command fails or the script is killed.  A redirection may have created or
\* emptied its file and written nothing; an rm that cannot unlink one file goes
\* on with the next.
Fault ==
    /\ todo # <<>>
    /\ \/ UNCHANGED <<saved, conf>>
       \/ Head(todo) = "save" /\ saved = Missing /\ saved' = Torn /\ UNCHANGED conf
       \/ /\ \/ Head(todo) = "conf"
             \/ goal = "client" /\ Head(todo) = "clearSaved"
          /\ conf' = FALSE /\ UNCHANGED saved
    /\ losses' = losses \cup (IF saved' # saved THEN {"torn"} ELSE {})
                          \cup (IF Unlinking THEN {"unlinked"} ELSE {})
    /\ goal' = "none" /\ todo' = <<>> /\ exit' = "fault"
    /\ UNCHANGED <<own, kernel>>

\* The host restarts: sysctl.d is applied, a script at work is gone.
Boot ==
    /\ kernel' = IF conf THEN 1 ELSE own
    /\ losses' = losses \cup (IF Unlinking THEN {"unlinked"} ELSE {})
                          \cup (IF conf /\ saved = Missing THEN {"applied"} ELSE {})
    /\ goal' = "none" /\ todo' = <<>> /\ exit' = "none"
    /\ UNCHANGED <<own, saved, conf>>

Next ==
    \/ Begin("gateway", InstallGateway)
    \/ Begin("client", InstallClient)
    \/ Begin("uninstall", Uninstall)
    \/ Save \/ WriteConf \/ Apply \/ Restore
    \/ ClearConf \/ ClearSaved \/ Other
    \/ Finish \/ Fault \/ Boot

Spec == Init /\ [][Next]_vars

----------------------------------------------------------------------------
(* An install that made the host a gateway has turned forwarding on for     *)
(* good.  One that made it a client, and an uninstall, leave nothing that a  *)
(* restart would apply and no saved value, and the host's own setting is in  *)
(* force, through any number of installs, cut-short scripts and restarts     *)
(* before them -- unless the host once restarted after a client install that *)
(* was cut short between its two unlinks.                                    *)
ForwardingFollowsRole ==
    /\ exit = "gateway" => kernel = 1 /\ conf
    /\ exit \in {"client", "uninstall"} =>
          /\ ~conf /\ saved = Missing
          /\ "applied" \notin losses => kernel = own

(* The host's own value is never forgotten: it is in force or in the saved   *)
(* file.  Two accidents cost it, and nothing else does: the file is empty    *)
(* because a script ended while writing it ("torn"), or it was unlinked by   *)
(* an install of a client that ended before it unlinked the sysctl file, and *)
(* the host then restarted.  Only those unlinks leave the sysctl file        *)
(* without a saved value.                                                    *)
OwnSettingRemembered ==
    /\ "applied" \notin losses =>
          \/ kernel = own \/ saved = own
          \/ saved = Torn /\ "torn" \in losses
    /\ conf /\ saved = Missing => Unlinking \/ "unlinked" \in losses
    /\ "applied" \in losses => "unlinked" \in losses

(* The installer "enables forwarding [...] only for gateway bundles"         *)
(* (src/README.md:241): where a client bundle was installed, forwarding is   *)
(* not on unless the host itself has it on.                                  *)
ForwardingOnlyForGateways == exit = "client" /\ own = 0 => kernel = 0
==============================================================================
