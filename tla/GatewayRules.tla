---------------------------- MODULE GatewayRules -----------------------------
(***************************************************************************)
(* The packet filter of the workplace gateway under wsn-gateway.sh          *)
(* (src/internal/provision/assets): `up` and `down` as the commands they    *)
(* run, one iptables call each.  The script works under `set -e`: it ends   *)
(* at the first command that fails, except those followed by `|| true`, and *)
(* it can be killed between any two.  systemd (external) runs one of them   *)
(* at a time, and `down` only after an `up` that succeeded.                 *)
(*                                                                          *)
(* iptables is external: -N fails on a chain that exists, -X on one that is *)
(* not empty or is jumped to, -F on one that does not exist; any call that  *)
(* changes a table may also fail for reasons of its own and then changes    *)
(* nothing.  -C answers truthfully.  A boot empties the tables.             *)
(***************************************************************************)
EXTENDS Naturals, Sequences, FiniteSets

CONSTANTS
    Networks,    \* corporate networks
    MaxFaults    \* bound: kills and failing commands

NetworksAssumption == IsFiniteSet(Networks)
MaxFaultsAssumption == MaxFaults \in Nat

Tables == {"filter", "nat"}

\* The rules of the two chains: replies, a destination, everything else of
\* the overlay, and the return at the end.
Rules == {"replies", "reject", "return"} \cup Networks

VARIABLES
    env,      \* WSN_DESTINATIONS of gateway.env, in the order of the file
    chain,    \* per table, its WSN chain: [made, rules]
    jumps,    \* per table, the jumps to it from FORWARD or POSTROUTING
    todo,     \* the commands left of the script at work
    verb,     \* that script: "up" or "down", "none" when none is at work
    unit,     \* wsn-gateway.service: "inactive", "active" or "failed"
    exit,     \* how the last script ended
    faults

vars == <<env, chain, jumps, todo, verb, unit, exit, faults>>

NoChain == [made |-> FALSE, rules |-> <<>>]

\* WSN_DESTINATIONS: some of the networks, each once.
Destinations ==
    {d \in UNION {[1 .. n -> Networks] : n \in 0 .. Cardinality(Networks)} :
        \A i, j \in DOMAIN d : i # j => d[i] # d[j]}

(* The type invariant; the loop of delete_jump would be needed for a second *)
(* jump, and no run of `up` makes one.                                      *)
TypeOK ==
    /\ env \in Destinations
    /\ chain \in [Tables -> [made : BOOLEAN, rules : Seq(Rules)]]
    /\ jumps \in [Tables -> 0 .. 1]
    /\ \A i \in DOMAIN todo : todo[i].table \in Tables
    /\ verb \in {"none", "up", "down"}
    /\ unit \in {"inactive", "active", "failed"}
    /\ exit \in {"none", "up", "down", "fault"}
    /\ faults \in 0 .. MaxFaults

Init ==
    /\ env \in Destinations
    /\ chain = [t \in Tables |-> NoChain]
    /\ jumps = [t \in Tables |-> 0]
    /\ todo = <<>> /\ verb = "none" /\ unit = "inactive"
    /\ exit = "none" /\ faults = 0

----------------------------------------------------------------------------
(***************************************************************************)
(* The script as a list of commands.                                       *)
(***************************************************************************)
Cmd(op, t) == [op |-> op, table |-> t]
Add(t, r)  == [op |-> "append", table |-> t, rule |-> r]

\* The commands whose failure is ignored.
Ignored == {"flush", "delete"}

DownFilterOnly ==
    <<Cmd("unhook", "filter"),
      Cmd("flush", "filter"), Cmd("delete", "filter"),
      Cmd("flush", "nat"), Cmd("delete", "nat")>>

DownFlushFirst ==
    <<Cmd("flush", "filter"), Cmd("delete", "filter"),
      Cmd("flush", "nat"), Cmd("delete", "nat"),
      Cmd("unhook", "filter"), Cmd("unhook", "nat")>>

DownCommands ==
    <<Cmd("unhook", "filter"), Cmd("unhook", "nat"),
      Cmd("flush", "filter"), Cmd("delete", "filter"),
      Cmd("flush", "nat"), Cmd("delete", "nat")>>

\* Per destination, the rule that accepts it and the one that masquerades it.
PerDestination ==
    [i \in 1 .. 2 * Len(env) |->
        Add(IF i % 2 = 1 THEN "filter" ELSE "nat", env[(i + 1) \div 2])]

UpReusesChains ==
       SelectSeq(<<Cmd("new", "filter"), Cmd("new", "nat")>>,
                 LAMBDA c : ~chain[c.table].made)
    \o <<Add("filter", "replies")>> \o PerDestination
    \o <<Add("filter", "reject"), Add("filter", "return"), Add("nat", "return")>>
    \o <<Cmd("hook", "filter"), Cmd("hook", "nat")>>

UpCommands ==
       DownCommands
    \o <<Cmd("new", "filter"), Cmd("new", "nat"), Add("filter", "replies")>>
    \o PerDestination
    \o <<Add("filter", "reject"), Add("filter", "return"), Add("nat", "return")>>
    \o <<Cmd("hook", "filter"), Cmd("hook", "nat")>>

----------------------------------------------------------------------------
(***************************************************************************)
(* systemd                                                                 *)
(***************************************************************************)
Begin(v, commands) ==
    /\ verb = "none"
    /\ verb' = v /\ todo' = commands /\ exit' = "none"
    /\ UNCHANGED <<env, chain, jumps, unit, faults>>

\* systemctl start, unless the unit is active.
Start == unit # "active" /\ Begin("up", UpCommands)

\* systemctl stop.
StopUnit == unit = "active" /\ Begin("down", DownCommands)

\* install-linux.sh puts another gateway.env there, with the unit stopped.
Reconfigure ==
    /\ verb = "none" /\ unit # "active"
    /\ env' \in Destinations \ {env}
    /\ exit' = "none"
    /\ UNCHANGED <<chain, jumps, todo, verb, unit, faults>>

\* The host restarts, also in the middle of a script.
Boot ==
    /\ chain' = [t \in Tables |-> NoChain]
    /\ jumps' = [t \in Tables |-> 0]
    /\ todo' = <<>> /\ verb' = "none" /\ unit' = "inactive" /\ exit' = "none"
    /\ UNCHANGED <<env, faults>>

\* The last command has succeeded.
Finish ==
    /\ verb # "none" /\ todo = <<>>
    /\ exit' = verb
    /\ unit' = IF verb = "up" THEN "active" ELSE "inactive"
    /\ verb' = "none"
    /\ UNCHANGED <<env, chain, jumps, todo, faults>>

----------------------------------------------------------------------------
(***************************************************************************)
(* One command: what iptables does, or its failure.                        *)
(***************************************************************************)
Possible(c) ==
    CASE c.op = "new"    -> ~chain[c.table].made
      [] c.op = "delete" -> /\ chain[c.table] = [made |-> TRUE, rules |-> <<>>]
                            /\ jumps[c.table] = 0
      [] c.op = "unhook" -> TRUE
      [] OTHER           -> chain[c.table].made

Effect(c) ==
    /\ chain' = [chain EXCEPT ![c.table] =
          CASE c.op \in {"new", "flush"} -> [made |-> TRUE, rules |-> <<>>]
            [] c.op = "delete" -> NoChain
            [] c.op = "append" -> [made |-> TRUE, rules |-> Append(@.rules, c.rule)]
            [] OTHER           -> @]
    /\ jumps' = [jumps EXCEPT ![c.table] =
          CASE c.op = "hook"           -> @ + 1
            [] c.op = "unhook" /\ @ > 0 -> @ - 1
            [] OTHER                   -> @]

\* delete_jump goes on until there is no jump left.
Succeeds ==
    /\ todo # <<>>
    /\ LET c == Head(todo) IN
         /\ Possible(c)
         /\ Effect(c)
         /\ todo' = IF c.op = "unhook" /\ jumps[c.table] > 0 THEN todo ELSE Tail(todo)
    /\ UNCHANGED <<env, verb, unit, exit, faults>>

\* The command fails, by itself or because it must, and is ignored.
FailsIgnored ==
    /\ todo # <<>> /\ Head(todo).op \in Ignored
    /\ \/ ~Possible(Head(todo)) /\ UNCHANGED faults
       \/ Possible(Head(todo)) /\ faults < MaxFaults /\ faults' = faults + 1
    /\ todo' = Tail(todo)
    /\ UNCHANGED <<env, chain, jumps, verb, unit, exit>>

Abort ==
    /\ todo' = <<>> /\ verb' = "none" /\ unit' = "failed" /\ exit' = "fault"
    /\ UNCHANGED <<env, chain, jumps>>

\* A command fails and ends the script.
Refused ==
    /\ todo # <<>> /\ Head(todo).op \notin Ignored
    /\ ~Possible(Head(todo))
    /\ Abort
    /\ UNCHANGED faults

\* The script is killed, or a command that could have succeeded fails.
Fault ==
    /\ verb # "none" /\ faults < MaxFaults
    /\ Abort
    /\ faults' = faults + 1

Next ==
    \/ Start \/ StopUnit \/ Reconfigure \/ Boot
    \/ Succeeds \/ FailsIgnored \/ Refused \/ Fault \/ Finish

Spec == Init /\ [][Next]_vars

----------------------------------------------------------------------------
(* "allows every port/protocol inside configured corporate CIDRs, rejects   *)
(* other WSN forwarding" (src/README.md:244): whenever packets are sent     *)
(* through the chain, also while a script works and after one that was cut  *)
(* short, what the overlay sends is accepted for the destinations of one    *)
(* gateway.env and rejected otherwise.                                      *)
HookedIsConfined ==
    jumps["filter"] > 0 =>
        \E d \in Destinations :
            chain["filter"].rules = <<"replies">> \o d \o <<"reject", "return">>

(* After an `up` that succeeded both chains hold exactly the rules of the   *)
(* gateway.env in force and are jumped to once, whatever earlier runs, and  *)
(* the destinations of an earlier gateway.env, had left behind.             *)
UpIsExact ==
    exit = "up" =>
        /\ chain["filter"].rules = <<"replies">> \o env \o <<"reject", "return">>
        /\ chain["nat"].rules = env \o <<"return">>
        /\ \A t \in Tables : jumps[t] = 1

(* "removes only its own rules": a `down` that succeeded leaves no jump to  *)
(* a WSN chain, and a chain only if a command it ignores had failed.        *)
DownUnhooks ==
    exit = "down" => /\ \A t \in Tables : jumps[t] = 0
                     /\ faults = 0 => \A t \in Tables : chain[t] = NoChain
==============================================================================
