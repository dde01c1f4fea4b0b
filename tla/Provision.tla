----------------------------- MODULE Provision -----------------------------
(***************************************************************************)
(* The administrator's deployment directory and the commands of wsnctl     *)
(* that change it (src/internal/provision/provision.go).  A command checks *)
(* its arguments against state.json and then writes a fixed list of files, *)
(* one after the other; any write may fail and the command may be killed   *)
(* between two writes.  SaveJSON replaces a file atomically; certificates, *)
(* keys and archives are written in place and may be left torn.            *)
(*                                                                         *)
(* A client's key and address are one credential, fresh for every          *)
(* AddClient.  Certificates are numbered by the generation they belong to. *)
(***************************************************************************)
EXTENDS Naturals, Sequences

CONSTANTS
    Ids,          \* client identities
    Addresses,    \* overlay addresses of regular clients
    GatewayAddr,  \* state.Gateway
    Absent, Torn, \* a file that is missing, a file that was cut short
    MaxCreds,     \* bound: clients ever added
    MaxCerts      \* bound: certificate generations

ASSUME GatewayAssumption == GatewayAddr \notin Addresses
ASSUME BoundsAssumption == MaxCreds \in Nat /\ MaxCerts \in Nat \ {0}
ASSUME AbsentAssumption == Absent # Torn /\ Absent \notin Nat

VARIABLES
    state,    \* the clients of state.json, or Absent
    server,   \* server.json: the credential it authorizes for an identity, or Absent
    ca, caKey, leaf, leafKey,  \* relay-ca.crt, relay-ca.key, relay.crt, relay.key
    bundle,   \* the client bundle of an identity: its credential and the CA in it
    sbundle,  \* the server bundle: the server.json in it
    cmd,      \* the running command ("none" between commands) and ...
    who,      \* ... the identity it is about,
    work,     \* its copy of the client list,
    todo,     \* the files it has still to write
    last,     \* history: the last command and how it ended
    creds, certs  \* generations handed out

files == <<state, server, ca, caKey, leaf, leafKey, bundle, sbundle>>
vars == <<state, server, ca, caKey, leaf, leafKey, bundle, sbundle,
          cmd, who, work, todo, last, creds, certs>>

Creds  == 1 .. MaxCreds
Client == [cred : Creds, role : {"client", "gateway"}, addr : Addresses \cup {GatewayAddr}]
Commands == {"init", "add", "enroll", "revoke", "bundle", "serverBundle", "rotate"}
Pem == (1 .. MaxCerts) \cup {Absent, Torn}

\* What a missing file is told by is not something a file can hold.
ASSUME ContentAssumption ==
    /\ Absent \notin Client
    /\ Absent \notin [Ids -> Client \cup {Absent}]
    /\ Absent \notin [Ids -> Creds \cup {Absent}]

(* The type invariant; in particular no archive carries the credential of a *)
(* client that is not in the list.                                          *)
TypeOK ==
    /\ state \in [Ids -> Client \cup {Absent}] \cup {Absent}
    /\ server \in [Ids -> Creds \cup {Absent}] \cup {Absent}
    /\ ca \in Pem /\ caKey \in Pem /\ leaf \in Pem /\ leafKey \in Pem
    /\ bundle \in [Ids -> [cred : Creds, ca : Pem] \cup {Absent, Torn}]
    /\ sbundle \in [Ids -> Creds \cup {Absent}] \cup {Absent, Torn}
    /\ cmd \in Commands \cup {"none", "rollback"}
    /\ who \in Ids \cup {Absent}
    /\ work \in [Ids -> Client \cup {Absent}]
    /\ last.cmd \in Commands \cup {"none", "rollback"}
    /\ last.outcome \in {"ok", "failed", "killed"}
    /\ creds \in 0 .. MaxCreds /\ certs \in 0 .. MaxCerts

NoClients == [i \in Ids |-> Absent]

Init ==
    /\ state = Absent /\ server = Absent
    /\ ca = Absent /\ caKey = Absent /\ leaf = Absent /\ leafKey = Absent
    /\ bundle = [i \in Ids |-> Absent] /\ sbundle = Absent
    /\ cmd = "none" /\ who = Absent /\ work = NoClients /\ todo = <<>>
    /\ last = [cmd |-> "none", who |-> Absent, outcome |-> "ok"]
    /\ creds = 0 /\ certs = 0

----------------------------------------------------------------------------
(***************************************************************************)
(* The commands: their checks, and the files they write, in order.         *)
(***************************************************************************)
Begin(command, id, clients, writes) ==
    /\ cmd = "none"
    /\ cmd' = command /\ who' = id /\ work' = clients /\ todo' = writes
    /\ UNCHANGED <<files, last>>

SaveStateOnly == <<"state.json">>

\* saveState, then writeRelayConfig.
SaveClients == <<"state.json", "server.json">>
LeafPair    == <<"relay.crt", "relay.key">>

\* Init saves the state, creates the CA and the relay's certificate, and
\* writes the relay's configuration.
InitFiles ==
    <<"state.json", "relay-ca.crt", "relay-ca.key", "relay.crt", "relay.key", "server.json">>

\* Enroll adds the client and builds both bundles.
EnrollFiles == <<"state.json", "server.json", "bundle", "serverBundle">>

DeployForced ==
    /\ certs < MaxCerts /\ certs' = certs + 1
    /\ Begin("init", Absent, NoClients, InitFiles)
    /\ UNCHANGED creds

\* provision.Init refuses a directory that has a state.json.
Deploy ==
    /\ state = Absent
    /\ certs < MaxCerts /\ certs' = certs + 1
    /\ Begin("init", Absent, NoClients, InitFiles)
    /\ UNCHANGED creds

AdmitsSharedAddress(id, role, addr) ==
    /\ state # Absent /\ state[id] = Absent
    /\ role = "gateway" <=> addr = GatewayAddr

\* The checks of AddClient against the clients there are: one identity, one
\* address, one gateway, and the gateway's address only for the gateway.
Admits(id, role, addr) ==
    /\ state # Absent /\ state[id] = Absent
    /\ \A i \in Ids : state[i] # Absent =>
          /\ state[i].addr # addr
          /\ ~(role = "gateway" /\ state[i].role = "gateway")
    /\ role = "gateway" <=> addr = GatewayAddr

AddClientPacksEarly(command, id, role, addr) ==
    /\ Admits(id, role, addr)
    /\ creds < MaxCreds /\ creds' = creds + 1
    /\ Begin(command, id,
             [state EXCEPT ![id] = [cred |-> creds + 1, role |-> role, addr |-> addr]],
             IF command = "enroll" THEN <<"state.json", "serverBundle", "server.json", "bundle">>
                                   ELSE SaveClients)
    /\ UNCHANGED certs

\* add-client, and enroll, which goes on to build both bundles.
AddClient(command, id, role, addr) ==
    /\ Admits(id, role, addr)
    /\ creds < MaxCreds /\ creds' = creds + 1
    /\ Begin(command, id,
             [state EXCEPT ![id] = [cred |-> creds + 1, role |-> role, addr |-> addr]],
             IF command = "enroll" THEN EnrollFiles ELSE SaveClients)
    /\ UNCHANGED certs

RevokeClient(id) ==
    /\ state # Absent /\ state[id] # Absent
    /\ Begin("revoke", id, [state EXCEPT ![id] = Absent], SaveClients)
    /\ UNCHANGED <<creds, certs>>

Bundle(id) ==
    /\ state # Absent /\ state[id] # Absent
    /\ Begin("bundle", id, state, <<"bundle">>)
    /\ UNCHANGED <<creds, certs>>

ServerBundle ==
    /\ state # Absent
    /\ Begin("serverBundle", Absent, state, <<"serverBundle">>)
    /\ UNCHANGED <<creds, certs>>

RotateCertificate ==
    /\ state # Absent /\ {ca, caKey} \cap {Absent, Torn} = {}
    /\ certs < MaxCerts /\ certs' = certs + 1
    /\ Begin("rotate", Absent, state, LeafPair)
    /\ UNCHANGED creds

----------------------------------------------------------------------------
(***************************************************************************)
(* Writing the next file.                                                  *)
(***************************************************************************)
CredsOf(clients) ==
    [i \in Ids |-> IF clients[i] = Absent THEN Absent ELSE clients[i].cred]

\* The files after the next one of todo has been written with this content.
Put(pem, archive, serverArchive) ==
    LET f == Head(todo) IN
    /\ state'   = IF f = "state.json" THEN work ELSE state
    /\ server'  = IF f = "server.json" THEN CredsOf(work) ELSE server
    /\ ca'      = IF f = "relay-ca.crt" THEN pem ELSE ca
    /\ caKey'   = IF f = "relay-ca.key" THEN pem ELSE caKey
    /\ leaf'    = IF f = "relay.crt" THEN pem ELSE leaf
    /\ leafKey' = IF f = "relay.key" THEN pem ELSE leafKey
    /\ bundle'  = IF f = "bundle" THEN [bundle EXCEPT ![who] = archive] ELSE bundle
    /\ sbundle' = IF f = "serverBundle" THEN serverArchive ELSE sbundle

\* What a file is made from can be read.
Readable ==
    /\ Head(todo) = "bundle" => ca \notin {Absent, Torn}
    /\ Head(todo) = "serverBundle" => Absent \notin {server, leaf, leafKey}

End(outcome) ==
    /\ cmd' = "none" /\ who' = Absent /\ work' = NoClients /\ todo' = <<>>
    /\ last' = [cmd |-> cmd, who |-> who, outcome |-> outcome]

\* The next file is written; after the last one the command succeeds.
Write ==
    /\ todo # <<>> /\ Readable
    /\ Put(certs,
           [cred |-> IF work[who] = Absent THEN 0 ELSE work[who].cred, ca |-> ca],
           server)
    /\ IF Len(todo) > 1
         THEN todo' = Tail(todo) /\ UNCHANGED <<cmd, who, work, last>>
         ELSE End("ok")
    /\ UNCHANGED <<creds, certs>>

\* A file that could not be written: JSON is as it was before, the others
\* may be torn.
NotWritten ==
    \/ UNCHANGED files
    \/ Head(todo) \notin {"state.json", "server.json"} /\ Put(Torn, Torn, Torn)

WriteFailsNoRollback ==
    /\ todo # <<>> /\ NotWritten
    /\ End("failed")
    /\ UNCHANGED <<creds, certs>>

\* The command reports an error and stops, except that enroll, when the
\* client bundle cannot be built, first revokes the client again.
WriteFails ==
    /\ todo # <<>> /\ NotWritten
    /\ IF cmd = "enroll" /\ Head(todo) = "bundle"
         THEN /\ cmd' = "rollback" /\ todo' = SaveClients
              /\ work' = [work EXCEPT ![who] = Absent]
              /\ UNCHANGED <<who, last>>
         ELSE End("failed")
    /\ UNCHANGED <<creds, certs>>

\* wsnctl is killed or the machine goes down.
Killed ==
    /\ todo # <<>> /\ NotWritten
    /\ End("killed")
    /\ UNCHANGED <<creds, certs>>

----------------------------------------------------------------------------
Next ==
    \/ Deploy
    \/ \E command \in {"add", "enroll"}, id \in Ids, role \in {"client", "gateway"},
          addr \in Addresses \cup {GatewayAddr} : AddClient(command, id, role, addr)
    \/ \E id \in Ids : RevokeClient(id) \/ Bundle(id)
    \/ ServerBundle \/ RotateCertificate
    \/ Write \/ WriteFails \/ Killed

Spec == Init /\ [][Next]_vars

----------------------------------------------------------------------------
(***************************************************************************)
(* Properties.                                                             *)
(***************************************************************************)
Ended(commands, outcome) == cmd = "none" /\ last.cmd \in commands /\ last.outcome = outcome

(* A command that changes the client list and succeeds leaves state.json    *)
(* and server.json in agreement, and so does a completed rollback, whatever *)
(* earlier commands left half-written.                                      *)
ServerFollowsState ==
    Ended({"init", "add", "enroll", "revoke", "rollback"}, "ok") => server = CredsOf(state)

(* After a successful enroll the client list, the relay configuration, the  *)
(* client's bundle and the server bundle all carry the same credential.     *)
EnrolledIsComplete ==
    Ended({"enroll"}, "ok") =>
        LET c == state[last.who].cred IN
        /\ server[last.who] = c /\ bundle[last.who] = [cred |-> c, ca |-> ca]
        /\ sbundle = CredsOf(state)

(* Enroll rolls back "a client whose bundle cannot be built": when it has   *)
(* returned, unless the rollback failed too, a client that both files       *)
(* authorize has a bundle with its credential.                              *)
AuthorizedHasBundle ==
    Ended({"enroll"}, "failed") /\ state[last.who] # Absent =>
        \/ server = Absent \/ server[last.who] # state[last.who].cred
        \/ bundle[last.who] = [cred |-> state[last.who].cred, ca |-> ca]

(* Whatever failures, rollbacks and retries precede it, the client list     *)
(* never has two clients on one address, nor two gateways.                  *)
ClientsDistinct ==
    state # Absent =>
        \A i, j \in Ids :
            /\ i # j /\ state[i] # Absent /\ state[j] # Absent
            => state[i].addr # state[j].addr
                  /\ (state[i].role = "gateway" => state[j].role # "gateway")

(* The CA that a client bundle pins stays the CA of the deployment: no      *)
(* sequence of interrupted and repeated commands replaces it.               *)
BundlesPinTheCA ==
    \A i \in Ids : bundle[i] \notin {Absent, Torn} => bundle[i].ca = ca

(* Enroll: "so the three artefacts can never drift apart".  When enroll has *)
(* returned, with or without an error, the client list, server.json and the *)
(* server bundle agree on the client.                                       *)
EnrollNeverDrifts ==
    \A outcome \in {"ok", "failed"} :
        Ended({"enroll", "rollback"}, outcome) =>
            LET enrolled == state[last.who] # Absent IN
            /\ enrolled <=> server # Absent /\ server[last.who] # Absent
            /\ enrolled <=> sbundle \notin {Absent, Torn}
                               /\ sbundle[last.who] # Absent
============================================================================
