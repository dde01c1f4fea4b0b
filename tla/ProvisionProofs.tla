-------------------------- MODULE ProvisionProofs --------------------------
(***************************************************************************)
(* Proofs about Provision, for any set of identities and addresses and any *)
(* number of commands: what the files of a deployment have to do with each *)
(* other when a command has ended, whatever earlier ones left half-written.*)
(***************************************************************************)
EXTENDS MCProvision, SequenceTheorems, PowersProofs

(***************************************************************************)
(* What a command has still to write.                                      *)
(***************************************************************************)
FileNames == {"state.json", "server.json", "relay-ca.crt", "relay-ca.key",
              "relay.crt", "relay.key", "bundle", "serverBundle"}

Program(c) ==
    CASE c = "init"         -> InitFiles
      [] c = "enroll"       -> EnrollFiles
      [] c = "bundle"       -> <<"bundle">>
      [] c = "serverBundle" -> <<"serverBundle">>
      [] c = "rotate"       -> LeafPair
      [] OTHER              -> SaveClients

\* The end of the program is left; its length says where the command stands.
OnProgram ==
    /\ todo \in Seq(FileNames)
    /\ todo = <<>> <=> cmd = "none"
    /\ cmd # "none" =>
          /\ Len(todo) <= Len(Program(cmd))
          /\ \A i \in 1 .. Len(todo) :
                todo[i] = Program(cmd)[Len(Program(cmd)) - Len(todo) + i]

(* A program is a list of files.                                            *)
LEMMA ProgramTyped ==
    ASSUME NEW c
    PROVE  /\ Program(c) \in Seq(FileNames) /\ Program(c) # <<>>
           /\ Len(Program(c)) \in Nat \ {0}
  <1>1. /\ InitFiles \in Seq(FileNames) /\ InitFiles # <<>>
        /\ EnrollFiles \in Seq(FileNames) /\ EnrollFiles # <<>>
    BY DEF FileNames, InitFiles, EnrollFiles
  <1>2. /\ <<"bundle">> \in Seq(FileNames) /\ <<"bundle">> # <<>>
        /\ <<"serverBundle">> \in Seq(FileNames) /\ <<"serverBundle">> # <<>>
    BY DEF FileNames
  <1>3. /\ LeafPair \in Seq(FileNames) /\ LeafPair # <<>>
        /\ SaveClients \in Seq(FileNames) /\ SaveClients # <<>>
    BY DEF FileNames, LeafPair, SaveClients
  <1>4. Program(c) \in Seq(FileNames) /\ Program(c) # <<>>
    BY <1>1, <1>2, <1>3, Zenon DEF Program
  <1> QED
    BY <1>4

(* A command that begins has its whole program before it.                   *)
LEMMA ProgramBegins ==
    ASSUME NEW c \in Commands \cup {"rollback"}, cmd' = c, todo' = Program(c)
    PROVE  OnProgram'
  BY ProgramTyped DEF OnProgram, Commands

(* A write leaves the rest of the program.                                  *)
LEMMA ProgramGoesOn ==
    ASSUME OnProgram, Len(todo) > 1, cmd' = cmd, todo' = Tail(todo)
    PROVE  OnProgram'
  <1>1. todo \in Seq(FileNames) /\ cmd # "none" /\ Len(todo) \in Nat
    BY DEF OnProgram
  <1>2. /\ Tail(todo) \in Seq(FileNames) /\ Len(Tail(todo)) = Len(todo) - 1
        /\ \A i \in 1 .. Len(todo) - 1 : Tail(todo)[i] = todo[i + 1]
    BY <1>1
  <1>3. Program(cmd) \in Seq(FileNames) /\ Len(Program(cmd)) \in Nat
    BY ProgramTyped
  <1>4. ASSUME NEW i \in 1 .. Len(todo) - 1
        PROVE  Tail(todo)[i] = Program(cmd)[Len(Program(cmd)) - (Len(todo) - 1) + i]
    <2>1. todo[i + 1] = Program(cmd)[Len(Program(cmd)) - Len(todo) + (i + 1)]
      BY <1>1 DEF OnProgram
    <2> QED
      BY <2>1, <1>1, <1>2, <1>3
  <1>5. Tail(todo) # <<>>
    <2> DEFINE rest == Tail(todo)
    <2>1. rest \in Seq(FileNames) /\ Len(rest) > 0
      BY <1>1, <1>2
    <2> HIDE DEF rest
    <2>2. rest # <<>>
      BY <2>1
    <2> QED
      BY <2>2 DEF rest
  <1>6. Len(Tail(todo)) <= Len(Program(cmd))
    <2>1. Len(todo) <= Len(Program(cmd))
      BY <1>1 DEF OnProgram
    <2> QED
      BY <2>1, <1>1, <1>2, <1>3
  <1> QED
    BY <1>1, <1>2, <1>4, <1>5, <1>6, Zenon DEF OnProgram

(* The file to be written next.                                             *)
LEMMA NextFile ==
    ASSUME OnProgram, cmd \in Commands \cup {"rollback"}
    PROVE  /\ todo # <<>> /\ Len(todo) \in Nat \ {0}
           /\ cmd = "init" =>
                /\ Len(todo) <= 6
                /\ Head(todo) = InitFiles[7 - Len(todo)]
           /\ cmd = "enroll" =>
                /\ Len(todo) <= 4
                /\ Head(todo) = EnrollFiles[5 - Len(todo)]
           /\ cmd \in {"add", "revoke", "rollback"} =>
                /\ Len(todo) <= 2
                /\ Head(todo) = SaveClients[3 - Len(todo)]
           /\ cmd = "bundle" => Len(todo) = 1 /\ Head(todo) = "bundle"
           /\ cmd = "serverBundle" => Len(todo) = 1 /\ Head(todo) = "serverBundle"
           /\ cmd = "rotate" => Len(todo) <= 2 /\ Head(todo) = LeafPair[3 - Len(todo)]
  <1>1. /\ todo \in Seq(FileNames) /\ todo # <<>> /\ cmd # "none"
        /\ Len(todo) \in Nat \ {0} /\ Head(todo) = todo[1]
    BY DEF OnProgram, Commands
  <1>2. /\ Len(todo) <= Len(Program(cmd))
        /\ Head(todo) = Program(cmd)[Len(Program(cmd)) - Len(todo) + 1]
    BY <1>1 DEF OnProgram
  <1>3. CASE cmd = "init"
    BY <1>1, <1>2, <1>3 DEF Program, InitFiles
  <1>4. CASE cmd = "enroll"
    BY <1>1, <1>2, <1>4 DEF Program, EnrollFiles
  <1>5. CASE cmd \in {"add", "revoke", "rollback"}
    BY <1>1, <1>2, <1>5 DEF Program, SaveClients
  <1>6. CASE cmd \in {"bundle", "serverBundle"}
    BY <1>1, <1>2, <1>6 DEF Program
  <1>7. CASE cmd = "rotate"
    BY <1>1, <1>2, <1>7 DEF Program, LeafPair
  <1> QED
    BY <1>1, <1>3, <1>4, <1>5, <1>6, <1>7 DEF Commands

(* Where a file stands in the programs: which commands write it, what is    *)
(* the last one, and what enroll writes after it.                           *)
LEMMA Heads ==
    ASSUME OnProgram, cmd \in Commands \cup {"rollback"}
    PROVE  /\ Head(todo) \in {"relay-ca.crt", "relay-ca.key"} => cmd = "init"
           /\ Head(todo) \in {"relay.crt", "relay.key"} => cmd \in {"init", "rotate"}
           /\ Head(todo) = "bundle" => cmd \in {"enroll", "bundle"}
           /\ Len(todo) = 1 /\ cmd \in {"init", "add", "revoke", "rollback"}
                => Head(todo) = "server.json"
           /\ Len(todo) = 1 /\ cmd = "enroll" => Head(todo) = "serverBundle"
  <1> DEFINE n == Len(todo)
             f == Head(todo)
  <1>0. n \in Nat \ {0}
    BY NextFile
  <1>1. cmd = "init" => n <= 6 /\ f = InitFiles[7 - n]
    BY NextFile
  <1>2. cmd = "enroll" => n <= 4 /\ f = EnrollFiles[5 - n]
    BY NextFile
  <1>3. cmd \in {"add", "revoke", "rollback"} => n <= 2 /\ f = SaveClients[3 - n]
    BY NextFile
  <1>4. (cmd = "bundle" => f = "bundle") /\ (cmd = "serverBundle" => f = "serverBundle")
    BY NextFile
  <1>5. cmd = "rotate" => n <= 2 /\ f = LeafPair[3 - n]
    BY NextFile
  <1> HIDE DEF n, f
  <1>6. CASE cmd = "init"
    <2>1. /\ f \in {"state.json", "relay-ca.crt", "relay-ca.key", "relay.crt", "relay.key",
                    "server.json"}
          /\ n = 1 => f = "server.json"
      BY <1>0, <1>1, <1>6 DEF InitFiles
    <2> QED
      BY <1>6, <2>1 DEF n, f
  <1>7. CASE cmd = "enroll"
    <2>1. /\ f \in {"state.json", "server.json", "bundle", "serverBundle"}
          /\ n = 1 => f = "serverBundle"
      BY <1>0, <1>2, <1>7 DEF EnrollFiles
    <2> QED
      BY <1>7, <2>1 DEF n, f
  <1>8. CASE cmd \in {"add", "revoke", "rollback"}
    <2>1. f \in {"state.json", "server.json"} /\ (n = 1 => f = "server.json")
      BY <1>0, <1>3, <1>8 DEF SaveClients
    <2> QED
      BY <1>8, <2>1 DEF n, f
  <1>9. CASE cmd \in {"bundle", "serverBundle"}
    BY <1>4, <1>9 DEF n, f
  <1>10. CASE cmd = "rotate"
    <2>1. f \in {"relay.crt", "relay.key"}
      BY <1>0, <1>5, <1>10 DEF LeafPair
    <2> QED
      BY <1>10, <2>1 DEF n, f
  <1> QED
    BY <1>6, <1>7, <1>8, <1>9, <1>10 DEF Commands

(* The file after the next one is never state.json, and enroll writes its   *)
(* files in their order.                                                    *)
LEMMA SecondFile ==
    ASSUME OnProgram, cmd \in Commands \cup {"rollback"}, Len(todo) > 1
    PROVE  /\ Head(Tail(todo)) # "state.json"
           /\ cmd = "enroll" =>
                \/ Head(todo) = "state.json" /\ Head(Tail(todo)) = "server.json"
                \/ Head(todo) = "server.json" /\ Head(Tail(todo)) = "bundle"
                \/ Head(todo) = "bundle" /\ Head(Tail(todo)) = "serverBundle"
  <1>1. todo \in Seq(FileNames) /\ Len(todo) \in Nat /\ cmd # "none"
    BY DEF OnProgram
  <1>2. Head(Tail(todo)) = todo[2] /\ Head(todo) = todo[1]
    BY <1>1
  <1>3. /\ Len(todo) <= Len(Program(cmd))
        /\ todo[1] = Program(cmd)[Len(Program(cmd)) - Len(todo) + 1]
        /\ todo[2] = Program(cmd)[Len(Program(cmd)) - Len(todo) + 2]
    BY <1>1 DEF OnProgram
  <1>4. CASE cmd = "init"
    <2>1. Program(cmd) = InitFiles
      BY <1>4 DEF Program
    <2> QED
      BY <1>1, <1>2, <1>3, <1>4, <2>1 DEF InitFiles
  <1>5. CASE cmd = "enroll"
    <2>1. Program(cmd) = EnrollFiles
      BY <1>5 DEF Program
    <2> QED
      BY <1>1, <1>2, <1>3, <1>5, <2>1 DEF EnrollFiles
  <1>6. CASE cmd \in {"add", "revoke", "rollback"}
    <2>1. Program(cmd) = SaveClients
      BY <1>6 DEF Program
    <2> QED
      BY <1>1, <1>2, <1>3, <1>6, <2>1 DEF SaveClients
  <1>7. CASE cmd \in {"bundle", "serverBundle"}
    <2>1. Len(Program(cmd)) = 1
      BY <1>7 DEF Program
    <2> QED
      BY <1>1, <1>3, <2>1
  <1>8. CASE cmd = "rotate"
    <2>1. Program(cmd) = LeafPair
      BY <1>8 DEF Program
    <2> QED
      BY <1>1, <1>2, <1>3, <1>8, <2>1 DEF LeafPair
  <1> QED
    BY <1>4, <1>5, <1>6, <1>7, <1>8 DEF Commands

----------------------------------------------------------------------------
(***************************************************************************)
(* The inductive invariant: what a command has achieved so far.            *)
(***************************************************************************)
\* After state.json, the command's copy of the client list is the saved one.
Saved == cmd # "none" /\ Head(todo) # "state.json" => state = work

\* What a command is about.
AboutClient ==
    /\ cmd \in {"add", "enroll", "revoke", "bundle", "rollback"} => who \in Ids
    /\ cmd \in {"enroll", "bundle"} => work[who] # Absent

\* Enroll: the client is new, then in the list, in server.json, in a bundle.
EnrollProgress ==
    cmd = "enroll" =>
        /\ Head(todo) = "state.json" => state # Absent /\ state[who] = Absent
        /\ Head(todo) \in {"state.json", "server.json"} =>
              server = Absent \/ server[who] # work[who].cred
        /\ Head(todo) \in {"bundle", "serverBundle"} => server = CredsOf(work)
        /\ Head(todo) = "serverBundle" =>
              bundle[who] = [cred |-> work[who].cred, ca |-> ca]

\* No credential from the future.
Known(listed) == \A i \in Ids : listed[i] # Absent => listed[i].cred <= creds
CredsKnown ==
    /\ Known(work)
    /\ state # Absent => Known(state)
    /\ server # Absent => \A i \in Ids : server[i] # Absent => server[i] <= creds

\* The CA is written before anything can pin it.
NothingPinnedYet ==
    /\ cmd \in {"init", "rotate"} => certs >= 1
    /\ state = Absent \/ cmd = "init" => \A i \in Ids : bundle[i] = Absent

Distinct(listed) ==
    \A i, j \in Ids :
        i # j /\ listed[i] # Absent /\ listed[j] # Absent
        => listed[i].addr # listed[j].addr
              /\ (listed[i].role = "gateway" => listed[j].role # "gateway")

IInv ==
    /\ TypeOK /\ OnProgram /\ Saved /\ AboutClient /\ EnrollProgress
    /\ CredsKnown /\ NothingPinnedYet
    /\ Distinct(work) /\ ClientsDistinct
    /\ ServerFollowsState /\ EnrolledIsComplete /\ AuthorizedHasBundle /\ BundlesPinTheCA

(* Everything is absent at the start.                                       *)
LEMMA InitIInv == Init => IInv
  <1> SUFFICES ASSUME Init PROVE IInv
    OBVIOUS
  <1> USE DEF Init
  <1>1. TypeOK
    BY BoundsAssumption DEF TypeOK, Pem, NoClients, Commands
  <1>2. OnProgram
    BY DEF OnProgram
  <1>3. Saved /\ AboutClient /\ EnrollProgress
    BY DEF Saved, AboutClient, EnrollProgress
  <1>4. CredsKnown /\ NothingPinnedYet /\ Distinct(work) /\ ClientsDistinct
    BY DEF CredsKnown, Known, NothingPinnedYet, Distinct, ClientsDistinct, NoClients
  <1>5. ServerFollowsState /\ EnrolledIsComplete /\ AuthorizedHasBundle /\ BundlesPinTheCA
    BY DEF ServerFollowsState, EnrolledIsComplete, AuthorizedHasBundle, BundlesPinTheCA, Ended
  <1> QED
    BY <1>1, <1>2, <1>3, <1>4, <1>5 DEF IInv

(* What a command must have checked before it begins, for the invariant to  *)
(* hold afterwards.                                                         *)
LEMMA BeginIInv ==
    ASSUME IInv,
           NEW command \in Commands, NEW id \in Ids \cup {Absent},
           NEW listed \in [Ids -> Client \cup {Absent}],
           Begin(command, id, listed, Program(command)),
           Distinct(listed),
           \A i \in Ids : listed[i] # Absent => listed[i].cred <= creds',
           creds' \in creds .. MaxCreds, certs' \in certs .. MaxCerts,
           command \in {"init", "rotate"} => certs' >= 1,
           command \in {"bundle", "serverBundle", "rotate"} => state = listed,
           command = "init" => state = Absent,
           command \in {"add", "enroll", "revoke", "bundle"} => id \in Ids,
           command \in {"enroll", "bundle"} => listed[id] # Absent,
           command = "enroll" =>
              /\ state # Absent /\ state[id] = Absent
              /\ server = Absent \/ server[id] # listed[id].cred
    PROVE  IInv'
  <1>1. /\ cmd = "none" /\ cmd' = command /\ who' = id /\ work' = listed
        /\ todo' = Program(command) /\ last' = last
        /\ state' = state /\ server' = server /\ ca' = ca /\ caKey' = caKey
        /\ leaf' = leaf /\ leafKey' = leafKey /\ bundle' = bundle /\ sbundle' = sbundle
    BY DEF Begin, files
  <1>2. command # "none"
    BY DEF Commands
  <1>3. creds \in Nat /\ certs \in Nat
    BY DEF IInv, TypeOK
  <1>4. TypeOK'
    BY <1>1, <1>3, BoundsAssumption DEF IInv, TypeOK
  <1>5. OnProgram'
    BY <1>1, ProgramBegins
  <1>6. /\ command \in {"init", "add", "enroll", "revoke"} => Head(todo') = "state.json"
    <2>1. CASE command = "init"
      BY <1>1, <2>1 DEF Program, InitFiles
    <2>2. CASE command = "enroll"
      BY <1>1, <2>2 DEF Program, EnrollFiles
    <2>3. CASE command \in {"add", "revoke"}
      BY <1>1, <2>3 DEF Program, SaveClients
    <2> QED
      BY <2>1, <2>2, <2>3
  <1>7. Saved'
    BY <1>1, <1>6 DEF Saved, Commands
  <1>8. AboutClient' /\ EnrollProgress'
    BY <1>1, <1>6 DEF AboutClient, EnrollProgress, Commands
  <1>9. CredsKnown'
    BY <1>1, <1>3 DEF IInv, TypeOK, CredsKnown, Known, Client, Creds
  <1>10. NothingPinnedYet'
    BY <1>1, <1>3 DEF IInv, NothingPinnedYet
  <1>11. Distinct(work)' /\ ClientsDistinct'
    BY <1>1 DEF IInv, Distinct, ClientsDistinct
  <1>12. ServerFollowsState' /\ EnrolledIsComplete' /\ AuthorizedHasBundle'
    BY <1>1, <1>2 DEF ServerFollowsState, EnrolledIsComplete, AuthorizedHasBundle, Ended
  <1>13. BundlesPinTheCA'
    BY <1>1 DEF IInv, BundlesPinTheCA
  <1> QED
    BY <1>4, <1>5, <1>7, <1>8, <1>9, <1>10, <1>11, <1>12, <1>13 DEF IInv

\* A command begins.
CommandBegins ==
    \/ Deploy
    \/ \E command \in {"add", "enroll"}, id \in Ids, role \in {"client", "gateway"},
          addr \in Addresses \cup {GatewayAddr} : AddClient(command, id, role, addr)
    \/ \E id \in Ids : RevokeClient(id) \/ Bundle(id)
    \/ ServerBundle \/ RotateCertificate

(* The commands check what BeginIInv asks for.                              *)
LEMMA CommandsIInv ==
    ASSUME IInv, CommandBegins
    PROVE  IInv'
  <1>1. /\ TypeOK /\ creds \in 0 .. MaxCreds /\ certs \in 0 .. MaxCerts
        /\ MaxCreds \in Nat /\ MaxCerts \in Nat
        /\ creds \in creds .. MaxCreds /\ certs \in certs .. MaxCerts
    BY BoundsAssumption DEF IInv, TypeOK
  <1>2. state # Absent =>
           /\ state \in [Ids -> Client \cup {Absent}]
           /\ Distinct(state)
           /\ \A i \in Ids : state[i] # Absent => state[i].cred <= creds
    BY DEF IInv, TypeOK, ClientsDistinct, Distinct, CredsKnown, Known
  <1>3. ASSUME Deploy PROVE IInv'
    <2>1. certs' = certs + 1 /\ certs' \in certs .. MaxCerts /\ creds' = creds /\ certs' >= 1
      BY <1>1, <1>3 DEF Deploy
    <2>2. Begin("init", Absent, NoClients, Program("init"))
      BY <1>3 DEF Deploy, Program
    <2>3. /\ NoClients \in [Ids -> Client \cup {Absent}] /\ Distinct(NoClients)
          /\ \A i \in Ids : NoClients[i] # Absent => NoClients[i].cred <= creds'
      BY DEF NoClients, Distinct
    <2>4. state = Absent /\ "init" \in Commands
      BY <1>3 DEF Deploy, Commands
    <2> QED
      BY <1>1, <2>1, <2>2, <2>3, <2>4, BeginIInv
  <1>4. ASSUME NEW command \in {"add", "enroll"}, NEW id \in Ids,
               NEW role \in {"client", "gateway"},
               NEW addr \in Addresses \cup {GatewayAddr}, AddClient(command, id, role, addr)
        PROVE  IInv'
    <2> DEFINE new == [cred |-> creds + 1, role |-> role, addr |-> addr]
               listed == [state EXCEPT ![id] = new]
    <2>1. /\ creds' = creds + 1 /\ creds' \in creds .. MaxCreds /\ certs' = certs
          /\ creds + 1 \in Creds
      BY <1>1, <1>4 DEF AddClient, Creds
    <2>2. Begin(command, id, listed, Program(command))
      BY <1>4 DEF AddClient, Program
    <2>3. state # Absent /\ state[id] = Absent
      BY <1>4 DEF AddClient, Admits
    <2>4. new \in Client /\ new # Absent
      BY <2>1, ContentAssumption DEF Client
    <2>5. /\ listed \in [Ids -> Client \cup {Absent}] /\ listed[id] = new
          /\ \A i \in Ids : i # id => listed[i] = state[i]
      BY <1>2, <2>3, <2>4
    <2>6. /\ \A i \in Ids : state[i] # Absent =>
                state[i].addr # addr /\ ~(role = "gateway" /\ state[i].role = "gateway")
          /\ new.cred = creds + 1 /\ new.role = role /\ new.addr = addr
      BY <1>4 DEF AddClient, Admits
    <2>7. server = Absent \/ server[id] # new.cred
      <3>1. server # Absent => server[id] \in Creds \cup {Absent}
                                  /\ (server[id] # Absent => server[id] <= creds)
        BY DEF IInv, TypeOK, CredsKnown
      <3> QED
        BY <1>1, <2>1, <2>6, <3>1, AbsentAssumption DEF Creds
    <2>8. command \in Commands
      BY DEF Commands
    <2> HIDE DEF new, listed
    <2>9. Distinct(listed)
      BY <1>2, <2>3, <2>5, <2>6 DEF Distinct
    <2>10. ASSUME NEW i \in Ids, listed[i] # Absent
           PROVE  listed[i].cred <= creds'
      <3>1. CASE i = id
        BY <1>1, <2>1, <2>5, <2>6, <3>1
      <3>2. CASE i # id
        <4>1. state[i] \in Client /\ state[i].cred \in Creds /\ state[i].cred <= creds
          BY <1>2, <2>3, <2>5, <2>10, <3>2 DEF Client
        <4> QED
          BY <1>1, <2>1, <2>5, <3>2, <4>1 DEF Creds
      <3> QED
        BY <3>1, <3>2
    <2> QED
      BY <1>1, <2>1, <2>2, <2>3, <2>4, <2>5, <2>7, <2>8, <2>9, <2>10, BeginIInv
  <1>5. ASSUME NEW id \in Ids, RevokeClient(id) PROVE IInv'
    <2> DEFINE listed == [state EXCEPT ![id] = Absent]
    <2>1. /\ state # Absent /\ creds' = creds /\ certs' = certs
          /\ Begin("revoke", id, listed, Program("revoke"))
      BY <1>5 DEF RevokeClient, Program
    <2>2. /\ listed \in [Ids -> Client \cup {Absent}] /\ listed[id] = Absent
          /\ \A i \in Ids : i # id => listed[i] = state[i]
      BY <1>2, <2>1
    <2> HIDE DEF listed
    <2>3. Distinct(listed) /\ \A i \in Ids : listed[i] # Absent => listed[i].cred <= creds'
      BY <1>2, <2>1, <2>2 DEF Distinct
    <2>4. "revoke" \in Commands
      BY DEF Commands
    <2> QED
      BY <1>1, <2>1, <2>2, <2>3, <2>4, BeginIInv
  <1>6. ASSUME NEW id \in Ids, Bundle(id) PROVE IInv'
    <2>1. /\ state # Absent /\ state[id] # Absent /\ creds' = creds /\ certs' = certs
          /\ Begin("bundle", id, state, Program("bundle")) /\ "bundle" \in Commands
      BY <1>6 DEF Bundle, Program, Commands
    <2> QED
      BY <1>1, <1>2, <2>1, BeginIInv
  <1>7. ASSUME ServerBundle PROVE IInv'
    <2>1. /\ state # Absent /\ creds' = creds /\ certs' = certs
          /\ Begin("serverBundle", Absent, state, Program("serverBundle"))
          /\ "serverBundle" \in Commands
      BY <1>7 DEF ServerBundle, Program, Commands
    <2> QED
      BY <1>1, <1>2, <2>1, BeginIInv
  <1>8. ASSUME RotateCertificate PROVE IInv'
    <2>1. /\ state # Absent /\ creds' = creds /\ certs' = certs + 1
          /\ certs' \in certs .. MaxCerts /\ certs' >= 1
          /\ Begin("rotate", Absent, state, Program("rotate")) /\ "rotate" \in Commands
      BY <1>1, <1>8 DEF RotateCertificate, Program, Commands
    <2> QED
      BY <1>1, <1>2, <2>1, BeginIInv
  <1> QED
    BY <1>3, <1>4, <1>5, <1>6, <1>7, <1>8 DEF CommandBegins

(* The next file is written.                                                *)
LEMMA WriteIInv ==
    ASSUME IInv, Write
    PROVE  IInv'
  <1> DEFINE f == Head(todo)
             archive == [cred |-> IF work[who] = Absent THEN 0 ELSE work[who].cred, ca |-> ca]
  <1>1. /\ TypeOK /\ OnProgram /\ todo # <<>> /\ cmd # "none"
        /\ cmd \in Commands \cup {"rollback"}
        /\ (Len(todo) = 1) = ~(Len(todo) > 1)
    <2>1. todo # <<>> /\ TypeOK /\ OnProgram
      BY DEF IInv, Write
    <2>2. cmd \in Commands \cup {"rollback"}
      BY <2>1 DEF OnProgram, TypeOK
    <2> DEFINE n == Len(todo)
    <2>3. n \in Nat \ {0}
      BY <2>1, <2>2, NextFile
    <2> HIDE DEF n
    <2>4. (n = 1) = ~(n > 1)
      BY <2>3
    <2> QED
      BY <2>1, <2>2, <2>4 DEF OnProgram, n
  <1>2. /\ Readable /\ Put(certs, archive, server) /\ creds' = creds /\ certs' = certs
    BY DEF Write
  <1>3. /\ state'   = IF f = "state.json" THEN work ELSE state
        /\ server'  = IF f = "server.json" THEN CredsOf(work) ELSE server
        /\ ca'      = IF f = "relay-ca.crt" THEN certs ELSE ca
        /\ caKey'   = IF f = "relay-ca.key" THEN certs ELSE caKey
        /\ leaf'    = IF f = "relay.crt" THEN certs ELSE leaf
        /\ leafKey' = IF f = "relay.key" THEN certs ELSE leafKey
        /\ bundle'  = IF f = "bundle" THEN [bundle EXCEPT ![who] = archive] ELSE bundle
        /\ sbundle' = IF f = "serverBundle" THEN server ELSE sbundle
    BY <1>2 DEF Put
  <1>4. \/ Len(todo) > 1 /\ todo' = Tail(todo) /\ cmd' = cmd /\ who' = who /\ work' = work
              /\ last' = last
        \/ Len(todo) = 1 /\ End("ok")
    BY <1>1, Zenon DEF Write
  <1>5. /\ f \in {"relay-ca.crt", "relay-ca.key"} => cmd = "init"
        /\ f \in {"relay.crt", "relay.key"} => cmd \in {"init", "rotate"}
        /\ f = "bundle" => cmd \in {"enroll", "bundle"}
        /\ Len(todo) = 1 /\ cmd \in {"init", "add", "revoke", "rollback"} => f = "server.json"
        /\ Len(todo) = 1 /\ cmd = "enroll" => f = "serverBundle"
    BY <1>1, Heads
  <1>6. f = "bundle" => /\ who \in Ids /\ work[who] \in Client /\ work[who] # Absent
                        /\ archive = [cred |-> work[who].cred, ca |-> ca]
                        /\ archive \in [cred : Creds, ca : Pem]
                        /\ ca \notin {Absent, Torn}
    <2> SUFFICES ASSUME f = "bundle"
                 PROVE  /\ who \in Ids /\ work[who] \in Client /\ work[who] # Absent
                        /\ archive = [cred |-> work[who].cred, ca |-> ca]
                        /\ archive \in [cred : Creds, ca : Pem]
                        /\ ca \notin {Absent, Torn}
      OBVIOUS
    <2>1. who \in Ids /\ work[who] # Absent /\ work \in [Ids -> Client \cup {Absent}] /\ ca \in Pem
      BY <1>1, <1>5 DEF IInv, AboutClient, TypeOK
    <2>2. work[who] \in Client /\ work[who].cred \in Creds
      BY <2>1 DEF Client
    <2> QED
      BY <1>2, <2>1, <2>2 DEF Readable
  <1> HIDE DEF f, archive
  <1>7. CredsOf(work) \in [Ids -> Creds \cup {Absent}]
    BY <1>1 DEF TypeOK, CredsOf, Client
  <1>8. f \in {"relay-ca.crt", "relay-ca.key", "relay.crt", "relay.key"} => certs \in 1 .. MaxCerts
    BY <1>1, <1>5, BoundsAssumption DEF IInv, NothingPinnedYet, TypeOK
  <1>9. TypeOK'
    <2>1. state' \in [Ids -> Client \cup {Absent}] \cup {Absent}
      BY <1>1, <1>3 DEF TypeOK
    <2>2. server' \in [Ids -> Creds \cup {Absent}] \cup {Absent}
      BY <1>1, <1>3, <1>7 DEF TypeOK
    <2>3. ca' \in Pem /\ caKey' \in Pem /\ leaf' \in Pem /\ leafKey' \in Pem
      BY <1>1, <1>3, <1>8 DEF TypeOK, Pem
    <2>4. bundle' \in [Ids -> [cred : Creds, ca : Pem] \cup {Absent, Torn}]
      BY <1>1, <1>3, <1>6 DEF TypeOK
    <2>5. sbundle' \in [Ids -> Creds \cup {Absent}] \cup {Absent, Torn}
      BY <1>1, <1>3 DEF TypeOK
    <2>6. /\ cmd' \in Commands \cup {"none", "rollback"} /\ who' \in Ids \cup {Absent}
          /\ work' \in [Ids -> Client \cup {Absent}]
          /\ last'.cmd \in Commands \cup {"none", "rollback"}
          /\ last'.outcome \in {"ok", "failed", "killed"}
      BY <1>1, <1>4 DEF TypeOK, End, NoClients
    <2> QED
      BY <1>1, <1>2, <2>1, <2>2, <2>3, <2>4, <2>5, <2>6 DEF TypeOK
  <1>10. OnProgram'
    <2>1. CASE Len(todo) > 1
      <3>1. cmd' = cmd /\ todo' = Tail(todo)
        BY <1>1, <1>4, <2>1, Zenon
      <3> QED
        BY <1>1, <2>1, <3>1, ProgramGoesOn
    <2>2. CASE Len(todo) = 1
      BY <1>4, <2>2 DEF End, OnProgram
    <2> QED
      BY <1>1, <2>1, <2>2, Zenon
  <1>11. CredsKnown'
    <2>1. Known(work) /\ work \in [Ids -> Client \cup {Absent}] /\ (state # Absent => Known(state))
      BY <1>1 DEF IInv, CredsKnown, TypeOK
    <2>2. Known(work)' /\ (state' # Absent => Known(state)')
      BY <1>2, <1>3, <1>4, <2>1 DEF Known, End, NoClients
    <2>3. \A i \in Ids : CredsOf(work)[i] # Absent => CredsOf(work)[i] <= creds
      BY <2>1 DEF Known, CredsOf
    <2>4. server' # Absent => \A i \in Ids : server'[i] # Absent => server'[i] <= creds
      BY <1>3, <2>3 DEF IInv, CredsKnown
    <2> QED
      BY <1>2, <2>2, <2>4 DEF CredsKnown
  <1>12. f = "bundle" \/ f = "serverBundle" \/ (f \notin {"state.json"}) => state = work
    BY <1>1 DEF IInv, Saved, f
  <1>13. NothingPinnedYet'
    <2>1. work # Absent
      BY <1>1, ContentAssumption DEF TypeOK
    <2> QED
      BY <1>2, <1>3, <1>4, <1>5, <1>12, <2>1 DEF IInv, NothingPinnedYet, End
  <1>14. Distinct(work)' /\ ClientsDistinct'
    BY <1>3, <1>4 DEF IInv, Distinct, ClientsDistinct, End, NoClients
  <1>15. BundlesPinTheCA'
    <2> SUFFICES ASSUME NEW i \in Ids, bundle'[i] \notin {Absent, Torn}
                 PROVE  bundle'[i].ca = ca'
      BY DEF BundlesPinTheCA
    <2>1. CASE f = "bundle"
      <3>1. ca' = ca /\ bundle' = [bundle EXCEPT ![who] = archive] /\ archive.ca = ca
        BY <1>3, <1>6, <2>1
      <3>2. bundle \in [Ids -> [cred : Creds, ca : Pem] \cup {Absent, Torn}]
        BY <1>1 DEF TypeOK
      <3>3. i # who => bundle'[i] = bundle[i]
        BY <3>1, <3>2
      <3>4. i = who => bundle'[i] = archive
        BY <3>1, <3>2
      <3> QED
        BY <3>1, <3>3, <3>4 DEF IInv, BundlesPinTheCA
    <2>2. CASE f = "relay-ca.crt"
      BY <1>3, <1>5, <2>2 DEF IInv, NothingPinnedYet
    <2>3. CASE f \notin {"bundle", "relay-ca.crt"}
      BY <1>3, <2>3 DEF IInv, BundlesPinTheCA
    <2> QED
      BY <2>1, <2>2, <2>3
  <1>16. CASE Len(todo) > 1
    <2>1. /\ todo' = Tail(todo) /\ cmd' = cmd /\ who' = who /\ work' = work /\ last' = last
      BY <1>1, <1>4, <1>16, Zenon
    <2>2. /\ Head(todo') # "state.json"
          /\ cmd = "enroll" =>
               \/ f = "state.json" /\ Head(todo') = "server.json"
               \/ f = "server.json" /\ Head(todo') = "bundle"
               \/ f = "bundle" /\ Head(todo') = "serverBundle"
      BY <1>1, <1>16, <2>1, SecondFile DEF f
    <2>3. Saved'
      BY <1>3, <1>12, <2>1 DEF Saved
    <2>4. AboutClient'
      BY <2>1 DEF IInv, AboutClient
    <2>5. EnrollProgress'
      <3> SUFFICES ASSUME cmd = "enroll" PROVE EnrollProgress'
        BY <2>1 DEF EnrollProgress
      <3>1. CASE f = "state.json"
        BY <1>3, <2>1, <2>2, <3>1 DEF IInv, EnrollProgress, f
      <3>2. CASE f = "server.json"
        BY <1>3, <2>1, <2>2, <3>2 DEF IInv, EnrollProgress, f, CredsOf
      <3>3. CASE f = "bundle"
        <4>1. bundle'[who] = [cred |-> work[who].cred, ca |-> ca] /\ ca' = ca /\ server' = server
          BY <1>1, <1>3, <1>6, <3>3 DEF TypeOK
        <4>2. server = CredsOf(work)
          BY <3>3 DEF IInv, EnrollProgress, f
        <4> QED
          BY <2>1, <2>2, <3>3, <4>1, <4>2 DEF EnrollProgress, CredsOf
      <3> QED
        BY <2>2, <3>1, <3>2, <3>3
    <2>6. ServerFollowsState' /\ EnrolledIsComplete' /\ AuthorizedHasBundle'
      BY <1>1, <2>1 DEF ServerFollowsState, EnrolledIsComplete, AuthorizedHasBundle, Ended
    <2> QED
      BY <1>9, <1>10, <1>11, <1>13, <1>14, <1>15, <2>3, <2>4, <2>5, <2>6 DEF IInv
  <1>17. CASE Len(todo) = 1
    <2>1. /\ cmd' = "none" /\ last' = [cmd |-> cmd, who |-> who, outcome |-> "ok"]
      BY <1>1, <1>4, <1>17 DEF End
    <2>2. Saved' /\ AboutClient' /\ EnrollProgress'
      BY <2>1 DEF Saved, AboutClient, EnrollProgress
    <2>3. AuthorizedHasBundle'
      BY <2>1 DEF AuthorizedHasBundle, Ended
    <2>4. cmd = "enroll" => server = CredsOf(state) /\ state = work /\ f = "serverBundle"
                               /\ state' = state /\ server' = server
                               /\ bundle' = bundle /\ ca' = ca /\ sbundle' = server
      BY <1>3, <1>5, <1>12, <1>17 DEF IInv, EnrollProgress, f
    <2>5. ServerFollowsState'
      <3> SUFFICES ASSUME cmd \in {"init", "add", "enroll", "revoke", "rollback"}
                   PROVE  server' = CredsOf(state')
        BY <2>1 DEF ServerFollowsState, Ended, CredsOf
      <3>1. CASE cmd = "enroll"
        BY <2>4, <3>1
      <3>2. CASE cmd # "enroll"
        BY <1>3, <1>5, <1>12, <1>17, <3>2
      <3> QED
        BY <3>1, <3>2
    <2>6. EnrolledIsComplete'
      <3> SUFFICES ASSUME cmd = "enroll"
                   PROVE  /\ server'[who] = state'[who].cred
                          /\ bundle'[who] = [cred |-> state'[who].cred, ca |-> ca']
                          /\ sbundle' = CredsOf(state')
        BY <2>1 DEF EnrolledIsComplete, Ended, CredsOf
      <3>1. who \in Ids /\ work[who] # Absent
        BY DEF IInv, AboutClient
      <3>2. CredsOf(state)[who] = state[who].cred
        BY <2>4, <3>1 DEF CredsOf
      <3>3. bundle[who] = [cred |-> work[who].cred, ca |-> ca]
        BY <2>4 DEF IInv, EnrollProgress, f
      <3> QED
        BY <2>4, <3>2, <3>3
    <2> QED
      BY <1>9, <1>10, <1>11, <1>13, <1>14, <1>15, <2>2, <2>3, <2>5, <2>6 DEF IInv
  <1> QED
    BY <1>1, <1>16, <1>17, Zenon

(* A write that did not happen changes no JSON, and may tear one file that  *)
(* belongs to the command.                                                  *)
LEMMA NotWrittenFiles ==
    ASSUME IInv, todo # <<>>, NotWritten
    PROVE  /\ cmd \in Commands \cup {"rollback"}
           /\ state' = state /\ server' = server
           /\ ca' \in Pem /\ caKey' \in Pem /\ leaf' \in Pem /\ leafKey' \in Pem
           /\ bundle' \in [Ids -> [cred : Creds, ca : Pem] \cup {Absent, Torn}]
           /\ sbundle' \in [Ids -> Creds \cup {Absent}] \cup {Absent, Torn}
           /\ cmd # "init" => ca' = ca
           /\ Head(todo) # "bundle" => bundle' = bundle
           /\ state = Absent \/ cmd = "init" => \A i \in Ids : bundle'[i] = Absent
           /\ BundlesPinTheCA'
  <1> DEFINE f == Head(todo)
  <1>1. TypeOK /\ OnProgram /\ cmd \in Commands \cup {"rollback"}
    BY DEF IInv, OnProgram, TypeOK
  <1>2. /\ f = "relay-ca.crt" => cmd = "init"
        /\ f = "bundle" => who \in Ids /\ cmd # "init" /\ state = work
    BY <1>1, Heads DEF IInv, AboutClient, Saved, OnProgram
  <1>3. work # Absent
    BY <1>1, ContentAssumption DEF TypeOK
  <1>4. CASE UNCHANGED files
    BY <1>1, <1>4 DEF IInv, files, TypeOK, NothingPinnedYet, BundlesPinTheCA
  <1>5. CASE f \notin {"state.json", "server.json"} /\ Put(Torn, Torn, Torn)
    <2>1. /\ state' = state /\ server' = server
          /\ ca'      = IF f = "relay-ca.crt" THEN Torn ELSE ca
          /\ caKey'   = IF f = "relay-ca.key" THEN Torn ELSE caKey
          /\ leaf'    = IF f = "relay.crt" THEN Torn ELSE leaf
          /\ leafKey' = IF f = "relay.key" THEN Torn ELSE leafKey
          /\ bundle'  = IF f = "bundle" THEN [bundle EXCEPT ![who] = Torn] ELSE bundle
          /\ sbundle' = IF f = "serverBundle" THEN Torn ELSE sbundle
      BY <1>5 DEF Put
    <2> HIDE DEF f
    <2>2. /\ ca' \in Pem /\ caKey' \in Pem /\ leaf' \in Pem /\ leafKey' \in Pem
          /\ bundle' \in [Ids -> [cred : Creds, ca : Pem] \cup {Absent, Torn}]
          /\ sbundle' \in [Ids -> Creds \cup {Absent}] \cup {Absent, Torn}
      BY <1>1, <2>1 DEF TypeOK, Pem
    <2>3. cmd # "init" => ca' = ca
      BY <1>2, <2>1
    <2>4. state = Absent \/ cmd = "init" => bundle' = bundle
      BY <1>2, <1>3, <2>1
    <2>5. ASSUME NEW i \in Ids, bundle'[i] \notin {Absent, Torn}
          PROVE  bundle'[i].ca = ca'
      <3>1. bundle'[i] = bundle[i]
        BY <1>1, <2>1, <2>5 DEF TypeOK
      <3>2. cmd # "init"
        BY <2>4, <2>5 DEF IInv, NothingPinnedYet
      <3> QED
        BY <2>3, <2>5, <3>1, <3>2 DEF IInv, BundlesPinTheCA
    <2>6. BundlesPinTheCA'
      BY <2>5 DEF BundlesPinTheCA
    <2>7. state = Absent \/ cmd = "init" => \A i \in Ids : bundle'[i] = Absent
      BY <2>4 DEF IInv, NothingPinnedYet
    <2> QED
      BY <1>1, <2>1, <2>2, <2>3, <2>6, <2>7 DEF f
  <1> QED
    BY <1>4, <1>5 DEF NotWritten

(* A command that stops without having written a file.                      *)
LEMMA StopsIInv ==
    ASSUME IInv, todo # <<>>, NotWritten, UNCHANGED <<creds, certs>>,
           NEW outcome \in {"failed", "killed"}, End(outcome),
           cmd = "enroll" /\ outcome = "failed" => Head(todo) # "bundle"
    PROVE  IInv'
  <1>1. /\ cmd' = "none" /\ who' = Absent /\ work' = NoClients /\ todo' = <<>>
        /\ last' = [cmd |-> cmd, who |-> who, outcome |-> outcome]
        /\ creds' = creds /\ certs' = certs
    BY DEF End
  <1>2. /\ cmd \in Commands \cup {"rollback"}
        /\ state' = state /\ server' = server
        /\ ca' \in Pem /\ caKey' \in Pem /\ leaf' \in Pem /\ leafKey' \in Pem
        /\ bundle' \in [Ids -> [cred : Creds, ca : Pem] \cup {Absent, Torn}]
        /\ sbundle' \in [Ids -> Creds \cup {Absent}] \cup {Absent, Torn}
        /\ cmd # "init" => ca' = ca
        /\ Head(todo) # "bundle" => bundle' = bundle
        /\ state = Absent \/ cmd = "init" => \A i \in Ids : bundle'[i] = Absent
        /\ BundlesPinTheCA'
    BY NotWrittenFiles
  <1>3. NoClients \in [Ids -> Client \cup {Absent}] /\ \A i \in Ids : NoClients[i] = Absent
    BY DEF NoClients
  <1>4. TypeOK'
    BY <1>1, <1>2, <1>3 DEF IInv, TypeOK
  <1>5. OnProgram'
    BY <1>1 DEF OnProgram
  <1>6. Saved' /\ AboutClient' /\ EnrollProgress'
    BY <1>1 DEF Saved, AboutClient, EnrollProgress
  <1>7. CredsKnown'
    BY <1>1, <1>2, <1>3 DEF IInv, CredsKnown, Known
  <1>8. NothingPinnedYet'
    BY <1>1, <1>2 DEF NothingPinnedYet
  <1>9. Distinct(work)' /\ ClientsDistinct'
    BY <1>1, <1>2, <1>3 DEF IInv, Distinct, ClientsDistinct
  <1>10. ServerFollowsState' /\ EnrolledIsComplete'
    BY <1>1 DEF ServerFollowsState, EnrolledIsComplete, Ended
  <1>11. AuthorizedHasBundle'
    <2> SUFFICES ASSUME cmd = "enroll", outcome = "failed", state[who] # Absent
                 PROVE  \/ server = Absent \/ server[who] # state[who].cred
                        \/ bundle[who] = [cred |-> state[who].cred, ca |-> ca]
      <3>1. cmd = "enroll" /\ outcome = "failed" => ca' = ca /\ bundle' = bundle
        BY <1>2
      <3> QED
        BY <1>1, <1>2, <3>1 DEF AuthorizedHasBundle, Ended
    <2>1. Head(todo) # "state.json" /\ state = work
      BY DEF IInv, EnrollProgress, Saved
    <2>2. Head(todo) \in {"server.json", "serverBundle"}
      <3> DEFINE n == Len(todo)
                 f == Head(todo)
      <3>1. n \in Nat \ {0} /\ n <= 4 /\ f = EnrollFiles[5 - n]
        BY <1>2, NextFile DEF IInv
      <3> HIDE DEF n, f
      <3>2. f \in {"state.json", "server.json", "bundle", "serverBundle"}
        BY <3>1 DEF EnrollFiles
      <3> QED
        BY <2>1, <3>2 DEF f
    <2> QED
      BY <2>1, <2>2 DEF IInv, EnrollProgress
  <1> QED
    BY <1>2, <1>4, <1>5, <1>6, <1>7, <1>8, <1>9, <1>10, <1>11 DEF IInv

(* Enroll turns back: it goes on as the revocation of its own client.       *)
LEMMA RollbackIInv ==
    ASSUME IInv, WriteFails, cmd = "enroll", Head(todo) = "bundle"
    PROVE  IInv'
  <1>1. /\ todo # <<>> /\ NotWritten /\ creds' = creds /\ certs' = certs
        /\ cmd' = "rollback" /\ todo' = SaveClients /\ work' = [work EXCEPT ![who] = Absent]
        /\ who' = who /\ last' = last
    BY DEF WriteFails
  <1>2. /\ state' = state /\ server' = server
        /\ ca' \in Pem /\ caKey' \in Pem /\ leaf' \in Pem /\ leafKey' \in Pem
        /\ bundle' \in [Ids -> [cred : Creds, ca : Pem] \cup {Absent, Torn}]
        /\ sbundle' \in [Ids -> Creds \cup {Absent}] \cup {Absent, Torn}
        /\ state = Absent \/ cmd = "init" => \A i \in Ids : bundle'[i] = Absent
        /\ BundlesPinTheCA'
    BY <1>1, NotWrittenFiles
  <1>3. /\ work' \in [Ids -> Client \cup {Absent}] /\ who \in Ids /\ work'[who] = Absent
        /\ \A i \in Ids : i # who => work'[i] = work[i]
    BY <1>1 DEF IInv, TypeOK, AboutClient
  <1>4. TypeOK'
    BY <1>1, <1>2, <1>3 DEF IInv, TypeOK
  <1>5. OnProgram'
    <2>1. Program("rollback") = SaveClients
      BY DEF Program
    <2> QED
      BY <1>1, <2>1, ProgramBegins
  <1>6. Saved'
    BY <1>1 DEF Saved, SaveClients
  <1>7. AboutClient' /\ EnrollProgress'
    BY <1>1, <1>3 DEF AboutClient, EnrollProgress
  <1>8. CredsKnown'
    BY <1>1, <1>2, <1>3 DEF IInv, CredsKnown, Known
  <1>9. NothingPinnedYet'
    BY <1>1, <1>2 DEF NothingPinnedYet
  <1>10. Distinct(work)' /\ ClientsDistinct'
    BY <1>2, <1>3 DEF IInv, Distinct, ClientsDistinct
  <1>11. ServerFollowsState' /\ EnrolledIsComplete' /\ AuthorizedHasBundle'
    BY <1>1 DEF ServerFollowsState, EnrolledIsComplete, AuthorizedHasBundle, Ended
  <1> QED
    BY <1>2, <1>4, <1>5, <1>6, <1>7, <1>8, <1>9, <1>10, <1>11 DEF IInv

(* Every step preserves the invariant.                                      *)
LEMMA NextIInv == IInv /\ [Next]_vars => IInv'
  <1> SUFFICES ASSUME IInv, [Next]_vars PROVE IInv'
    OBVIOUS
  <1>1. CASE CommandBegins
    BY <1>1, CommandsIInv
  <1>2. CASE Write
    BY <1>2, WriteIInv
  <1>3. CASE WriteFails
    <2>1. CASE cmd = "enroll" /\ Head(todo) = "bundle"
      BY <1>3, <2>1, RollbackIInv
    <2>2. CASE ~(cmd = "enroll" /\ Head(todo) = "bundle")
      <3>1. todo # <<>> /\ NotWritten /\ End("failed") /\ UNCHANGED <<creds, certs>>
        BY <1>3, <2>2 DEF WriteFails
      <3> QED
        BY <2>2, <3>1, StopsIInv
    <2> QED
      BY <2>1, <2>2
  <1>4. CASE Killed
    <2>1. todo # <<>> /\ NotWritten /\ End("killed") /\ UNCHANGED <<creds, certs>>
      BY <1>4 DEF Killed
    <2> QED
      BY <2>1, StopsIInv
  <1>5. CASE UNCHANGED vars
    <2>1. /\ state' = state /\ server' = server /\ ca' = ca /\ caKey' = caKey
          /\ leaf' = leaf /\ leafKey' = leafKey /\ bundle' = bundle /\ sbundle' = sbundle
          /\ cmd' = cmd /\ who' = who /\ work' = work /\ todo' = todo /\ last' = last
          /\ creds' = creds /\ certs' = certs
      BY <1>5 DEF vars
    <2>2. TypeOK' /\ OnProgram'
      BY <2>1 DEF IInv, TypeOK, OnProgram, Program
    <2>3. Saved' /\ AboutClient' /\ EnrollProgress' /\ CredsKnown' /\ NothingPinnedYet'
      BY <2>1 DEF IInv, Saved, AboutClient, EnrollProgress, CredsKnown, Known, NothingPinnedYet,
                  CredsOf
    <2>4. Distinct(work)' /\ ClientsDistinct' /\ BundlesPinTheCA'
      BY <2>1 DEF IInv, Distinct, ClientsDistinct, BundlesPinTheCA
    <2>5. ServerFollowsState' /\ EnrolledIsComplete' /\ AuthorizedHasBundle'
      BY <2>1 DEF IInv, ServerFollowsState, EnrolledIsComplete, AuthorizedHasBundle, Ended, CredsOf
    <2> QED
      BY <2>2, <2>3, <2>4, <2>5 DEF IInv
  <1> QED
    BY <1>1, <1>2, <1>3, <1>4, <1>5 DEF Next, CommandBegins

----------------------------------------------------------------------------
(* The invariant holds throughout.                                          *)
THEOREM Invariance == Spec => []IInv
  BY InitIInv, NextIInv, PTL DEF Spec

(* The files have their types: in particular no bundle carries the          *)
(* credential of a client that is not in the list (Bundle, Enroll).         *)
THEOREM FilesTyped == Spec => []TypeOK
  <1>1. IInv => TypeOK
    BY DEF IInv
  <1> QED
    BY <1>1, Invariance, PTL

(* A command that changes the client list and succeeds, and a completed     *)
(* rollback, leaves server.json with exactly the credentials of state.json, *)
(* whatever earlier commands left half-written.                             *)
THEOREM ServerFollows == Spec => []ServerFollowsState
  <1>1. IInv => ServerFollowsState
    BY DEF IInv
  <1> QED
    BY <1>1, Invariance, PTL

(* After a successful Enroll the list, the relay configuration and both     *)
(* bundles carry the same credential.                                       *)
THEOREM EnrollComplete == Spec => []EnrolledIsComplete
  <1>1. IInv => EnrolledIsComplete
    BY DEF IInv
  <1> QED
    BY <1>1, Invariance, PTL

(* A failed Enroll whose client is authorized all the same has left the     *)
(* client's bundle.                                                         *)
THEOREM AuthorizedBundled == Spec => []AuthorizedHasBundle
  <1>1. IInv => AuthorizedHasBundle
    BY DEF IInv
  <1> QED
    BY <1>1, Invariance, PTL

(* No sequence of failed, killed and repeated commands replaces the CA that *)
(* a client bundle pins.                                                    *)
THEOREM CAPinned == Spec => []BundlesPinTheCA
  <1>1. IInv => BundlesPinTheCA
    BY DEF IInv
  <1> QED
    BY <1>1, Invariance, PTL

(* Two clients of the list never share an address, and there is one gateway *)
(* at most.                                                                 *)
THEOREM Distinctness == Spec => []ClientsDistinct
  <1>1. IInv => ClientsDistinct
    BY DEF IInv
  <1> QED
    BY <1>1, Invariance, PTL

----------------------------------------------------------------------------
(***************************************************************************)
(* The address plan, for addresses of any width and any number of clients. *)
(* First the arithmetic of prefixes.                                        *)
(***************************************************************************)
(* The plan's powers of two are those of the lemmas.                        *)
LEMMA PlanPowers == Plan!Pow2 = Pow2
  BY DEF Plan!Pow2, Pow2

(* A prefix holds a power of two of addresses, its own among them.          *)
LEMMA SizeOf ==
    ASSUME NEW p \in Plan!Prefix
    PROVE  /\ Width \in Nat /\ p.bits \in 0 .. Width /\ p.addr \in Nat /\ p.addr < Pow2[Width]
           /\ Width - p.bits \in Nat /\ Width - p.bits <= Width
           /\ Plan!Size(p) = Pow2[Width - p.bits]
           /\ Plan!Size(p) \in Nat /\ Plan!Size(p) > 0
  <1>1. Width \in Nat
    BY PlanAssumption DEF Plan!WidthAssumption
  <1>2. Pow2[Width] \in Nat
    BY <1>1, Pow2Exceeds
  <1>3. p.bits \in 0 .. Width /\ p.addr \in 0 .. Pow2[Width] - 1
    BY PlanPowers DEF Plan!Prefix, Plan!AddressSpace
  <1>4. Width - p.bits \in Nat
    BY <1>1, <1>3
  <1>5. Plan!Size(p) = Pow2[Width - p.bits]
    BY PlanPowers DEF Plan!Size
  <1>6. Pow2[Width - p.bits] \in Nat /\ Pow2[Width - p.bits] > Width - p.bits
    BY <1>4, Pow2Exceeds
  <1> QED
    BY <1>1, <1>2, <1>3, <1>4, <1>5, <1>6

(* The addresses are the numbers below 2^Width.                             *)
LEMMA Space == \A a : a \in Plan!AddressSpace <=> a \in Nat /\ a < Pow2[Width]
  <1>1. Pow2[Width] \in Nat
    BY PlanAssumption, Pow2Exceeds DEF Plan!WidthAssumption
  <1> QED
    BY <1>1, PlanPowers DEF Plan!AddressSpace

(* Masked keeps the length, and a canonical prefix begins at a multiple of  *)
(* its size.                                                                *)
LEMMA MaskedIs ==
    ASSUME NEW p \in Plan!Prefix
    PROVE  /\ Plan!Masked(p) = [addr |-> p.addr - (p.addr % Plan!Size(p)), bits |-> p.bits]
           /\ p = Plan!Masked(p) => p.addr % Plan!Size(p) = 0
  <1>1. p = [addr |-> p.addr, bits |-> p.bits]
    BY DEF Plan!Prefix
  <1>2. Plan!Masked(p) = [addr |-> p.addr - (p.addr % Plan!Size(p)), bits |-> p.bits]
    BY <1>1 DEF Plan!Masked
  <1>3. p.addr % Plan!Size(p) \in Nat /\ p.addr \in Nat
    BY SizeOf, DivMod
  <1>4. ASSUME p = Plan!Masked(p) PROVE p.addr % Plan!Size(p) = 0
    <2>1. p.addr = p.addr - (p.addr % Plan!Size(p))
      BY <1>2, <1>4
    <2> QED
      BY <1>3, <2>1
  <1> QED
    BY <1>2, <1>4

(* A canonical prefix is the block of addresses from its own on.            *)
LEMMA ContainsIs ==
    ASSUME NEW p \in Plan!Prefix, p = Plan!Masked(p), NEW a \in Nat
    PROVE  Plan!PrefixContains(p, a) <=> p.addr <= a /\ a < p.addr + Plan!Size(p)
  BY SizeOf, MaskedIs, Block DEF Plan!PrefixContains

(* Two prefixes overlap exactly when they have an address in common.        *)
LEMMA OverlapIs ==
    ASSUME NEW p \in Plan!Prefix, NEW q \in Plan!Prefix
    PROVE  Plan!Overlap(p, q) <=> Plan!Members(p) \cap Plan!Members(q) # {}
  <1>1. ASSUME NEW r \in Plan!Prefix PROVE r.addr \in Plan!Members(r) /\ r.addr \in Plan!AddressSpace
    BY Space, SizeOf DEF Plan!Members, Plan!PrefixContains
  <1>2. ASSUME Plan!Overlap(p, q) PROVE Plan!Members(p) \cap Plan!Members(q) # {}
    BY <1>1, <1>2 DEF Plan!Overlap, Plan!Members
  <1>3. ASSUME NEW r \in Plan!Prefix, NEW s \in Plan!Prefix, r.bits >= s.bits, 
               NEW a \in Plan!Members(r) \cap Plan!Members(s)
        PROVE  Plan!PrefixContains(s, r.addr)
    <2> DEFINE i == Width - r.bits
               j == Width - s.bits
    <2>1. /\ i \in Nat /\ j \in Nat /\ i <= j /\ r.addr \in Nat /\ s.addr \in Nat
          /\ Plan!Size(r) = Pow2[i] /\ Plan!Size(s) = Pow2[j]
      BY <1>3, SizeOf
    <2>2. a \in Nat /\ Plan!PrefixContains(r, a) /\ Plan!PrefixContains(s, a)
      BY Space DEF Plan!Members
    <2>3. a \div Pow2[i] = r.addr \div Pow2[i] /\ a \div Pow2[j] = s.addr \div Pow2[j]
      BY <2>1, <2>2 DEF Plan!PrefixContains
    <2>4. a \div Pow2[j] = r.addr \div Pow2[j]
      <3> HIDE DEF i, j
      <3> QED
        BY <2>1, <2>2, <2>3, Nested
    <2> QED
      BY <2>1, <2>3, <2>4 DEF Plan!PrefixContains
  <1>4. ASSUME NEW a \in Plan!Members(p) \cap Plan!Members(q) PROVE Plan!Overlap(p, q)
    <2>1. p.bits >= q.bits \/ q.bits >= p.bits
      BY SizeOf
    <2> QED
      BY <1>3, <2>1 DEF Plan!Overlap
  <1> QED
    BY <1>2, <1>4

(***************************************************************************)
(* What the checks of Init and AddClient have let into the plan.            *)
(***************************************************************************)
Accepted(c) ==
    /\ c.role \in {"client", "gateway"}
    /\ c.addr \in Plan!AddressSpace
    /\ Plan!UsableAddress(overlay, c.addr)
    /\ c.role = "gateway" <=> c.addr = gateway
    /\ c.routes \subseteq Plan!Prefix
    /\ Plan!RoutesOK(c.routes)
    /\ Plan!ReachesResolver(c.role, c.routes)

Deployed ==
    /\ overlay \in Plan!Prefix /\ Plan!OverlayOK(overlay)
    /\ gateway \in Plan!AddressSpace /\ Plan!UsableAddress(overlay, gateway)
    /\ dns \in Plan!AddressSpace \cup {None} /\ Plan!ResolverOK(dns, overlay)

PlanInv ==
    /\ overlay # None => Deployed
    /\ overlay = None => clients = {}
    /\ \A c \in clients : Accepted(c)
    /\ \A c, d \in clients : c.addr = d.addr => c = d

(* Init, AddClient and RevokeClient keep the plan accepted.                 *)
LEMMA NextPlan == PlanInv /\ [Plan!Next]_planVars => PlanInv'
  <1> SUFFICES ASSUME PlanInv, [Plan!Next]_planVars PROVE PlanInv'
    OBVIOUS
  <1>1. CASE Plan!Deploy
    <2>1. /\ clients' = {}
          /\ \E p \in Plan!Prefix, g \in Plan!AddressSpace, d \in Plan!AddressSpace \cup {None} :
                /\ Plan!OverlayOK(p) /\ Plan!UsableAddress(p, g) /\ Plan!ResolverOK(d, p)
                /\ overlay' = p /\ gateway' = g /\ dns' = d
      BY <1>1 DEF Plan!Deploy, PlanInv
    <2>2. Deployed'
      BY <2>1 DEF Deployed
    <2> QED
      BY <2>1, <2>2 DEF PlanInv
  <1>2. ASSUME UNCHANGED <<overlay, gateway, dns>>
        PROVE  /\ Deployed' = Deployed
               /\ \A c : Accepted(c)' = Accepted(c)
    BY <1>2 DEF Deployed, Accepted, Plan!OverlayOK, Plan!UsableAddress, Plan!ResolverOK,
                Plan!RoutesOK, Plan!ReachesResolver
  <1>3. ASSUME NEW role \in {"client", "gateway"}, NEW a \in Plan!AddressSpace,
               NEW R \in RouteSets, Plan!AddClient(role, a, R)
        PROVE  PlanInv'
    <2> DEFINE new == [role |-> role, addr |-> a, routes |-> R]
    <2>1. /\ overlay # None /\ clients' = clients \cup {new}
          /\ UNCHANGED <<overlay, gateway, dns>>
          /\ Plan!Admits(role, a) /\ Plan!RoutesOK(R) /\ Plan!ReachesResolver(role, R)
      BY <1>3 DEF Plan!AddClient
    <2>2. R \subseteq Plan!Prefix
      BY PlanAssumption DEF Plan!RoutesAssumption
    <2>3. Accepted(new)
      BY <2>1, <2>2 DEF Accepted, Plan!Admits
    <2>4. \A c \in clients : c.addr # new.addr
      BY <2>1 DEF Plan!Admits
    <2> HIDE DEF new
    <2> QED
      BY <1>2, <2>1, <2>3, <2>4 DEF PlanInv
  <1>4. ASSUME NEW c \in clients, Plan!RevokeClient(c) PROVE PlanInv'
    BY <1>2, <1>4 DEF Plan!RevokeClient, PlanInv
  <1>5. CASE UNCHANGED planVars
    BY <1>2, <1>5 DEF planVars, PlanInv
  <1> QED
    BY <1>1, <1>3, <1>4, <1>5 DEF Plan!Next

(* The usable addresses of a deployed overlay are those that are neither    *)
(* its first nor its last.                                                  *)
LEMMA UsableIsInside ==
    ASSUME Deployed, NEW a \in Plan!AddressSpace
    PROVE  /\ a \in Plan!Inside <=> Plan!UsableAddress(overlay, a)
           /\ a \in Plan!Inside <=> overlay.addr < a /\ a < overlay.addr + Plan!Size(overlay) - 1
  <1> DEFINE first == overlay.addr
             top  == overlay.addr + Plan!Size(overlay) - 1
  <1>1. /\ overlay \in Plan!Prefix /\ overlay = Plan!Masked(overlay)
        /\ overlay.addr \in Nat /\ Plan!Size(overlay) \in Nat /\ Plan!Size(overlay) > 0
        /\ a \in Nat
    BY SizeOf, Space DEF Deployed, Plan!OverlayOK
  <1>2. top \in Nat /\ top < Pow2[Width] /\ Pow2[Width] \in Nat
    <2>1. overlay.addr + Plan!Size(overlay) <= Pow2[Width]
      BY <1>1, SizeOf, MaskedIs, BlockFits
    <2>2. Pow2[Width] \in Nat
      BY <1>1, SizeOf, Pow2Exceeds
    <2> QED
      BY <1>1, <2>1, <2>2
  <1>3. \A m \in Nat : Plan!PrefixContains(overlay, m) <=> first <= m /\ m <= top
    BY <1>1, ContainsIs
  <1>4. ASSUME NEW m PROVE m \in Plan!Members(overlay) <=> m \in Nat /\ first <= m /\ m <= top
    <2>1. m \in Plan!AddressSpace <=> m \in Nat /\ m < Pow2[Width]
      BY Space
    <2> QED
      BY <1>1, <1>2, <1>3, <2>1 DEF Plan!Members
  <1>5. Plan!UsableAddress(overlay, a) <=> first < a /\ a < top
    <2>1. Plan!UsableAddress(overlay, a) <=>
             Plan!PrefixContains(overlay, a) /\ a # first /\ a # top
      BY <1>1 DEF Plan!UsableAddress
    <2> QED
      BY <1>1, <1>2, <1>3, <2>1
  <1>6. a \in Plan!Inside <=> first < a /\ a < top
    <2>1. a \in Plan!Inside <=>
             /\ a \in Plan!Members(overlay)
             /\ \E lo \in Plan!Members(overlay) : lo < a
             /\ \E hi \in Plan!Members(overlay) : a < hi
      BY DEF Plan!Inside
    <2>2. ASSUME first < a, a < top PROVE a \in Plan!Inside
      <3>1. first \in Plan!Members(overlay) /\ top \in Plan!Members(overlay)
            /\ a \in Plan!Members(overlay)
        BY <1>1, <1>2, <1>4, <2>2
      <3> QED
        BY <2>1, <2>2, <3>1
    <2>3. ASSUME a \in Plan!Inside PROVE first < a /\ a < top
      <3>1. PICK lo, hi \in Plan!Members(overlay) : lo < a /\ a < hi
        BY <2>1, <2>3
      <3>2. lo \in Nat /\ hi \in Nat /\ first <= lo /\ hi <= top
        BY <1>4
      <3> QED
        BY <1>1, <1>2, <3>1, <3>2
    <2> QED
      BY <2>2, <2>3
  <1> QED
    BY <1>5, <1>6

(* All members of the overlay have distinct usable addresses, and only the  *)
(* gateway has the gateway's.                                               *)
LEMMA PlanSegment == PlanInv => Plan!SegmentConsistent
  <1> SUFFICES ASSUME PlanInv, NEW c \in clients
               PROVE  /\ \A d \in clients : c.addr = d.addr => c = d
                      /\ c.addr \in Plan!Inside
                      /\ c.addr = gateway <=> c.role = "gateway"
    BY DEF Plan!SegmentConsistent
  <1>1. Deployed /\ Accepted(c)
    BY DEF PlanInv
  <1>2. c.addr \in Plan!Inside
    BY <1>1, UsableIsInside DEF Accepted
  <1> QED
    BY <1>1, <1>2 DEF PlanInv, Accepted

(* There is room for a gateway and a client, and every free address can be  *)
(* given to a client.                                                       *)
LEMMA PlanRoom == PlanInv => Plan!RoomToGrow
  <1> SUFFICES ASSUME PlanInv, overlay # None PROVE Plan!RoomToGrow
    BY DEF Plan!RoomToGrow
  <1>1. Deployed
    BY DEF PlanInv
  <1> DEFINE free == {a \in Plan!Inside \ {gateway} : \A c \in clients : c.addr # a}
  <1>2. \A a \in Plan!Inside : a \in Plan!AddressSpace
    BY DEF Plan!Inside, Plan!Members
  <1>3. gateway \in Plan!Inside
    BY <1>1, UsableIsInside DEF Deployed
  <1>4. ASSUME clients = {} PROVE free # {}
    <2> DEFINE x == overlay.addr + 1
               y == overlay.addr + 2
    <2>1. /\ overlay \in Plan!Prefix /\ overlay.addr \in Nat /\ Plan!Size(overlay) \in Nat
          /\ Width - overlay.bits \in Nat /\ Plan!Size(overlay) = Pow2[Width - overlay.bits]
          /\ Width - overlay.bits <= Width /\ Width \in Nat /\ overlay.addr < Pow2[Width]
          /\ overlay.addr % Plan!Size(overlay) = 0
      BY <1>1, SizeOf, MaskedIs DEF Deployed, Plan!OverlayOK
    <2>2. Plan!Size(overlay) >= 4
      <3>1. 2 <= Width - overlay.bits
        <4>1. overlay.bits <= Width - 2
          BY <1>1 DEF Deployed, Plan!OverlayOK
        <4>2. overlay.bits \in 0 .. Width
          BY <2>1, SizeOf
        <4> QED
          BY <2>1, <4>1, <4>2
      <3>2. Pow2[2] = 4
        <4>1. Pow2[0] = 1 /\ Pow2[0 + 1] = 2 * Pow2[0] /\ Pow2[1 + 1] = 2 * Pow2[1]
          BY Pow2Facts
        <4> QED
          BY <4>1
      <3> DEFINE k == Width - overlay.bits
      <3>3. k \in Nat /\ 2 <= k
        BY <2>1, <3>1
      <3> HIDE DEF k
      <3>4. Pow2[k] = Pow2[2] * Pow2[k - 2] /\ Pow2[k - 2] \in Nat /\ Pow2[k - 2] > 0
        BY <3>3, Pow2Split
      <3>5. Pow2[k] >= 4
        BY <3>2, <3>4
      <3> QED
        BY <2>1, <3>5 DEF k
    <2>3. overlay.addr + Plan!Size(overlay) <= Pow2[Width]
      BY <2>1, BlockFits
    <2>4. Pow2[Width] \in Nat
      BY <2>1, Pow2Exceeds
    <2>5. x \in Plan!AddressSpace /\ y \in Plan!AddressSpace
      BY <2>1, <2>2, <2>3, <2>4, Space
    <2>6. x \in Plan!Inside /\ y \in Plan!Inside
      BY <1>1, <2>1, <2>2, <2>5, UsableIsInside
    <2>7. x # y
      BY <2>1
    <2> HIDE DEF x, y
    <2> QED
      BY <1>4, <2>6, <2>7
  <1>5. ASSUME NEW a \in free PROVE Plan!Admits("client", a)
    <2>1. Plan!UsableAddress(overlay, a)
      BY <1>1, <1>2, UsableIsInside
    <2> QED
      BY <2>1 DEF Plan!Admits
  <1>6. \E R \in {{}} \cup {{r} : r \in Plan!Prefix} :
           Plan!RoutesOK(R) /\ Plan!ReachesResolver("client", R)
    <2>1. CASE dns = None
      <3>1. Plan!RoutesOK({}) /\ Plan!ReachesResolver("client", {})
        BY <2>1 DEF Plan!RoutesOK, Plan!ReachesResolver
      <3> QED
        BY <3>1
    <2>2. CASE dns # None
      <3> DEFINE r == [addr |-> dns, bits |-> Width]
      <3>1. dns \in Plan!AddressSpace /\ ~Plan!PrefixContains(overlay, dns)
        BY <1>1, <2>2 DEF Deployed, Plan!ResolverOK
      <3>2. Width \in Nat
        BY PlanAssumption DEF Plan!WidthAssumption
      <3>3. r \in Plan!Prefix /\ r.addr = dns /\ r.bits = Width
        BY <3>1, <3>2 DEF Plan!Prefix
      <3>4. Plan!Size(r) = 1
        <4>1. Width - Width = 0
          BY <3>2
        <4> HIDE DEF r
        <4>2. Plan!Size(r) = Pow2[Width - Width]
          BY <3>3, SizeOf
        <4> QED
          BY <4>1, <4>2, Pow2Facts
      <3>5. dns \in Nat /\ overlay.addr \in Nat /\ overlay \in Plan!Prefix
        BY <1>1, <3>1, Space, SizeOf DEF Deployed
      <3>6. dns % 1 = 0 /\ dns \div 1 = dns /\ overlay.addr \div 1 = overlay.addr
        BY <3>5
      <3>7. r = Plan!Masked(r)
        <4>1. Plan!Masked(r) = [addr |-> dns - (dns % 1), bits |-> Width]
          BY <3>3, <3>4, MaskedIs
        <4> QED
          BY <3>5, <3>6, <4>1
      <3>8. Plan!PrefixContains(r, dns)
        BY <3>3 DEF Plan!PrefixContains
      <3>9. ~Plan!Overlap(r, overlay)
        <4>1. ASSUME Plan!PrefixContains(r, overlay.addr) PROVE FALSE
          <5>1. overlay.addr = dns
            BY <3>3, <3>4, <3>6, <4>1 DEF Plan!PrefixContains
          <5> QED
            BY <3>1, <5>1 DEF Plan!PrefixContains
        <4> QED
          BY <3>1, <3>3, <4>1 DEF Plan!Overlap
      <3> HIDE DEF r
      <3>10. Plan!RoutesOK({r}) /\ Plan!ReachesResolver("client", {r})
        BY <3>7, <3>8, <3>9 DEF Plan!RoutesOK, Plan!ReachesResolver
      <3> QED
        BY <3>3, <3>10
    <2> QED
      BY <2>1, <2>2
  <1> QED
    BY <1>3, <1>4, <1>5, <1>6 DEF Plan!RoomToGrow

(* Routes and overlay have no address in common, and a client reaches its   *)
(* DNS server through a route.                                              *)
LEMMA PlanTunnel == PlanInv => Plan!TunnelUnambiguous
  <1> SUFFICES ASSUME PlanInv, NEW c \in clients
               PROVE  LET routed == UNION {Plan!Members(r) : r \in c.routes} IN
                      /\ routed \cap Plan!Members(overlay) = {}
                      /\ dns # None /\ c.role = "client" => dns \in routed
    BY DEF Plan!TunnelUnambiguous
  <1>1. Deployed /\ Accepted(c)
    BY DEF PlanInv
  <1>2. ASSUME NEW r \in c.routes PROVE Plan!Members(r) \cap Plan!Members(overlay) = {}
    <2>1. r \in Plan!Prefix /\ overlay \in Plan!Prefix /\ ~Plan!Overlap(r, overlay)
      BY <1>1, <1>2 DEF Accepted, Deployed, Plan!RoutesOK
    <2> QED
      BY <2>1, OverlapIs
  <1>3. ASSUME dns # None, c.role = "client" PROVE \E r \in c.routes : dns \in Plan!Members(r)
    <2>1. PICK r \in c.routes : Plan!PrefixContains(r, dns)
      BY <1>1, <1>3 DEF Accepted, Plan!ReachesResolver
    <2>2. dns \in Plan!AddressSpace
      BY <1>1, <1>3 DEF Deployed
    <2> QED
      BY <2>1, <2>2 DEF Plan!Members
  <1> QED
    BY <1>2, <1>3

(* The client program accepts the client.json of every client.              *)
LEMMA PlanLoads == PlanInv => Plan!BundleLoads
  <1> SUFFICES ASSUME PlanInv, NEW c \in clients
               PROVE  Plan!LoadClient(Plan!Rendered(c), gateway, c.routes)
    BY DEF Plan!BundleLoads
  <1>1. Deployed /\ Accepted(c)
    BY DEF PlanInv
  <1> DEFINE q == Plan!Rendered(c)
             s == Plan!Size(overlay)
  <1>2. /\ overlay \in Plan!Prefix /\ overlay = Plan!Masked(overlay)
        /\ overlay = [addr |-> overlay.addr, bits |-> overlay.bits]
        /\ overlay.addr \in Nat /\ s \in Nat /\ s > 0 /\ overlay.addr % s = 0
    BY <1>1, SizeOf, MaskedIs DEF Deployed, Plan!OverlayOK, Plan!Prefix
  <1>3. q \in Plan!Prefix /\ q.addr = c.addr /\ q.bits = overlay.bits /\ Plan!Size(q) = s
    BY <1>1, <1>2 DEF Plan!Rendered, Accepted, Plan!Prefix, Plan!Size
  <1>4. c.addr \in Nat /\ c.addr \div s = overlay.addr \div s
    BY <1>1, Space DEF Accepted, Plan!UsableAddress, Plan!PrefixContains
  <1>5. c.addr - (c.addr % s) = overlay.addr
    <2>1. c.addr = ((c.addr \div s) * s) + (c.addr % s) /\ c.addr % s \in Nat
          /\ c.addr \div s \in Nat
      BY <1>2, <1>4, DivMod
    <2>2. overlay.addr = ((overlay.addr \div s) * s) + 0
      BY <1>2, DivMod
    <2> HIDE DEF s
    <2> QED
      BY <1>2, <1>4, <2>1, <2>2
  <1>6. Plan!Masked(q) = overlay
    <2>1. Plan!Masked(q) = [addr |-> c.addr - (c.addr % s), bits |-> overlay.bits]
      BY <1>3, MaskedIs
    <2> QED
      BY <1>2, <1>5, <2>1
  <1>7. Plan!PrefixContains(overlay, gateway)
    BY <1>1 DEF Deployed, Plan!UsableAddress
  <1>8. ASSUME NEW r \in c.routes PROVE ~Plan!Overlap(overlay, Plan!Masked(r))
    <2>1. r = Plan!Masked(r) /\ ~Plan!Overlap(r, overlay)
      BY <1>1, <1>8 DEF Accepted, Plan!RoutesOK
    <2> QED
      BY <2>1 DEF Plan!Overlap
  <1> HIDE DEF q
  <1> QED
    BY <1>6, <1>7, <1>8 DEF Plan!LoadClient, q

(* What Init and AddClient accept fits together, for addresses of any width *)
(* and any number of clients, and the client program accepts it too; the    *)
(* files' own list of clients is as distinct as the plan.                   *)
THEOREM PlanFits == ProvisionSpec => []PlanFitsTogether
  <1>1. ProvisionInit => IInv /\ PlanInv
    BY InitIInv DEF ProvisionInit, Plan!Init, PlanInv
  <1>2. [ProvisionNext]_<<part, planVars, vars>> => [Next]_vars /\ [Plan!Next]_planVars
    BY DEF ProvisionNext, Provisions, Planning
  <1>3. IInv /\ PlanInv /\ [ProvisionNext]_<<part, planVars, vars>> => IInv' /\ PlanInv'
    BY <1>2, NextIInv, NextPlan
  <1>4. IInv /\ PlanInv => PlanFitsTogether
    BY PlanSegment, PlanRoom, PlanTunnel, PlanLoads DEF IInv, PlanFitsTogether
  <1> QED
    BY <1>1, <1>3, <1>4, PTL DEF ProvisionSpec
============================================================================
