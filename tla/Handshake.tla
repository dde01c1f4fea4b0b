----------------------------- MODULE Handshake ------------------------------
(***************************************************************************)
(* The wsn-v2 handshake: the messages of src/internal/protocol, the         *)
(* client's authenticate (internal/client) and the relay's (internal/relay) *)
(* over one WebSocket connection.  The other program on the connection is   *)
(* a client with some configuration, whose key, identity and address may    *)
(* be those of the relay's list or not (a bundle that is out of date), or   *)
(* it is not a wsn client at all and says whatever it says.                 *)
(*                                                                          *)
(* Bytes are numbers; a hello is built and taken apart byte by byte, since  *)
(* that is what the properties are about.  HMAC is an injective pairing of  *)
(* key and input.  The lengths of the code are parameters.                  *)
(***************************************************************************)
EXTENDS Naturals, Sequences

CONSTANTS
    Version,            \* protocol.Version
    MaxClientIDSize,    \* protocol.MaxClientIDSize
    ChallengeSize,      \* protocol.ChallengeSize
    MACSize,            \* the length of a hardware address
    Clients,            \* configurations a client may have: id, key and mac
    Lists,              \* client lists the relay may have: sets of the same
    Challenges,         \* what rand.Read may return
    Messages,           \* what a program that is no wsn client may send
    None

Byte == 0 .. 255

ASSUME SizesAssumption ==
    /\ Version \in Byte
    /\ MaxClientIDSize \in Nat \ {0} /\ MaxClientIDSize < 256 * 256
    /\ ChallengeSize \in Nat /\ MACSize \in Nat
ASSUME ClientsAssumption ==
    \A c \in Clients : /\ c.id \in Seq(Byte) /\ c.mac \in Seq(Byte)
                       /\ c = [id |-> c.id, key |-> c.key, mac |-> c.mac]
ASSUME ListsAssumption ==
    /\ Lists \subseteq SUBSET Clients
    /\ \A L \in Lists : \A c, d \in L : c.id = d.id => c = d
ASSUME ChallengesAssumption == Challenges \subseteq Seq(Byte)
ASSUME NoneAssumption == None \notin Clients /\ None \notin Seq(Byte)

VARIABLES
    client,      \* the configuration of the client, None if it is no client
    list,        \* the relay's authorized clients
    cpc, rpc,    \* the next step of the two authenticate functions
    toRelay, toClient,   \* messages under way: is it binary, and its bytes
    challenge,   \* the relay's challenge, None before it is chosen
    found        \* what the relay's look-up returned

vars == <<client, list, cpc, rpc, toRelay, toClient, challenge, found>>

Bin(bytes) == [binary |-> TRUE, bytes |-> bytes]
AuthOK     == Bin(<<0>>)
AuthFailed == Bin(<<1>>)

----------------------------------------------------------------------------
(***************************************************************************)
(* protocol.go                                                             *)
(***************************************************************************)
BigEndian16(n) == <<n \div 256, n % 256>>

\* MarshalHello; None stands for its error.
MarshalHello(id) ==
    IF Len(id) \in 1 .. MaxClientIDSize
      THEN <<Version>> \o BigEndian16(Len(id)) \o id
      ELSE None

ParseHelloLoose(message) ==
    IF Len(message) < 3 \/ message[1] # Version THEN None ELSE
    LET size == 256 * message[2] + message[3] IN
    IF size < 1 \/ size > MaxClientIDSize \/ Len(message) < size + 3
      THEN None ELSE SubSeq(message, 4, size + 3)

\* ParseHello; None stands for its errors.
ParseHello(message) ==
    IF Len(message) < 3 \/ message[1] # Version THEN None ELSE
    LET size == 256 * message[2] + message[3] IN
    IF size < 1 \/ size > MaxClientIDSize \/ Len(message) # size + 3
      THEN None ELSE SubSeq(message, 4, Len(message))

ProofWithoutChallenge(key, chal, id, mac) ==
    IF Len(chal) # ChallengeSize \/ Len(mac) # MACSize THEN None
    ELSE <<key, id \o <<0>> \o mac>>

\* Proof: HMAC over the identity, a zero byte, the challenge and the address.
Proof(key, chal, id, mac) ==
    IF Len(chal) # ChallengeSize \/ Len(mac) # MACSize THEN None
    ELSE <<key, id \o <<0>> \o chal \o mac>>

VerifyProof(key, chal, id, mac, proof) ==
    LET expected == Proof(key, chal, id, mac) IN
    expected # None /\ expected = proof

\* What a program without the keys can send: bytes, or a MAC that is right for
\* no listed client and no challenge drawn in this handshake.
ASSUME MessagesAssumption ==
    \A m \in Messages :
        /\ m.bytes \in Seq(Byte) \/ Len(m.bytes) = 2
        /\ \A L \in Lists : \A c \in L : \A chal \in Challenges :
              ~VerifyProof(c.key, chal, c.id, c.mac, m.bytes)

----------------------------------------------------------------------------
Done == {"connected", "failed"}

(* The type invariant. *)
TypeOK ==
    /\ client \in Clients \cup {None}
    /\ list \in Lists
    /\ cpc \in {"hello", "challenge", "result"} \cup Done
    /\ rpc \in {"hello", "proof"} \cup Done
    /\ Len(toRelay) <= 2 /\ Len(toClient) <= 2
    /\ challenge \in Challenges \cup {None}
    /\ found \in Clients \cup {None}

Init ==
    /\ client \in Clients \cup {None}
    /\ list \in Lists
    /\ cpc = "hello" /\ rpc = "hello"
    /\ toRelay = <<>> /\ toClient = <<>>
    /\ challenge = None /\ found = None

(***************************************************************************)
(* The client's authenticate.                                              *)
(***************************************************************************)
ClientFails ==
    /\ cpc' = "failed"
    /\ UNCHANGED <<client, list, rpc, toRelay, toClient, challenge, found>>

ClientHello ==
    /\ client # None /\ cpc = "hello"
    /\ LET hello == MarshalHello(client.id) IN
         IF hello = None THEN ClientFails ELSE
           /\ toRelay' = Append(toRelay, Bin(hello))
           /\ cpc' = "challenge"
           /\ UNCHANGED <<client, list, rpc, toClient, challenge, found>>

ClientChallenge ==
    /\ client # None /\ cpc = "challenge" /\ toClient # <<>>
    /\ LET message == Head(toClient)
           proof   == Proof(client.key, message.bytes, client.id, client.mac) IN
         IF ~message.binary \/ proof = None THEN ClientFails ELSE
           /\ toRelay' = Append(toRelay, Bin(proof))
           /\ toClient' = Tail(toClient)
           /\ cpc' = "result"
           /\ UNCHANGED <<client, list, rpc, challenge, found>>

ClientAnyResult ==
    /\ client # None /\ cpc = "result" /\ toClient # <<>>
    /\ cpc' = "connected"
    /\ toClient' = Tail(toClient)
    /\ UNCHANGED <<client, list, rpc, toRelay, challenge, found>>

ClientResult ==
    /\ client # None /\ cpc = "result" /\ toClient # <<>>
    /\ IF Head(toClient) # AuthOK THEN ClientFails ELSE
         /\ cpc' = "connected"
         /\ toClient' = Tail(toClient)
         /\ UNCHANGED <<client, list, rpc, toRelay, challenge, found>>

\* A write fails, or the read deadline passes, or the relay has closed.
ClientTimeout ==
    /\ client # None /\ cpc \notin Done
    /\ ClientFails

----------------------------------------------------------------------------
(***************************************************************************)
(* The relay's authenticate.                                               *)
(***************************************************************************)
RelayFails(answer) ==
    /\ rpc' = "failed"
    /\ toClient' = toClient \o answer
    /\ UNCHANGED <<client, list, cpc, toRelay, challenge, found>>

RelayHello ==
    /\ rpc = "hello" /\ toRelay # <<>>
    /\ LET message == Head(toRelay)
           id      == ParseHello(message.bytes)
           entries == {c \in list : c.id = id} IN
         IF ~message.binary \/ id = None \/ entries = {} THEN RelayFails(<<>>) ELSE
           /\ found' \in entries
           /\ \E chal \in Challenges :
                 challenge' = chal /\ toClient' = Append(toClient, Bin(chal))
           /\ toRelay' = Tail(toRelay)
           /\ rpc' = "proof"
           /\ UNCHANGED <<client, list, cpc>>

RelayProof ==
    /\ rpc = "proof" /\ toRelay # <<>>
    /\ LET message == Head(toRelay) IN
         IF ~message.binary \/ ~VerifyProof(found.key, challenge, found.id,
                                            found.mac, message.bytes)
           THEN RelayFails(<<AuthFailed>>) ELSE
           /\ toClient' = Append(toClient, AuthOK)
           /\ toRelay' = Tail(toRelay)
           /\ rpc' = "connected"
           /\ UNCHANGED <<client, list, cpc, challenge, found>>

\* The handshake deadline passes, or the other end has closed.
RelayTimeout ==
    /\ rpc \notin Done
    /\ RelayFails(IF rpc = "proof" THEN <<AuthFailed>> ELSE <<>>)

\* A program that is no wsn client sends something.
OtherSends ==
    /\ client = None /\ rpc \notin Done
    /\ toRelay = <<>>
    /\ \E message \in Messages : toRelay' = <<message>>
    /\ UNCHANGED <<client, list, cpc, rpc, toClient, challenge, found>>

ClientStep == ClientHello \/ ClientChallenge \/ ClientResult \/ ClientTimeout
RelayStep  == RelayHello \/ RelayProof \/ RelayTimeout

Next == ClientStep \/ RelayStep \/ OtherSends

Spec == Init /\ [][Next]_vars

----------------------------------------------------------------------------
(***************************************************************************)
(* Properties.                                                             *)
(***************************************************************************)

(* A relay that has accepted a proof talks to a client whose configuration  *)
(* is the one in its list under that identity, the key and the address      *)
(* included: the source-address check of readLoop will pass for the frames  *)
(* tapToWebSocket lets through, also for a bundle that is out of date.      *)
RelayKnowsClient ==
    rpc = "connected" => client = found /\ found \in list

(* A client that believes it is connected is: the relay has accepted it     *)
(* under the client's own identity and address.                             *)
ClientKnowsRelay ==
    cpc = "connected" => rpc = "connected" /\ found = client

(* ParseHello reads back what MarshalHello wrote, and nothing else: the     *)
(* hello the relay accepted is the only one for that identity, whatever     *)
(* bytes were sent.                                                         *)
HelloExact ==
    rpc = "hello" /\ toRelay # <<>> =>
        LET id == ParseHello(Head(toRelay).bytes) IN
        /\ id # None => MarshalHello(id) = Head(toRelay).bytes
        /\ client # None => id = client.id
============================================================================
