------------------------------- MODULE Relay -------------------------------
(***************************************************************************)
(* The relay's session life cycle (src/internal/relay/relay.go): every     *)
(* WebSocket request runs one handler (handleWebSocket) which takes a      *)
(* handshake slot, authenticates, registers its peer in the hub and pumps  *)
(* frames until the connection ends; a second goroutine per peer runs      *)
(* writeLoop; and the ListenAndServe loop applies reloads one at a time.   *)
(*                                                                         *)
(* A step of the model is what the code does between two points at which   *)
(* another goroutine can interfere: a critical section of Server.mu or of  *)
(* hub.mu, one channel operation, one peer.stop(), or one read of the      *)
(* connection.  A connection c stands for the handler, its conn and its    *)
(* *peer.  Keys and proofs are abstracted to "the proof verifies or it     *)
(* does not"; frames and send queues are left out here.                    *)
(***************************************************************************)
EXTENDS Naturals, FiniteSets

CONSTANTS
    Conns,                 \* connections (handlers, peers)
    Ids,                   \* client identities
    Macs,                  \* virtual MAC addresses
    None,                  \* Go's nil: no peer, no identity, no address
    Configs,               \* configurations LoadRelay accepts: identity -> address
    MaxPendingHandshakes   \* capacity of Server.authSlots

(***************************************************************************)
(* What config.LoadRelay guarantees: an identity has one address, no two   *)
(* identities share one.  None marks an identity that is not configured.   *)
(***************************************************************************)
IsConfig(f) ==
    /\ f \in [Ids -> Macs \cup {None}]
    /\ \A i, j \in Ids : f[i] = f[j] /\ f[i] # None => i = j

ASSUME ConnsAssumption == IsFiniteSet(Conns)
ASSUME NoneAssumption == None \notin Conns \cup Ids \cup Macs
ASSUME ConfigsAssumption == Configs # {} /\ \A f \in Configs : IsConfig(f)
ASSUME MaxPendingAssumption == MaxPendingHandshakes \in Nat \ {0}

VARIABLES
    clients,    \* Server.clients: the authorized identities and their address
    authSlots,  \* len(Server.authSlots): handshake slots taken
    byID,       \* hub.byID
    byMAC,      \* hub.byMAC
    pc,         \* where the handler of a connection stands
    released,   \* its authSlotReleased
    id,         \* peer.id, from authenticate's look-up
    mac,        \* peer.mac, from the same look-up
    oldByID,    \* local of hub.add
    oldByMAC,   \* local of hub.add
    stopped,    \* peer.done closed and the conn closed (peer.stop ran)
    writer,     \* is the peer's writeLoop running
    reload,     \* where Server.Reload stands
    stale       \* local of hub.retainAuthorized: peers still to be stopped

handlerVars == <<pc, released, id, mac, oldByID, oldByMAC>>
identity    == <<id, mac>>
addLocals   == <<oldByID, oldByMAC>>
peerVars    == <<stopped, writer>>
hubVars     == <<byID, byMAC>>
reloadVars  == <<clients, reload, stale>>
vars == <<clients, authSlots, byID, byMAC, pc, released, id, mac,
          oldByID, oldByMAC, stopped, writer, reload, stale>>

----------------------------------------------------------------------------
(***************************************************************************)
(* The stages of handleWebSocket, in program order.                        *)
(***************************************************************************)
Handshaking == {"upgrade", "hello", "proof"}
Adding      == {"stopID", "stopMAC"}
Registered  == Adding \cup {"recheck", "serving", "leave"}
Stages      == Handshaking \cup Registered
                   \cup {"none", "slot", "add", "stop", "unwind"}

\* The peer's identity is configured with the peer's address: the test of
\* the re-check after hub.add, and of retainAuthorized.  Keys do not count.
Authorized(c) == clients[id[c]] = mac[c]

\* hub.add of d has replaced c in a table and has not yet called c.stop().
Displaces(d, c) ==
    \/ pc[d] = "stopID" /\ oldByID[d] = c
    \/ pc[d] \in Adding /\ oldByMAC[d] = c

Displaced(c) == \E d \in Conns : Displaces(d, c)

\* Nothing refers to c's last peer any more: the name c can stand for a new
\* request.  (In the program every request has a conn and a peer of its own.)
Free(c) ==
    /\ pc[c] = "none"
    /\ ~writer[c]
    /\ c \notin stale
    /\ \A d \in Conns :
          pc[d] \in Adding => oldByID[d] # c /\ oldByMAC[d] # c

(* The type invariant; in particular no more handshakes are pending than    *)
(* Server.authSlots has room for.                                           *)
TypeOK ==
    /\ clients \in Configs
    /\ authSlots \in 0 .. MaxPendingHandshakes
    /\ byID \in [Ids -> Conns \cup {None}]
    /\ byMAC \in [Macs -> Conns \cup {None}]
    /\ pc \in [Conns -> Stages]
    /\ released \in [Conns -> BOOLEAN]
    /\ id \in [Conns -> Ids \cup {None}]
    /\ mac \in [Conns -> Macs \cup {None}]
    /\ oldByID \in [Conns -> Conns \cup {None}]
    /\ oldByMAC \in [Conns -> Conns \cup {None}]
    /\ stopped \in [Conns -> BOOLEAN]
    /\ writer \in [Conns -> BOOLEAN]
    /\ reload \in {"idle", "retain", "stop"}
    /\ stale \subseteq Conns

Init ==
    /\ clients \in Configs
    /\ authSlots = 0
    /\ byID = [i \in Ids |-> None]
    /\ byMAC = [m \in Macs |-> None]
    /\ pc = [c \in Conns |-> "none"]
    /\ released = [c \in Conns |-> FALSE]
    /\ id = [c \in Conns |-> None]
    /\ mac = [c \in Conns |-> None]
    /\ oldByID = [c \in Conns |-> None]
    /\ oldByMAC = [c \in Conns |-> None]
    /\ stopped = [c \in Conns |-> FALSE]
    /\ writer = [c \in Conns |-> FALSE]
    /\ reload = "idle"
    /\ stale = {}

----------------------------------------------------------------------------
(***************************************************************************)
(* The handshake half of handleWebSocket.                                  *)
(***************************************************************************)
GoTo(c, stage) == pc' = [pc EXCEPT ![c] = stage]

AcceptUnbounded(c) ==
    /\ Free(c)
    /\ GoTo(c, "upgrade")
    /\ authSlots' = authSlots + 1
    /\ stopped' = [stopped EXCEPT ![c] = FALSE]
    /\ UNCHANGED <<released, identity, addLocals, writer, hubVars, reloadVars>>

\* A request arrives and takes a handshake slot.  When none is left the
\* request is answered 503 and nothing changes.
Accept(c) ==
    /\ Free(c)
    /\ authSlots < MaxPendingHandshakes
    /\ GoTo(c, "upgrade")
    /\ authSlots' = authSlots + 1
    /\ stopped' = [stopped EXCEPT ![c] = FALSE]
    /\ UNCHANGED <<released, identity, addLocals, writer, hubVars, reloadVars>>

\* The upgrade to a WebSocket succeeds with the wsn-v2 subprotocol.
Upgrade(c) ==
    /\ pc[c] = "upgrade"
    /\ GoTo(c, "hello")
    /\ UNCHANGED <<authSlots, released, identity, addLocals, peerVars,
                   hubVars, reloadVars>>

\* authenticate reads a hello naming i and looks i up: the record it finds
\* (here its address) is what the rest of the handler uses.
Hello(c, i) ==
    /\ pc[c] = "hello"
    /\ clients[i] # None
    /\ id' = [id EXCEPT ![c] = i]
    /\ mac' = [mac EXCEPT ![c] = clients[i]]
    /\ GoTo(c, "proof")
    /\ UNCHANGED <<authSlots, released, addLocals, peerVars, hubVars,
                   reloadVars>>

\* The proof verifies against the record looked up before, and AuthOK is sent.
VerifyProof(c) ==
    /\ pc[c] = "proof"
    /\ GoTo(c, "slot")
    /\ UNCHANGED <<authSlots, released, identity, addLocals, peerVars,
                   hubVars, reloadVars>>

\* The upgrade fails, the subprotocol is wrong, the hello is malformed or
\* names an unknown identity, the proof is wrong, a write fails, or the
\* handshake deadline passes: the conn is closed and the handler returns.
HandshakeFails(c) ==
    /\ pc[c] \in Handshaking
    /\ GoTo(c, "unwind")
    /\ UNCHANGED <<authSlots, released, identity, addLocals, peerVars,
                   hubVars, reloadVars>>

ReleaseSlotUnmarked(c) ==
    /\ pc[c] = "slot"
    /\ authSlots > 0
    /\ authSlots' = authSlots - 1
    /\ GoTo(c, "add")
    /\ UNCHANGED <<released, identity, addLocals, peerVars, hubVars,
                   reloadVars>>

\* An authenticated handler gives its slot back and notes that it did.
ReleaseSlot(c) ==
    /\ pc[c] = "slot"
    /\ authSlots > 0
    /\ authSlots' = authSlots - 1
    /\ released' = [released EXCEPT ![c] = TRUE]
    /\ GoTo(c, "add")
    /\ UNCHANGED <<identity, addLocals, peerVars, hubVars, reloadVars>>

----------------------------------------------------------------------------
(***************************************************************************)
(* hub.add: the tables change under hub.mu, the displaced peers are        *)
(* stopped after it is released.                                           *)
(***************************************************************************)
HubAdd(c) ==
    /\ pc[c] = "add"
    /\ oldByID' = [oldByID EXCEPT ![c] = byID[id[c]]]
    /\ oldByMAC' = [oldByMAC EXCEPT ![c] = byMAC[mac[c]]]
    /\ byID' = [byID EXCEPT ![id[c]] = c]
    /\ byMAC' = [byMAC EXCEPT ![mac[c]] = c]
    /\ GoTo(c, "stopID")
    /\ UNCHANGED <<authSlots, released, identity, peerVars, reloadVars>>

\* peer.stop() of p: its once-only body, nothing when p is nil.
StopPeer(p) == stopped' = [d \in Conns |-> stopped[d] \/ d = p]

HubStopOldByID(c) ==
    /\ pc[c] = "stopID"
    /\ StopPeer(oldByID[c])
    /\ GoTo(c, "stopMAC")
    /\ UNCHANGED <<authSlots, released, identity, addLocals, writer,
                   hubVars, reloadVars>>

HubKeepOldByMAC(c) ==
    /\ pc[c] = "stopMAC"
    /\ GoTo(c, "recheck")
    /\ oldByID' = [oldByID EXCEPT ![c] = None]
    /\ oldByMAC' = [oldByMAC EXCEPT ![c] = None]
    /\ UNCHANGED <<authSlots, released, identity, peerVars, hubVars,
                   reloadVars>>

\* The second stop is skipped when both tables held the same old peer.
HubStopOldByMAC(c) ==
    /\ pc[c] = "stopMAC"
    /\ IF oldByMAC[c] # oldByID[c] THEN StopPeer(oldByMAC[c]) ELSE UNCHANGED stopped
    /\ oldByID' = [oldByID EXCEPT ![c] = None]
    /\ oldByMAC' = [oldByMAC EXCEPT ![c] = None]
    /\ GoTo(c, "recheck")
    /\ UNCHANGED <<authSlots, released, identity, writer, hubVars, reloadVars>>

----------------------------------------------------------------------------
(***************************************************************************)
(* The session half of handleWebSocket.                                    *)
(***************************************************************************)
RecheckSkipped(c) ==
    /\ pc[c] = "recheck"
    /\ GoTo(c, "serving")
    /\ writer' = [writer EXCEPT ![c] = TRUE]
    /\ UNCHANGED <<authSlots, released, identity, addLocals, stopped,
                   hubVars, reloadVars>>

\* The look-up repeated after registration: go on to writeLoop and readLoop,
\* or leave, if a reload revoked the identity or moved its address meanwhile.
Recheck(c) ==
    /\ pc[c] = "recheck"
    /\ IF Authorized(c)
         THEN GoTo(c, "serving") /\ writer' = [writer EXCEPT ![c] = TRUE]
         ELSE GoTo(c, "leave") /\ UNCHANGED writer
    /\ UNCHANGED <<authSlots, released, identity, addLocals, stopped,
                   hubVars, reloadVars>>

\* readLoop returns: the client went away or stayed silent past the idle
\* timeout, its frame was refused, or peer.stop() closed the conn.
ReadFails(c) ==
    /\ pc[c] = "serving"
    /\ GoTo(c, "leave")
    /\ UNCHANGED <<authSlots, released, identity, addLocals, peerVars,
                   hubVars, reloadVars>>

HubRemoveAny(c) ==
    /\ pc[c] = "leave"
    /\ byID' = [byID EXCEPT ![id[c]] = None]
    /\ byMAC' = [byMAC EXCEPT ![mac[c]] = None]
    /\ GoTo(c, "stop")
    /\ UNCHANGED <<authSlots, released, identity, addLocals, peerVars,
                   reloadVars>>

HubRemoveID(c) ==
    /\ pc[c] = "leave"
    /\ byID' = [i \in Ids |-> IF byID[i] = c THEN None ELSE byID[i]]
    /\ GoTo(c, "stop")
    /\ UNCHANGED <<authSlots, released, identity, addLocals, peerVars,
                   byMAC, reloadVars>>

\* hub.remove: an entry goes only if it is still this peer's.
HubRemove(c) ==
    /\ pc[c] = "leave"
    /\ byID' = [byID EXCEPT ![id[c]] = IF @ = c THEN None ELSE @]
    /\ byMAC' = [byMAC EXCEPT ![mac[c]] = IF @ = c THEN None ELSE @]
    /\ GoTo(c, "stop")
    /\ UNCHANGED <<authSlots, released, identity, addLocals, peerVars,
                   reloadVars>>

\* The handler stops its own peer (which also ends its writeLoop).
StopSelf(c) ==
    /\ pc[c] = "stop"
    /\ StopPeer(c)
    /\ GoTo(c, "unwind")
    /\ UNCHANGED <<authSlots, released, identity, addLocals, writer,
                   hubVars, reloadVars>>

\* The handler has returned: its local variables are gone.
EndHandler(c) ==
    /\ GoTo(c, "none")
    /\ released' = [released EXCEPT ![c] = FALSE]
    /\ id' = [id EXCEPT ![c] = None]
    /\ mac' = [mac EXCEPT ![c] = None]

UnwindKeepsSlot(c) ==
    /\ pc[c] = "unwind"
    /\ EndHandler(c)
    /\ UNCHANGED <<authSlots, addLocals, peerVars, hubVars, reloadVars>>

\* The deferred function: give the slot back unless that was done.
Unwind(c) ==
    /\ pc[c] = "unwind"
    /\ IF released[c] THEN UNCHANGED authSlots
                      ELSE authSlots > 0 /\ authSlots' = authSlots - 1
    /\ EndHandler(c)
    /\ UNCHANGED <<addLocals, peerVars, hubVars, reloadVars>>

----------------------------------------------------------------------------
(***************************************************************************)
(* writeLoop, as far as it takes part in the session's end.                *)
(***************************************************************************)

\* A frame or a ping cannot be written: stop the peer and return.
WriterFails(c) ==
    /\ writer[c]
    /\ StopPeer(c)
    /\ writer' = [writer EXCEPT ![c] = FALSE]
    /\ UNCHANGED <<authSlots, handlerVars, hubVars, reloadVars>>

WriterDeaf(c) == FALSE /\ UNCHANGED vars

\* writeLoop sees peer.done closed and returns.
WriterDone(c) ==
    /\ writer[c]
    /\ stopped[c]
    /\ writer' = [writer EXCEPT ![c] = FALSE]
    /\ UNCHANGED <<authSlots, stopped, handlerVars, hubVars, reloadVars>>

----------------------------------------------------------------------------
(***************************************************************************)
(* Server.Reload.  ListenAndServe runs one at a time.                      *)
(***************************************************************************)
SwapClientsAnyTime(cfg) ==
    /\ clients' = cfg
    /\ reload' = "retain"
    /\ UNCHANGED <<authSlots, handlerVars, hubVars, peerVars, stale>>

SwapClients(cfg) ==
    /\ reload = "idle"
    /\ clients' = cfg
    /\ reload' = "retain"
    /\ UNCHANGED <<authSlots, handlerVars, hubVars, peerVars, stale>>

RetainKnown ==
    /\ reload = "retain"
    /\ stale' = {byID[i] : i \in {j \in Ids : byID[j] # None /\ clients[j] = None}}
    /\ reload' = "stop"
    /\ UNCHANGED <<authSlots, handlerVars, hubVars, peerVars, clients>>

\* retainAuthorized scans byID under hub.mu ...
RetainAuthorized ==
    /\ reload = "retain"
    /\ stale' = {byID[i] : i \in {j \in Ids :
                     byID[j] # None /\ clients[j] # mac[byID[j]]}}
    /\ reload' = "stop"
    /\ UNCHANGED <<authSlots, handlerVars, hubVars, peerVars, clients>>

\* ... and stops what it found after releasing it.
StopStale(c) ==
    /\ reload = "stop"
    /\ c \in stale
    /\ StopPeer(c)
    /\ stale' = stale \ {c}
    /\ UNCHANGED <<authSlots, handlerVars, hubVars, writer, clients, reload>>

ReloadDone ==
    /\ reload = "stop"
    /\ stale = {}
    /\ reload' = "idle"
    /\ UNCHANGED <<authSlots, handlerVars, hubVars, peerVars, clients, stale>>

----------------------------------------------------------------------------
\* What the handler of c does by itself, whatever its client does: each wait
\* in it is bounded by the handshake deadline.
HandlerStep(c) ==
    \/ Upgrade(c) \/ (\E i \in Ids : Hello(c, i)) \/ VerifyProof(c)
    \/ HandshakeFails(c)
    \/ ReleaseSlot(c) \/ HubAdd(c) \/ HubStopOldByID(c) \/ HubStopOldByMAC(c)
    \/ Recheck(c) \/ HubRemove(c) \/ StopSelf(c) \/ Unwind(c)

ReloadStep == RetainAuthorized \/ (\E c \in Conns : StopStale(c)) \/ ReloadDone

Next ==
    \/ \E c \in Conns :
          Accept(c) \/ HandlerStep(c) \/ ReadFails(c)
             \/ WriterFails(c) \/ WriterDone(c)
    \/ \E cfg \in Configs : SwapClients(cfg)
    \/ ReloadStep

Spec == Init /\ [][Next]_vars

\* The Go scheduler runs every goroutine that is ready; handshake reads have
\* a deadline; a read of a closed conn returns.  Nothing makes a healthy
\* session end, a client connect, a write fail or a reload arrive.
Fairness ==
    /\ \A c \in Conns :
          /\ WF_vars(HandlerStep(c))
          /\ WF_vars(stopped[c] /\ ReadFails(c))
          /\ WF_vars(WriterDone(c))
    /\ WF_vars(ReloadStep)

FairSpec == Spec /\ Fairness

----------------------------------------------------------------------------
(***************************************************************************)
(* Properties.                                                             *)
(***************************************************************************)
Holding == {c \in Conns : pc[c] # "none" /\ ~released[c]}

(* Every slot of authSlots is owed by exactly one handler, through every    *)
(* early return and the deferred release of handleWebSocket: none leaks and *)
(* none is given back twice.                                                *)
AuthSlotsExact == authSlots = Cardinality(Holding)

(* hub.byID and hub.byMAC only ever refer to a peer whose handler has still *)
(* to run hub.remove, filed under that peer's own identity and address.     *)
NoGhostPeers ==
    /\ \A i \in Ids : byID[i] # None =>
          pc[byID[i]] \in Registered /\ id[byID[i]] = i
    /\ \A m \in Macs : byMAC[m] # None =>
          pc[byMAC[m]] \in Registered /\ mac[byMAC[m]] = m

(* A registered peer that nobody has stopped is reachable through both      *)
(* tables of the hub, however hub.add, hub.remove and reloads interleave;   *)
(* the only exception is a peer that some hub.add is about to stop.         *)
ReachableUnlessDisplaced ==
    \A c \in Conns :
        pc[c] \in Registered /\ ~stopped[c] =>
            \/ byID[id[c]] = c /\ byMAC[mac[c]] = c
            \/ Displaced(c)

(* Two sessions that are both being served and neither stopped share no     *)
(* identity and no address, except while hub.add is stopping one of them.   *)
OneSessionPerIdentity ==
    \A c, d \in Conns :
        /\ c # d
        /\ pc[c] = "serving" /\ ~stopped[c] /\ ~Displaced(c)
        /\ pc[d] = "serving" /\ ~stopped[d] /\ ~Displaced(d)
        => id[c] # id[d] /\ mac[c] # mac[d]

(* Once Reload has returned, no session of a revoked identity or of a moved *)
(* address goes on: whatever it was doing when the reload came, it is       *)
(* stopped, about to be stopped by a hub.add, or not past its re-check.     *)
RevocationTakesEffect ==
    reload = "idle" =>
        \A c \in Conns :
            pc[c] = "serving" /\ ~stopped[c] => Authorized(c) \/ Displaced(c)

(* Reload stops no session that the configuration it applies authorizes,    *)
(* though the peers it stops were picked before it let go of hub.mu.        *)
ReloadSparesAuthorized ==
    [][\A c \in Conns : c \in stale /\ stopped'[c] /\ ~stopped[c] => ~Authorized(c)]_vars

(* ListenAndServe: a reload does not interrupt "sessions that remain        *)
(* authorized".  hub.add stops an authorized session that is being served   *)
(* only on behalf of a peer that is authorized itself.                      *)
DisplacedByAuthorizedOnly ==
    \A c, d \in Conns :
        /\ Displaces(d, c)
        /\ pc[c] = "serving" /\ ~stopped[c] /\ Authorized(c)
        => Authorized(d)

(* A relay that refuses handshakes because every slot is taken does not do  *)
(* so for ever.                                                             *)
HandshakeSlotsReturn ==
    authSlots = MaxPendingHandshakes ~> authSlots < MaxPendingHandshakes

(* A stopped peer leaves nothing behind: its handler returns and its        *)
(* writeLoop exits, whoever stopped it and wherever they were.              *)
StoppedPeerGoes ==
    \A c \in Conns : stopped[c] ~> (pc[c] = "none" /\ ~writer[c])
============================================================================
