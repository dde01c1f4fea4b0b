---------------------------- MODULE AddressPlan -----------------------------
(***************************************************************************)
(* The network plan of a deployment: what provision.Init accepts as the     *)
(* overlay, the gateway's address and the DNS server, what AddClient        *)
(* accepts as a client's address and routes, and what the client's          *)
(* LoadClient (src/internal/config) then says about the client.json that    *)
(* renderBundle makes of it.  Refused arguments change nothing.             *)
(***************************************************************************)
EXTENDS Prefixes

CONSTANTS
    MaxClients,   \* bound: clients of the deployment
    None

VARIABLES
    overlay,   \* state.Overlay, None before Init
    gateway,   \* state.Gateway
    dns,       \* state.DNS, None if there is none
    clients    \* the clients: role, address and routes

vars == <<overlay, gateway, dns, clients>>

Client == [role : {"client", "gateway"}, addr : AddressSpace,
           routes : SUBSET Canonical]

(* The type invariant. *)
TypeOK ==
    /\ overlay \in Canonical \cup {None}
    /\ gateway \in AddressSpace \cup {None}
    /\ dns \in AddressSpace \cup {None}
    /\ \A c \in clients : c \in Client

Init ==
    /\ overlay = None /\ gateway = None /\ dns = None
    /\ clients = {}

----------------------------------------------------------------------------
\* provision.Init: a canonical overlay with room for two addresses.
OverlayOK(p) == p = Masked(p) /\ p.bits <= Width - 2

ResolverAnywhere(d, p) == TRUE

\* normalizeResolver: no DNS server, or one outside the overlay.
ResolverOK(d, p) == d # None => ~PrefixContains(p, d)

Deploy ==
    /\ overlay = None
    /\ \E p \in Prefix, g \in AddressSpace, d \in AddressSpace \cup {None} :
          /\ OverlayOK(p)
          /\ UsableAddress(p, g)
          /\ ResolverOK(d, p)
          /\ overlay' = p /\ gateway' = g /\ dns' = d
    /\ UNCHANGED clients

\* normalizeRoutes: canonical prefixes outside the overlay.
RoutesOK(R) == \A r \in R : r = Masked(r) /\ ~Overlap(r, overlay)

ReachesAnyResolver(role, R) == TRUE

\* AddClient: the DNS server is inside a route of a client that will use it.
ReachesResolver(role, R) ==
    dns # None /\ role # "gateway" => \E r \in R : PrefixContains(r, dns)

AdmitsTaken(role, a) == UsableAddress(overlay, a)

\* AddClient: the address is usable and free, and it is the gateway's address
\* if and only if the client is the gateway.
Admits(role, a) ==
    /\ UsableAddress(overlay, a)
    /\ \A c \in clients : c.addr # a
    /\ role = "gateway" => \A c \in clients : c.role # "gateway"
    /\ role = "gateway" <=> a = gateway

AddClient(role, a, R) ==
    /\ overlay # None
    /\ Admits(role, a)
    /\ RoutesOK(R)
    /\ role = "gateway" => R # {}
    /\ ReachesResolver(role, R)
    /\ clients' = clients \cup {[role |-> role, addr |-> a, routes |-> R]}
    /\ UNCHANGED <<overlay, gateway, dns>>

\* RevokeClient: the address is free again.
RevokeClient(c) ==
    /\ clients' = clients \ {c}
    /\ UNCHANGED <<overlay, gateway, dns>>

Next ==
    \/ Deploy
    \/ /\ Cardinality(clients) < MaxClients
       /\ \E role \in {"client", "gateway"}, a \in AddressSpace,
             R \in RouteSets : AddClient(role, a, R)
    \/ \E c \in clients : RevokeClient(c)

Spec == Init /\ [][Next]_vars

----------------------------------------------------------------------------
\* renderBundle: the client's address with the overlay's bits.
Rendered(c) == [addr |-> c.addr, bits |-> overlay.bits]

\* The addresses of the overlay that are neither its first nor its last.
Inside ==
    LET members == Members(overlay)
    IN {a \in members : (\E lo \in members : lo < a) /\ (\E hi \in members : a < hi)}

(* "overlay must be a canonical IPv4 prefix with at least two usable        *)
(* addresses": what Init accepted has room for its gateway and a client,    *)
(* and no free address is a dead end: AddClient accepts a client there with *)
(* some routes, the DNS server that Init accepted included.                 *)
RoomToGrow ==
    overlay # None =>
        LET free == {a \in Inside \ {gateway} : \A c \in clients : c.addr # a} IN
        /\ gateway \in Inside
        /\ clients = {} => free # {}
        /\ \A a \in free : Admits("client", a)
        /\ \E R \in {{}} \cup {{r} : r \in Prefix} :
              RoutesOK(R) /\ ReachesResolver("client", R)

(* Every client.json of a provisioned client is one LoadClient accepts on   *)
(* the client's machine: the two sets of checks, in two programs, agree.    *)
BundleLoads ==
    \A c \in clients : LoadClient(Rendered(c), gateway, c.routes)

(* What a client sends to an address goes one way only: to another member   *)
(* of the overlay or through a route to the gateway, never either; and the  *)
(* client's own DNS server is reached through the tunnel.                   *)
TunnelUnambiguous ==
    \A c \in clients :
        LET routed == UNION {Members(r) : r \in c.routes} IN
        /\ routed \cap Members(overlay) = {}
        /\ dns # None /\ c.role = "client" => dns \in routed

(* All clients sit on the one segment: their addresses are distinct, no one *)
(* has the network's or the broadcast address, and the address every route  *)
(* goes through is nobody's but the gateway's.                              *)
SegmentConsistent ==
    \A c \in clients :
        /\ \A d \in clients : c.addr = d.addr => c = d
        /\ c.addr \in Inside
        /\ c.addr = gateway <=> c.role = "gateway"
============================================================================
