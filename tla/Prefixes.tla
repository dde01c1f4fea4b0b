------------------------------ MODULE Prefixes ------------------------------
(***************************************************************************)
(* The IPv4 arithmetic of provisioning, configuration and the route check, *)
(* on addresses of Width bits.  A prefix is an address and a number of     *)
(* leading bits, as in net/netip; it need not be canonical.  LoadClient is *)
(* what the client program says about the networks of a client.json.       *)
(***************************************************************************)
EXTENDS Integers, FiniteSets, Powers

CONSTANTS
    Width,
    RouteSets   \* the sets of routes that are given as arguments or configured

WidthAssumption == Width \in Nat /\ Width % 2 = 0 /\ Width > 2

AddressSpace == 0 .. Pow2[Width] - 1
Prefix       == [addr : AddressSpace, bits : 0 .. Width]

RoutesAssumption == RouteSets \subseteq SUBSET Prefix

\* The number of addresses under a prefix.
Size(p) == Pow2[Width - p.bits]

Masked(p) == [p EXCEPT !.addr = @ - (@ % Size(p))]
Canonical == {p \in Prefix : p = Masked(p)}
PrefixContains(p, a) ==
    LET size == Size(p) IN a \div size = p.addr \div size

\* What a prefix stands for.
Members(p) == {a \in AddressSpace : PrefixContains(p, a)}

OverlapOneWay(a, b) == PrefixContains(a, b.addr)

\* prefixesOverlap of provision.go and config.go, overlap of netcheck_linux.go.
Overlap(a, b) == PrefixContains(a, b.addr) \/ PrefixContains(b, a.addr)

\* usableAddress: neither the network's own address nor its broadcast.
UsableAddress(p, a) ==
    LET broadcast == Masked(p).addr + Size(p) - 1 IN
    PrefixContains(p, a) /\ a # p.addr /\ a # broadcast

\* LoadClient on the address, gateway and routes of a client.json.
LoadClient(address, gw, R) ==
    /\ PrefixContains(Masked(address), gw)
    /\ \A r \in R : ~Overlap(Masked(address), Masked(r))
============================================================================
