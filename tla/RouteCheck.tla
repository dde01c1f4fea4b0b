----------------------------- MODULE RouteCheck -----------------------------
(***************************************************************************)
(* The route check of src/internal/netcheck (wsn-client -check-network):    *)
(* systemRoutes reads /proc/net/route line by line, then clientWithRoutes   *)
(* or gatewayWithRoutes compares each route with the networks of            *)
(* client.json.  A line carries the destination and the mask as hexadecimal *)
(* words in the byte order of a little-endian machine; a word here is two   *)
(* bytes of Width \div 2 bits.                                              *)
(***************************************************************************)
EXTENDS Prefixes, Sequences

CONSTANT MaxLines   \* bound: lines of /proc/net/route

Interfaces == {"device", "egress", "other"}
Verdicts   == {"reading", "ok", "conflict", "failed"}
SystemRoute == [prefix : Canonical, dev : Interfaces]

VARIABLES
    role,      \* "client" or "gateway": which check runs
    address,   \* cfg.Address
    routes,    \* cfg.Routes
    table,     \* the kernel's routes, as the lines scanned so far state them
    read,      \* the result of systemRoutes so far
    lines,     \* lines scanned
    verdict

vars == <<role, address, routes, table, read, lines, verdict>>
config == <<role, address, routes>>

(* The type invariant. *)
TypeOK ==
    /\ role \in {"client", "gateway"}
    /\ address \in Prefix
    /\ routes \subseteq Prefix
    /\ table \subseteq SystemRoute /\ read \subseteq SystemRoute
    /\ lines \in 0 .. MaxLines
    /\ verdict \in Verdicts

\* Any networks LoadClient accepts; it does not ask for canonical routes.
Init ==
    /\ role \in {"client", "gateway"}
    /\ address \in {p \in Prefix : p.bits > 0 /\ p.bits <= Width - 2}
    /\ \E R \in RouteSets :
          LoadClient(address, address.addr, R) /\ routes = R
    /\ table = {} /\ read = {} /\ lines = 0
    /\ verdict = "reading"

----------------------------------------------------------------------------
Byte == Pow2[Width \div 2]

\* binary.LittleEndian.PutUint32: the bytes of a word, least significant first.
PutUint(word) == <<word % Byte, word \div Byte>>
FromBytes(b)  == b[1] * Byte + b[2]

\* The bits of a byte, from the highest to the lowest.
BitsOf(byte) == [i \in 1 .. Width \div 2 |->
                    (byte \div Pow2[Width \div 2 - i]) % 2 = 1]

NetMaskBitsLoose(mask) ==
    Cardinality({i \in 1 .. Width : (BitsOf(mask[1]) \o BitsOf(mask[2]))[i]})

\* One turn of the loop of netMaskBits, with its next bit; -1 is its return.
CountBit(acc, set) ==
    IF acc.bits < 0 THEN acc
    ELSE IF acc.zeroSeen /\ set THEN [bits |-> -1, zeroSeen |-> TRUE]
    ELSE IF set THEN [bits |-> acc.bits + 1, zeroSeen |-> FALSE]
    ELSE [bits |-> acc.bits, zeroSeen |-> TRUE]

\* netMaskBits: the leading ones, -1 if a one follows a zero.
NetMaskBits(mask) ==
    LET set == BitsOf(mask[1]) \o BitsOf(mask[2])
        after[i \in 0 .. Width] ==
            IF i = 0 THEN [bits |-> 0, zeroSeen |-> FALSE]
                     ELSE CountBit(after[i - 1], set[i])
    IN after[Width].bits

\* One line of the loop of systemRoutes.
Parse(destination, mask, dev) ==
    LET bits == NetMaskBits(PutUint(mask))
    IN IF bits < 0 THEN {}
       ELSE {[prefix |-> Masked([addr |-> FromBytes(PutUint(destination)),
                                 bits |-> bits]),
              dev |-> dev]}

\* The routes a line stands for, by their definition: the network order word
\* is the line's with its bytes exchanged, and a mask is ones before zeros.
Meaning(destination, mask, dev) ==
    LET Swap(word) == (word % Byte) * Byte + word \div Byte
    IN {[prefix |-> Masked([addr |-> Swap(destination), bits |-> n]),
         dev |-> dev] :
           n \in {k \in 0 .. Width : Swap(mask) = Pow2[Width] - Pow2[Width - k]}}

Scan(destination, mask, dev) ==
    /\ verdict = "reading"
    /\ read' = read \cup Parse(destination, mask, dev)
    /\ table' = table \cup Meaning(destination, mask, dev)
    /\ UNCHANGED verdict

\* A line with fewer than eight fields, or with a field that is no number.
ScanGarbled ==
    /\ verdict = "reading"
    /\ UNCHANGED <<read, table, verdict>>

\* /proc/net/route cannot be opened, or not be read to its end: the check
\* reports that and compares nothing.
ReadFails ==
    /\ verdict = "reading"
    /\ verdict' = "failed"
    /\ UNCHANGED <<read, table>>

Conflicts(targets, ignored) ==
    \E t \in targets, e \in read :
        /\ e.prefix.bits # 0
        /\ e.dev \notin ignored
        /\ Overlap(t, e.prefix)

\* clientWithRoutes
ClientConflict ==
    Conflicts({Masked(address)} \cup {Masked(r) : r \in routes}, {"device"})

\* gatewayWithRoutes: corporate destinations may lie behind the egress.
GatewayConflict ==
    \/ Conflicts({Masked(address)}, {"device"})
    \/ Conflicts(routes, {"device", "egress"})

Check ==
    /\ verdict = "reading"
    /\ verdict' = IF IF role = "client" THEN ClientConflict ELSE GatewayConflict
                  THEN "conflict" ELSE "ok"
    /\ UNCHANGED <<read, table>>

Word == AddressSpace

Next ==
    \/ /\ lines < MaxLines
       /\ lines' = lines + 1
       /\ \/ \E destination \in Word, mask \in Word, dev \in Interfaces :
                Scan(destination, mask, dev)
          \/ ScanGarbled
       /\ UNCHANGED config
    \/ (ReadFails \/ Check) /\ UNCHANGED <<config, lines>>

Spec == Init /\ [][Next]_vars

----------------------------------------------------------------------------
\* The addresses of a set of prefixes.
Covered(P) == UNION {Members(p) : p \in P}

\* The system's routes through other interfaces than these, default ones aside.
Elsewhere(ignored) ==
    {e.prefix : e \in {r \in table : r.prefix.bits # 0 /\ r.dev \notin ignored}}

(* A check that could read the routes refuses the configuration exactly     *)
(* when an address the tunnel would take is one the host already reaches    *)
(* another way: by a route of another interface or, for the corporate       *)
(* destinations of a gateway, of another interface than the egress.  Byte   *)
(* order, masks, default routes and prefixes that are not canonical         *)
(* included.                                                                *)
CheckExact ==
    LET overlaid == Covered({address})
        routed   == Covered(routes)
        taken    == Covered(Elsewhere({"device"}))
        takenOut == Covered(Elsewhere({"device", "egress"}))
        clash == \/ overlaid \cap taken # {}
                 \/ routed \cap (IF role = "client" THEN taken ELSE takenOut) # {}
    IN verdict \in {"ok", "conflict"} => (verdict = "conflict" <=> clash)
=============================================================================
