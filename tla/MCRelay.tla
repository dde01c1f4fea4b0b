------------------------------ MODULE MCRelay ------------------------------
(***************************************************************************)
(* Instances of Relay for TLC: two identities and two addresses, and       *)
(* configurations that revoke an identity, authorize it again, and give    *)
(* its address to another one.                                             *)
(***************************************************************************)
EXTENDS RelayRefinement, TLC

CONSTANTS a, b, m1, m2

\* Moving from Both to Moved revokes b and gives b's address to a.
Both    == (a :> m1) @@ (b :> m2)
Moved   == (a :> m2) @@ (b :> None)

MCIds     == {a, b}
MCMacs    == {m1, m2}
MCConfigs == {Both, Moved}

\* An identity that is removed and enrolled again with another address.
Reenrolled == {(a :> m1) @@ (b :> None), (a :> m2) @@ (b :> None)}

\* Connections have no identity of their own until they say hello.
ConnSymmetry == Permutations(Conns)
============================================================================
