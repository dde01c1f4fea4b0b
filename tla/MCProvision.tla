---------------------------- MODULE MCProvision ----------------------------
(***************************************************************************)
(* The two sides of provisioning, for TLC: the files of a deployment       *)
(* (Provision) for two identities that nothing tells apart, and its         *)
(* addresses (AddressPlan) of Width bits.  Provision's commands get         *)
(* arguments that AddressPlan's checks accept, and the two share no other   *)
(* state; a behaviour moves one of them.                                    *)
(***************************************************************************)
EXTENDS Provision, TLC

CONSTANTS Width, RouteSets, MaxClients, None
VARIABLES overlay, gateway, dns, clients
Plan == INSTANCE AddressPlan

\* At most one route for each client, canonical or one address off.
MCRouteSets ==
    LET routes == {r \in [addr : 0 .. 2 ^ Width - 1, bits : 0 .. Width] :
                      r.addr % 2 ^ (Width - r.bits) \in {0, 1}}
    IN {{}} \cup {{r} : r \in routes}

VARIABLE part   \* the side that moves

ASSUME PlanAssumption == Plan!WidthAssumption /\ Plan!RoutesAssumption

planVars == <<overlay, gateway, dns, clients>>

ProvisionInit == part \in {"files", "plan"} /\ Init /\ Plan!Init

Provisions == part = "files" /\ Next /\ UNCHANGED <<part, planVars>>
Planning   == part = "plan" /\ Plan!Next /\ UNCHANGED <<part, vars>>

ProvisionNext == Provisions \/ Planning

ProvisionSpec == ProvisionInit /\ [][ProvisionNext]_<<part, planVars, vars>>

IdSymmetry == Permutations(Ids)

----------------------------------------------------------------------------
(* What AddClient and Init accept fits together: the overlay has room       *)
(* (RoomToGrow), its members are distinct and only the gateway has the      *)
(* gateway's address (SegmentConsistent), what a client sends goes one way  *)
(* only (TunnelUnambiguous), and the client program, which checks all this  *)
(* with code of its own, accepts every bundle (BundleLoads).  Failed and    *)
(* rolled-back commands do not upset this (ClientsDistinct).                *)
PlanFitsTogether ==
    /\ Plan!RoomToGrow
    /\ Plan!SegmentConsistent
    /\ Plan!TunnelUnambiguous
    /\ Plan!BundleLoads
    /\ ClientsDistinct
============================================================================
