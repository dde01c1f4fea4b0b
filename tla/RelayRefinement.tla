-------------------------- MODULE RelayRefinement ---------------------------
(***************************************************************************)
(* The relay's sessions (Relay) implement Membership.  A session has its    *)
(* seats from the critical section of hub.add that files it in both tables  *)
(* until another hub.add, its own hub.remove or a peer.stop() takes it out  *)
(* of one of them, whichever comes first.                                   *)
(***************************************************************************)
EXTENDS Relay

Seated(c) ==
    /\ pc[c] \in Registered
    /\ ~stopped[c]
    /\ byID[id[c]] = c
    /\ byMAC[mac[c]] = c

SeatIds  == [c \in Conns |-> IF Seated(c) THEN id[c] ELSE None]
SeatMacs == [c \in Conns |-> IF Seated(c) THEN mac[c] ELSE None]
Carrying == {c \in Conns : Seated(c) /\ pc[c] = "serving"}

Member == INSTANCE Membership WITH
    list     <- clients,
    settled  <- (reload = "idle"),
    seatId   <- SeatIds,
    seatMac  <- SeatMacs,
    carrying <- Carrying

(* hub.add, hub.remove, retainAuthorized and the re-check of                *)
(* handleWebSocket, each with its stops outside hub.mu, together look like  *)
(* one atomic registry: a session displaces in one step, carries frames     *)
(* only on an allowed seat, and no reload returns while a session that its  *)
(* list does not allow still carries frames.                                *)
ImplementsMembership == Member!Spec

(* The same with the promise that a revoked session leaves and every reload *)
(* is settled.                                                              *)
ImplementsFairMembership == Member!FairSpec
============================================================================
