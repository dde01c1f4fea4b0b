---------------------------- MODULE RelayProofs ----------------------------
(***************************************************************************)
(* Proofs about Relay for every set of connections, identities, addresses  *)
(* and configurations and every number of handshake slots.                 *)
(***************************************************************************)
EXTENDS RelayRefinement, FiniteSetTheorems, TLAPS

(***************************************************************************)
(* Typing.  An identity and an address are known from the look-up until    *)
(* the handler returns; without that the table updates of hub.add and      *)
(* hub.remove would not be well typed.                                     *)
(***************************************************************************)
Identified == {"proof", "slot", "add", "stop"} \cup Registered

IdentityKnown ==
    \A c \in Conns : pc[c] \in Identified => id[c] \in Ids /\ mac[c] \in Macs

(* The relay as New leaves it has the types of TypeOK.                      *)
LEMMA InitType == Init => TypeOK /\ IdentityKnown
  BY MaxPendingAssumption
  DEF Init, TypeOK, IdentityKnown, Identified, Stages, Handshaking, Registered, Adding

(* Every step of a handler, of writeLoop and of Reload keeps the types, and *)
(* keeps the identity of a handler that is past its hello.                  *)
LEMMA TypeStep == TypeOK /\ IdentityKnown /\ [Next]_vars => TypeOK' /\ IdentityKnown'
  <1> SUFFICES ASSUME TypeOK, IdentityKnown, [Next]_vars
               PROVE  TypeOK' /\ IdentityKnown'
    OBVIOUS
  <1> USE MaxPendingAssumption
      DEF TypeOK, IdentityKnown, Identified, Stages, Handshaking, Registered, Adding,
          GoTo, hubVars, reloadVars, handlerVars, identity, addLocals, peerVars
  <1>1. ASSUME NEW c \in Conns, Accept(c) PROVE TypeOK' /\ IdentityKnown'
    BY <1>1 DEF Accept
  <1>2. ASSUME NEW c \in Conns, Upgrade(c) PROVE TypeOK' /\ IdentityKnown'
    BY <1>2 DEF Upgrade
  <1>3. ASSUME NEW c \in Conns, NEW i \in Ids, Hello(c, i) PROVE TypeOK'
      /\ IdentityKnown'
    <2>1. clients[i] \in Macs
      BY <1>3, ConfigsAssumption DEF Hello, IsConfig
    <2> QED
      BY <2>1, <1>3 DEF Hello
  <1>4. ASSUME NEW c \in Conns, VerifyProof(c) PROVE TypeOK' /\ IdentityKnown'
    BY <1>4 DEF VerifyProof
  <1>5. ASSUME NEW c \in Conns, HandshakeFails(c) PROVE TypeOK' /\ IdentityKnown'
    BY <1>5 DEF HandshakeFails
  <1>6. ASSUME NEW c \in Conns, ReleaseSlot(c) PROVE TypeOK' /\ IdentityKnown'
    BY <1>6 DEF ReleaseSlot
  <1>7. ASSUME NEW c \in Conns, HubAdd(c) PROVE TypeOK' /\ IdentityKnown'
    BY <1>7 DEF HubAdd
  <1>8. ASSUME NEW c \in Conns, HubStopOldByID(c) PROVE TypeOK' /\ IdentityKnown'
    BY <1>8 DEF HubStopOldByID, StopPeer
  <1>9. ASSUME NEW c \in Conns, HubStopOldByMAC(c) PROVE TypeOK' /\ IdentityKnown'
    BY <1>9 DEF HubStopOldByMAC, StopPeer
  <1>10. ASSUME NEW c \in Conns, Recheck(c) PROVE TypeOK' /\ IdentityKnown'
    BY <1>10 DEF Recheck
  <1>11. ASSUME NEW c \in Conns, ReadFails(c) PROVE TypeOK' /\ IdentityKnown'
    BY <1>11 DEF ReadFails
  <1>12. ASSUME NEW c \in Conns, HubRemove(c) PROVE TypeOK' /\ IdentityKnown'
    BY <1>12 DEF HubRemove
  <1>13. ASSUME NEW c \in Conns, StopSelf(c) PROVE TypeOK' /\ IdentityKnown'
    BY <1>13 DEF StopSelf, StopPeer
  <1>14. ASSUME NEW c \in Conns, Unwind(c) PROVE TypeOK' /\ IdentityKnown'
    BY <1>14 DEF Unwind, EndHandler
  <1>15. ASSUME NEW c \in Conns, WriterFails(c) PROVE TypeOK' /\ IdentityKnown'
    BY <1>15 DEF WriterFails, StopPeer
  <1>16. ASSUME NEW c \in Conns, WriterDone(c) PROVE TypeOK' /\ IdentityKnown'
    BY <1>16 DEF WriterDone
  <1>17. ASSUME NEW cfg \in Configs, SwapClients(cfg) PROVE TypeOK' /\ IdentityKnown'
    BY <1>17 DEF SwapClients
  <1>18. CASE RetainAuthorized
    BY <1>18 DEF RetainAuthorized
  <1>19. ASSUME NEW c \in Conns, StopStale(c) PROVE TypeOK' /\ IdentityKnown'
    BY <1>19 DEF StopStale, StopPeer
  <1>20. CASE ReloadDone
    BY <1>20 DEF ReloadDone
  <1>21. CASE UNCHANGED vars
    BY <1>21 DEF vars
  <1> QED
    BY <1>1, <1>2, <1>3, <1>4, <1>5, <1>6, <1>7, <1>8, <1>9, <1>10, <1>11, <1>12,
       <1>13, <1>14, <1>15, <1>16, <1>17, <1>18, <1>19, <1>20, <1>21
    DEF Next, HandlerStep, ReloadStep

(* Every variable of the relay keeps its type in every behaviour; the slot  *)
(* counter stays within the capacity of the authSlots channel.              *)
THEOREM TypeCorrect == Spec => []TypeOK
  <1>1. Spec => [](TypeOK /\ IdentityKnown)
    BY InitType, TypeStep, PTL DEF Spec
  <1> QED
    BY <1>1, PTL

(***************************************************************************)
(* Handshake slots.  A handler holds its slot exactly until authSlotReleased *)
(* is set, and that happens between the stages "slot" and "add".           *)
(***************************************************************************)
SlotFlag ==
    \A c \in Conns :
        /\ pc[c] \in Handshaking \cup {"none", "slot"} => ~released[c]
        /\ pc[c] \in {"add", "stop"} \cup Registered => released[c]

(* authSlotReleased is set exactly when ReleaseSlot has run, and stays so   *)
(* until the handler returns.                                               *)
LEMMA SlotFlagStep == TypeOK /\ SlotFlag /\ [Next]_vars => SlotFlag'
  <1> SUFFICES ASSUME TypeOK, SlotFlag, [Next]_vars
               PROVE  SlotFlag'
    OBVIOUS
  <1> USE DEF SlotFlag, TypeOK, Identified, Stages, Handshaking, Registered, Adding,
          GoTo, hubVars, reloadVars, handlerVars, identity, addLocals, peerVars
  <1>1. ASSUME NEW c \in Conns, Accept(c) PROVE SlotFlag'
    BY <1>1 DEF Accept, Free
  <1>2. ASSUME NEW c \in Conns, Upgrade(c) PROVE SlotFlag'
    BY <1>2 DEF Upgrade
  <1>3. ASSUME NEW c \in Conns, NEW i \in Ids, Hello(c, i) PROVE SlotFlag'
    BY <1>3 DEF Hello
  <1>4. ASSUME NEW c \in Conns, VerifyProof(c) PROVE SlotFlag'
    BY <1>4 DEF VerifyProof
  <1>5. ASSUME NEW c \in Conns, HandshakeFails(c) PROVE SlotFlag'
    BY <1>5 DEF HandshakeFails
  <1>6. ASSUME NEW c \in Conns, ReleaseSlot(c) PROVE SlotFlag'
    BY <1>6 DEF ReleaseSlot
  <1>7. ASSUME NEW c \in Conns, HubAdd(c) PROVE SlotFlag'
    BY <1>7 DEF HubAdd
  <1>8. ASSUME NEW c \in Conns, HubStopOldByID(c) PROVE SlotFlag'
    BY <1>8 DEF HubStopOldByID, StopPeer
  <1>9. ASSUME NEW c \in Conns, HubStopOldByMAC(c) PROVE SlotFlag'
    BY <1>9 DEF HubStopOldByMAC, StopPeer
  <1>10. ASSUME NEW c \in Conns, Recheck(c) PROVE SlotFlag'
    BY <1>10 DEF Recheck, Authorized
  <1>11. ASSUME NEW c \in Conns, ReadFails(c) PROVE SlotFlag'
    BY <1>11 DEF ReadFails
  <1>12. ASSUME NEW c \in Conns, HubRemove(c) PROVE SlotFlag'
    BY <1>12 DEF HubRemove
  <1>13. ASSUME NEW c \in Conns, StopSelf(c) PROVE SlotFlag'
    BY <1>13 DEF StopSelf, StopPeer
  <1>14. ASSUME NEW c \in Conns, Unwind(c) PROVE SlotFlag'
    BY <1>14 DEF Unwind, EndHandler
  <1>15. ASSUME NEW c \in Conns, WriterFails(c) PROVE SlotFlag'
    BY <1>15 DEF WriterFails, StopPeer
  <1>16. ASSUME NEW c \in Conns, WriterDone(c) PROVE SlotFlag'
    BY <1>16 DEF WriterDone
  <1>17. ASSUME NEW cfg \in Configs, SwapClients(cfg) PROVE SlotFlag'
    BY <1>17 DEF SwapClients
  <1>18. CASE RetainAuthorized
    BY <1>18 DEF RetainAuthorized
  <1>19. ASSUME NEW c \in Conns, StopStale(c) PROVE SlotFlag'
    BY <1>19 DEF StopStale, StopPeer
  <1>20. CASE ReloadDone
    BY <1>20 DEF ReloadDone
  <1>21. CASE UNCHANGED vars
    BY <1>21 DEF vars
  <1> QED
    BY <1>1, <1>2, <1>3, <1>4, <1>5, <1>6, <1>7, <1>8, <1>9, <1>10,
       <1>11, <1>12, <1>13, <1>14, <1>15, <1>16, <1>17, <1>18, <1>19, <1>20, <1>21
    DEF Next, HandlerStep, ReloadStep

(* The handlers that owe a slot can be counted.                             *)
LEMMA HoldingFinite == IsFiniteSet(Holding) /\ Cardinality(Holding) \in Nat
  <1>1. Holding \subseteq Conns
    BY DEF Holding
  <1> QED
    BY <1>1, ConnsAssumption, FS_Subset, FS_CardinalityType

(* Every step of handleWebSocket that takes or returns a slot adds one      *)
(* handler to those that owe one, or removes one.                           *)
LEMMA SlotsStep ==
    TypeOK /\ SlotFlag /\ AuthSlotsExact /\ [Next]_vars => AuthSlotsExact'
  <1> SUFFICES ASSUME TypeOK, SlotFlag, AuthSlotsExact, [Next]_vars
               PROVE  AuthSlotsExact'
    OBVIOUS
  <1> USE DEF AuthSlotsExact, SlotFlag, TypeOK, Identified, Stages, Handshaking,
          Registered, Adding,
          GoTo, hubVars, reloadVars, handlerVars, identity, addLocals, peerVars
  <1>1. ASSUME NEW c \in Conns, Accept(c) PROVE AuthSlotsExact'
    <2>1. Holding' = Holding \cup {c} /\ c \notin Holding
      BY <1>1 DEF Accept, Free, Holding
    <2>2. Cardinality(Holding') = Cardinality(Holding) + 1
      BY <2>1, HoldingFinite, FS_AddElement
    <2> QED
      BY <1>1, <2>2 DEF Accept
  <1>2. ASSUME NEW c \in Conns, Upgrade(c) PROVE AuthSlotsExact'
    <2>1. Holding' = Holding
      BY <1>2 DEF Upgrade, Holding
    <2> QED
      BY <1>2, <2>1 DEF Upgrade
  <1>3. ASSUME NEW c \in Conns, NEW i \in Ids, Hello(c, i) PROVE AuthSlotsExact'
    <2>1. Holding' = Holding
      BY <1>3 DEF Hello, Holding
    <2> QED
      BY <1>3, <2>1 DEF Hello
  <1>4. ASSUME NEW c \in Conns, VerifyProof(c) PROVE AuthSlotsExact'
    <2>1. Holding' = Holding
      BY <1>4 DEF VerifyProof, Holding
    <2> QED
      BY <1>4, <2>1 DEF VerifyProof
  <1>5. ASSUME NEW c \in Conns, HandshakeFails(c) PROVE AuthSlotsExact'
    <2>1. Holding' = Holding
      BY <1>5 DEF HandshakeFails, Holding
    <2> QED
      BY <1>5, <2>1 DEF HandshakeFails
  <1>6. ASSUME NEW c \in Conns, ReleaseSlot(c) PROVE AuthSlotsExact'
    <2>1. Holding' = Holding \ {c} /\ c \in Holding
      BY <1>6 DEF ReleaseSlot, Holding
    <2>2. Cardinality(Holding') = Cardinality(Holding) - 1
      BY <2>1, HoldingFinite, FS_RemoveElement
    <2> QED
      BY <1>6, <2>2 DEF ReleaseSlot
  <1>7. ASSUME NEW c \in Conns, HubAdd(c) PROVE AuthSlotsExact'
    <2>1. Holding' = Holding
      BY <1>7 DEF HubAdd, Holding
    <2> QED
      BY <1>7, <2>1 DEF HubAdd
  <1>8. ASSUME NEW c \in Conns, HubStopOldByID(c) PROVE AuthSlotsExact'
    <2>1. Holding' = Holding
      BY <1>8 DEF HubStopOldByID, StopPeer, Holding
    <2> QED
      BY <1>8, <2>1 DEF HubStopOldByID
  <1>9. ASSUME NEW c \in Conns, HubStopOldByMAC(c) PROVE AuthSlotsExact'
    <2>1. Holding' = Holding
      BY <1>9 DEF HubStopOldByMAC, StopPeer, Holding
    <2> QED
      BY <1>9, <2>1 DEF HubStopOldByMAC
  <1>10. ASSUME NEW c \in Conns, Recheck(c) PROVE AuthSlotsExact'
    <2>1. Holding' = Holding
      BY <1>10 DEF Recheck, Holding
    <2> QED
      BY <1>10, <2>1 DEF Recheck
  <1>11. ASSUME NEW c \in Conns, ReadFails(c) PROVE AuthSlotsExact'
    <2>1. Holding' = Holding
      BY <1>11 DEF ReadFails, Holding
    <2> QED
      BY <1>11, <2>1 DEF ReadFails
  <1>12. ASSUME NEW c \in Conns, HubRemove(c) PROVE AuthSlotsExact'
    <2>1. Holding' = Holding
      BY <1>12 DEF HubRemove, Holding
    <2> QED
      BY <1>12, <2>1 DEF HubRemove
  <1>13. ASSUME NEW c \in Conns, StopSelf(c) PROVE AuthSlotsExact'
    <2>1. Holding' = Holding
      BY <1>13 DEF StopSelf, StopPeer, Holding
    <2> QED
      BY <1>13, <2>1 DEF StopSelf
  <1>14. ASSUME NEW c \in Conns, Unwind(c) PROVE AuthSlotsExact'
    <2>1. CASE released[c]
      <3>1. Holding' = Holding
        BY <1>14, <2>1 DEF Unwind, EndHandler, Holding
      <3> QED
        BY <1>14, <2>1, <3>1 DEF Unwind
    <2>2. CASE ~released[c]
      <3>1. Holding' = Holding \ {c} /\ c \in Holding
        BY <1>14, <2>2 DEF Unwind, EndHandler, Holding
      <3>2. Cardinality(Holding') = Cardinality(Holding) - 1
        BY <3>1, HoldingFinite, FS_RemoveElement
      <3> QED
        BY <1>14, <2>2, <3>2 DEF Unwind
    <2> QED
      BY <2>1, <2>2
  <1>15. ASSUME NEW c \in Conns, WriterFails(c) PROVE AuthSlotsExact'
    <2>1. Holding' = Holding
      BY <1>15 DEF WriterFails, StopPeer, Holding
    <2> QED
      BY <1>15, <2>1 DEF WriterFails
  <1>16. ASSUME NEW c \in Conns, WriterDone(c) PROVE AuthSlotsExact'
    <2>1. Holding' = Holding
      BY <1>16 DEF WriterDone, Holding
    <2> QED
      BY <1>16, <2>1 DEF WriterDone
  <1>17. ASSUME NEW cfg \in Configs, SwapClients(cfg) PROVE AuthSlotsExact'
    <2>1. Holding' = Holding
      BY <1>17 DEF SwapClients, Holding
    <2> QED
      BY <1>17, <2>1 DEF SwapClients
  <1>18. CASE RetainAuthorized
    <2>1. Holding' = Holding
      BY <1>18 DEF RetainAuthorized, Holding
    <2> QED
      BY <1>18, <2>1 DEF RetainAuthorized
  <1>19. ASSUME NEW c \in Conns, StopStale(c) PROVE AuthSlotsExact'
    <2>1. Holding' = Holding
      BY <1>19 DEF StopStale, StopPeer, Holding
    <2> QED
      BY <1>19, <2>1 DEF StopStale
  <1>20. CASE ReloadDone
    <2>1. Holding' = Holding
      BY <1>20 DEF ReloadDone, Holding
    <2> QED
      BY <1>20, <2>1 DEF ReloadDone
  <1>21. CASE UNCHANGED vars
    BY <1>21 DEF vars, Holding
  <1> QED
    BY <1>1, <1>2, <1>3, <1>4, <1>5, <1>6, <1>7, <1>8, <1>9, <1>10,
       <1>11, <1>12, <1>13, <1>14, <1>15, <1>16, <1>17, <1>18, <1>19, <1>20, <1>21
    DEF Next, HandlerStep, ReloadStep

(* Whatever the early returns, the deferred release of handleWebSocket and  *)
(* other handlers do, authSlots counts the handlers that still owe a slot.  *)
THEOREM SlotsExact == Spec => []AuthSlotsExact
  <1>1. Init => SlotFlag /\ AuthSlotsExact
    <2>1. Init => Holding = {}
      BY DEF Init, Holding
    <2> QED
      BY <2>1, FS_EmptySet
      DEF Init, SlotFlag, AuthSlotsExact, Handshaking, Registered, Adding
  <1>2. Spec => [](TypeOK /\ SlotFlag /\ AuthSlotsExact)
    BY <1>1, TypeCorrect, SlotFlagStep, SlotsStep, PTL DEF Spec
  <1> QED
    BY <1>2, PTL

(***************************************************************************)
(* The hub.  What makes the safety properties inductive: the locals of     *)
(* hub.add refer to a peer only while it runs; between its two stops the   *)
(* first displaced peer is stopped already (that is why the second stop    *)
(* may be skipped); the list of retainAuthorized is empty outside of it.   *)
(***************************************************************************)
AddLocals ==
    \A d \in Conns :
        pc[d] = "stopMAC" /\ oldByID[d] # None => stopped[oldByID[d]]

(* What peer.stop() changes, for one connection at a time.                  *)
LEMMA StopPeerFact ==
    ASSUME NEW p, StopPeer(p), NEW e \in Conns
    PROVE  stopped'[e] <=> (stopped[e] \/ e = p)
  BY Zenon DEF StopPeer

(* No step leaves a peer in a table of the hub after its hub.remove.        *)
LEMMA GhostStep ==
    TypeOK /\ IdentityKnown /\ NoGhostPeers /\ [Next]_vars => NoGhostPeers'
  <1> SUFFICES ASSUME TypeOK, IdentityKnown, NoGhostPeers, [Next]_vars
               PROVE  NoGhostPeers'
    OBVIOUS
  <1> USE NoneAssumption DEF NoGhostPeers, TypeOK, IdentityKnown, Identified,
          Stages, Handshaking, Registered, Adding,
          GoTo, hubVars, reloadVars, handlerVars, identity, addLocals, peerVars
  <1>1. ASSUME NEW c \in Conns, Accept(c) PROVE NoGhostPeers'
    BY <1>1 DEF Accept, Free
  <1>2. ASSUME NEW c \in Conns, Upgrade(c) PROVE NoGhostPeers'
    BY <1>2 DEF Upgrade
  <1>3. ASSUME NEW c \in Conns, NEW i \in Ids, Hello(c, i) PROVE NoGhostPeers'
    BY <1>3 DEF Hello
  <1>4. ASSUME NEW c \in Conns, VerifyProof(c) PROVE NoGhostPeers'
    BY <1>4 DEF VerifyProof
  <1>5. ASSUME NEW c \in Conns, HandshakeFails(c) PROVE NoGhostPeers'
    BY <1>5 DEF HandshakeFails
  <1>6. ASSUME NEW c \in Conns, ReleaseSlot(c) PROVE NoGhostPeers'
    BY <1>6 DEF ReleaseSlot
  <1>7. ASSUME NEW c \in Conns, HubAdd(c) PROVE NoGhostPeers'
    BY <1>7 DEF HubAdd
  <1>8. ASSUME NEW c \in Conns, HubStopOldByID(c) PROVE NoGhostPeers'
    BY <1>8 DEF HubStopOldByID, StopPeer
  <1>9. ASSUME NEW c \in Conns, HubStopOldByMAC(c) PROVE NoGhostPeers'
    BY <1>9 DEF HubStopOldByMAC, StopPeer
  <1>10. ASSUME NEW c \in Conns, Recheck(c) PROVE NoGhostPeers'
    BY <1>10 DEF Recheck, Authorized
  <1>11. ASSUME NEW c \in Conns, ReadFails(c) PROVE NoGhostPeers'
    BY <1>11 DEF ReadFails
  <1>12. ASSUME NEW c \in Conns, HubRemove(c) PROVE NoGhostPeers'
    BY <1>12 DEF HubRemove
  <1>13. ASSUME NEW c \in Conns, StopSelf(c) PROVE NoGhostPeers'
    BY <1>13 DEF StopSelf, StopPeer
  <1>14. ASSUME NEW c \in Conns, Unwind(c) PROVE NoGhostPeers'
    BY <1>14 DEF Unwind, EndHandler
  <1>15. ASSUME NEW c \in Conns, WriterFails(c) PROVE NoGhostPeers'
    BY <1>15 DEF WriterFails, StopPeer
  <1>16. ASSUME NEW c \in Conns, WriterDone(c) PROVE NoGhostPeers'
    BY <1>16 DEF WriterDone
  <1>17. ASSUME NEW cfg \in Configs, SwapClients(cfg) PROVE NoGhostPeers'
    BY <1>17 DEF SwapClients
  <1>18. CASE RetainAuthorized
    BY <1>18 DEF RetainAuthorized
  <1>19. ASSUME NEW c \in Conns, StopStale(c) PROVE NoGhostPeers'
    BY <1>19 DEF StopStale, StopPeer
  <1>20. CASE ReloadDone
    BY <1>20 DEF ReloadDone
  <1>21. CASE UNCHANGED vars
    BY <1>21 DEF vars
  <1> QED
    BY <1>1, <1>2, <1>3, <1>4, <1>5, <1>6, <1>7, <1>8, <1>9, <1>10,
       <1>11, <1>12, <1>13, <1>14, <1>15, <1>16, <1>17, <1>18, <1>19, <1>20, <1>21
    DEF Next, HandlerStep, ReloadStep

(* hub.add's old peers stay registered peers until hub.add has stopped them. *)
LEMMA AddLocalsStep ==
    TypeOK /\ IdentityKnown /\ NoGhostPeers /\ AddLocals /\ [Next]_vars => AddLocals'
  <1> SUFFICES ASSUME TypeOK, IdentityKnown, NoGhostPeers, AddLocals, [Next]_vars
               PROVE  AddLocals'
    OBVIOUS
  <1> USE NoneAssumption DEF NoGhostPeers, AddLocals, TypeOK, IdentityKnown,
          Identified, Stages, Handshaking, Registered, Adding,
          GoTo, hubVars, reloadVars, handlerVars, identity, addLocals, peerVars
  <1>1. ASSUME NEW c \in Conns, Accept(c) PROVE AddLocals'
    BY <1>1 DEF Accept, Free
  <1>2. ASSUME NEW c \in Conns, Upgrade(c) PROVE AddLocals'
    BY <1>2 DEF Upgrade
  <1>3. ASSUME NEW c \in Conns, NEW i \in Ids, Hello(c, i) PROVE AddLocals'
    BY <1>3 DEF Hello
  <1>4. ASSUME NEW c \in Conns, VerifyProof(c) PROVE AddLocals'
    BY <1>4 DEF VerifyProof
  <1>5. ASSUME NEW c \in Conns, HandshakeFails(c) PROVE AddLocals'
    BY <1>5 DEF HandshakeFails
  <1>6. ASSUME NEW c \in Conns, ReleaseSlot(c) PROVE AddLocals'
    BY <1>6 DEF ReleaseSlot
  <1>7. ASSUME NEW c \in Conns, HubAdd(c) PROVE AddLocals'
    BY <1>7 DEF HubAdd
  <1>8. ASSUME NEW c \in Conns, HubStopOldByID(c) PROVE AddLocals'
    <2> SUFFICES ASSUME NEW d \in Conns, pc'[d] = "stopMAC", oldByID'[d] # None
                 PROVE  stopped'[oldByID'[d]]
      OBVIOUS
    <2>1. oldByID' = oldByID /\ oldByID[d] \in Conns
      BY <1>8 DEF HubStopOldByID
    <2>2. stopped'[oldByID[d]] = (stopped[oldByID[d]] \/ oldByID[d] = oldByID[c])
      BY <1>8, <2>1 DEF HubStopOldByID, StopPeer
    <2>3. d = c \/ pc[d] = "stopMAC"
      BY <1>8 DEF HubStopOldByID
    <2> QED
      BY <2>1, <2>2, <2>3
  <1>9. ASSUME NEW c \in Conns, HubStopOldByMAC(c) PROVE AddLocals'
    BY <1>9 DEF HubStopOldByMAC, StopPeer
  <1>10. ASSUME NEW c \in Conns, Recheck(c) PROVE AddLocals'
    BY <1>10 DEF Recheck, Authorized
  <1>11. ASSUME NEW c \in Conns, ReadFails(c) PROVE AddLocals'
    BY <1>11 DEF ReadFails
  <1>12. ASSUME NEW c \in Conns, HubRemove(c) PROVE AddLocals'
    BY <1>12 DEF HubRemove
  <1>13. ASSUME NEW c \in Conns, StopSelf(c) PROVE AddLocals'
    BY <1>13 DEF StopSelf, StopPeer
  <1>14. ASSUME NEW c \in Conns, Unwind(c) PROVE AddLocals'
    BY <1>14 DEF Unwind, EndHandler
  <1>15. ASSUME NEW c \in Conns, WriterFails(c) PROVE AddLocals'
    BY <1>15 DEF WriterFails, StopPeer
  <1>16. ASSUME NEW c \in Conns, WriterDone(c) PROVE AddLocals'
    BY <1>16 DEF WriterDone
  <1>17. ASSUME NEW cfg \in Configs, SwapClients(cfg) PROVE AddLocals'
    BY <1>17 DEF SwapClients
  <1>18. CASE RetainAuthorized
    BY <1>18 DEF RetainAuthorized
  <1>19. ASSUME NEW c \in Conns, StopStale(c) PROVE AddLocals'
    BY <1>19 DEF StopStale, StopPeer
  <1>20. CASE ReloadDone
    BY <1>20 DEF ReloadDone
  <1>21. CASE UNCHANGED vars
    BY <1>21 DEF vars
  <1> QED
    BY <1>1, <1>2, <1>3, <1>4, <1>5, <1>6, <1>7, <1>8, <1>9, <1>10,
       <1>11, <1>12, <1>13, <1>14, <1>15, <1>16, <1>17, <1>18, <1>19, <1>20, <1>21
    DEF Next, HandlerStep, ReloadStep

(* The two stops of hub.add: the peer that is stopped is the only one that  *)
(* ceases to be displaced.                                                  *)
LEMMA StopOldByIDFact ==
    ASSUME TypeOK, NEW c \in Conns, HubStopOldByID(c), NEW e \in Conns, ~stopped'[e]
    PROVE  ~stopped[e] /\ (Displaced(e) => Displaced(e)')
  <1>1. ~stopped[e] /\ e # oldByID[c]
    BY StopPeerFact DEF HubStopOldByID
  <1>2. ASSUME NEW d \in Conns, Displaces(d, e) PROVE Displaces(d, e)'
    BY <1>1, <1>2 DEF HubStopOldByID, GoTo, Displaces, TypeOK, Adding, addLocals
  <1> QED
    BY <1>1, <1>2 DEF Displaced

(* The same for the second stop of hub.add.                                 *)
LEMMA StopOldByMACFact ==
    ASSUME TypeOK, AddLocals, NEW c \in Conns, HubStopOldByMAC(c),
           NEW e \in Conns, ~stopped'[e]
    PROVE  ~stopped[e] /\ (Displaced(e) => Displaced(e)')
  <1>1. ~stopped[e] /\ (oldByMAC[c] # oldByID[c] => e # oldByMAC[c])
    BY StopPeerFact DEF HubStopOldByMAC
  <1>2. e # oldByMAC[c]
    BY <1>1, NoneAssumption DEF HubStopOldByMAC, AddLocals, TypeOK
  <1>3. ASSUME NEW d \in Conns, Displaces(d, e) PROVE Displaces(d, e)'
    BY <1>2, <1>3 DEF HubStopOldByMAC, GoTo, Displaces, TypeOK, Adding, addLocals
  <1> QED
    BY <1>1, <1>3 DEF Displaced

(* No step makes a live registered peer unreachable without displacing it.  *)
LEMMA ReachableStep ==
    TypeOK /\ IdentityKnown /\ NoGhostPeers /\ AddLocals
    /\ ReachableUnlessDisplaced /\ [Next]_vars => ReachableUnlessDisplaced'
  <1> SUFFICES ASSUME TypeOK, IdentityKnown, NoGhostPeers, AddLocals,
                      ReachableUnlessDisplaced, [Next]_vars
               PROVE  ReachableUnlessDisplaced'
    OBVIOUS
  <1> USE NoneAssumption DEF NoGhostPeers, AddLocals, ReachableUnlessDisplaced,
          Displaced, Displaces,
          TypeOK, IdentityKnown, Identified, Stages, Handshaking, Registered, Adding,
          GoTo, hubVars, reloadVars, handlerVars, identity, addLocals, peerVars
  <1>1. ASSUME NEW c \in Conns, Accept(c) PROVE ReachableUnlessDisplaced'
    BY <1>1 DEF Accept, Free
  <1>2. ASSUME NEW c \in Conns, Upgrade(c) PROVE ReachableUnlessDisplaced'
    BY <1>2 DEF Upgrade
  <1>3. ASSUME NEW c \in Conns, NEW i \in Ids, Hello(c,
      i) PROVE ReachableUnlessDisplaced'
    BY <1>3 DEF Hello
  <1>4. ASSUME NEW c \in Conns, VerifyProof(c) PROVE ReachableUnlessDisplaced'
    BY <1>4 DEF VerifyProof
  <1>5. ASSUME NEW c \in Conns, HandshakeFails(c) PROVE ReachableUnlessDisplaced'
    BY <1>5 DEF HandshakeFails
  <1>6. ASSUME NEW c \in Conns, ReleaseSlot(c) PROVE ReachableUnlessDisplaced'
    BY <1>6 DEF ReleaseSlot
  <1>7. ASSUME NEW c \in Conns, HubAdd(c) PROVE ReachableUnlessDisplaced'
    BY <1>7 DEF HubAdd
  <1>8. ASSUME NEW c \in Conns, HubStopOldByID(c) PROVE ReachableUnlessDisplaced'
    <2> SUFFICES ASSUME NEW e \in Conns, pc'[e] \in Registered, ~stopped'[e]
                 PROVE  (byID'[id'[e]] = e /\ byMAC'[mac'[e]] = e) \/ Displaced(e)'
      BY Zenon DEF ReachableUnlessDisplaced
    <2>1. ~stopped[e] /\ (Displaced(e) => Displaced(e)')
      BY <1>8, StopOldByIDFact
    <2>2. pc[e] \in Registered /\ UNCHANGED <<byID, byMAC, id, mac>>
      BY <1>8 DEF HubStopOldByID
    <2> QED
      BY <2>1, <2>2 DEF ReachableUnlessDisplaced
  <1>9. ASSUME NEW c \in Conns, HubStopOldByMAC(c) PROVE ReachableUnlessDisplaced'
    <2> SUFFICES ASSUME NEW e \in Conns, pc'[e] \in Registered, ~stopped'[e]
                 PROVE  (byID'[id'[e]] = e /\ byMAC'[mac'[e]] = e) \/ Displaced(e)'
      BY Zenon DEF ReachableUnlessDisplaced
    <2>1. ~stopped[e] /\ (Displaced(e) => Displaced(e)')
      BY <1>9, StopOldByMACFact
    <2>2. pc[e] \in Registered /\ UNCHANGED <<byID, byMAC, id, mac>>
      BY <1>9 DEF HubStopOldByMAC
    <2> QED
      BY <2>1, <2>2 DEF ReachableUnlessDisplaced
  <1>10. ASSUME NEW c \in Conns, Recheck(c) PROVE ReachableUnlessDisplaced'
    BY <1>10 DEF Recheck, Authorized
  <1>11. ASSUME NEW c \in Conns, ReadFails(c) PROVE ReachableUnlessDisplaced'
    BY <1>11 DEF ReadFails
  <1>12. ASSUME NEW c \in Conns, HubRemove(c) PROVE ReachableUnlessDisplaced'
    BY <1>12 DEF HubRemove
  <1>13. ASSUME NEW c \in Conns, StopSelf(c) PROVE ReachableUnlessDisplaced'
    BY <1>13 DEF StopSelf, StopPeer
  <1>14. ASSUME NEW c \in Conns, Unwind(c) PROVE ReachableUnlessDisplaced'
    BY <1>14 DEF Unwind, EndHandler
  <1>15. ASSUME NEW c \in Conns, WriterFails(c) PROVE ReachableUnlessDisplaced'
    BY <1>15 DEF WriterFails, StopPeer
  <1>16. ASSUME NEW c \in Conns, WriterDone(c) PROVE ReachableUnlessDisplaced'
    BY <1>16 DEF WriterDone
  <1>17. ASSUME NEW cfg \in Configs, SwapClients(cfg) PROVE ReachableUnlessDisplaced'
    BY <1>17 DEF SwapClients
  <1>18. CASE RetainAuthorized
    BY <1>18 DEF RetainAuthorized
  <1>19. ASSUME NEW c \in Conns, StopStale(c) PROVE ReachableUnlessDisplaced'
    BY <1>19 DEF StopStale, StopPeer
  <1>20. CASE ReloadDone
    BY <1>20 DEF ReloadDone
  <1>21. CASE UNCHANGED vars
    BY <1>21 DEF vars
  <1> QED
    BY <1>1, <1>2, <1>3, <1>4, <1>5, <1>6, <1>7, <1>8, <1>9, <1>10,
       <1>11, <1>12, <1>13, <1>14, <1>15, <1>16, <1>17, <1>18, <1>19, <1>20, <1>21
    DEF Next, HandlerStep, ReloadStep

(***************************************************************************)
(* Reloads.  RevocationTakesEffect is strengthened to the whole duration   *)
(* of Reload: a session that the current configuration does not authorize  *)
(* is still to be seen by the scan, is on the list the scan made, or is    *)
(* being displaced.                                                        *)
(***************************************************************************)
RevocationPending ==
    \A c \in Conns :
        pc[c] = "serving" /\ ~stopped[c] /\ ~Authorized(c) =>
            reload = "retain" \/ c \in stale \/ Displaced(c)

StaleUnauthorized ==
    /\ reload # "stop" => stale = {}
    /\ \A c \in stale :
          ~stopped[c] => pc[c] \in Registered \cup {"stop"} /\ ~Authorized(c)

(* A peer that retainAuthorized has picked stays unauthorized until it is   *)
(* stopped, since the list changes only between two reloads.                *)
LEMMA StaleStep ==
    TypeOK /\ IdentityKnown /\ NoGhostPeers /\ StaleUnauthorized /\ [Next]_vars
    => StaleUnauthorized'
  <1> SUFFICES ASSUME TypeOK, IdentityKnown, NoGhostPeers, StaleUnauthorized,
                      [Next]_vars
               PROVE  StaleUnauthorized'
    OBVIOUS
  <1> USE NoneAssumption DEF NoGhostPeers, StaleUnauthorized, Authorized, TypeOK,
          IdentityKnown, Identified, Stages, Handshaking, Registered, Adding,
          GoTo, hubVars, reloadVars, handlerVars, identity, addLocals, peerVars
  <1>1. ASSUME NEW c \in Conns, Accept(c) PROVE StaleUnauthorized'
    BY <1>1 DEF Accept, Free
  <1>2. ASSUME NEW c \in Conns, Upgrade(c) PROVE StaleUnauthorized'
    BY <1>2 DEF Upgrade
  <1>3. ASSUME NEW c \in Conns, NEW i \in Ids, Hello(c, i) PROVE StaleUnauthorized'
    BY <1>3 DEF Hello
  <1>4. ASSUME NEW c \in Conns, VerifyProof(c) PROVE StaleUnauthorized'
    BY <1>4 DEF VerifyProof
  <1>5. ASSUME NEW c \in Conns, HandshakeFails(c) PROVE StaleUnauthorized'
    BY <1>5 DEF HandshakeFails
  <1>6. ASSUME NEW c \in Conns, ReleaseSlot(c) PROVE StaleUnauthorized'
    BY <1>6 DEF ReleaseSlot
  <1>7. ASSUME NEW c \in Conns, HubAdd(c) PROVE StaleUnauthorized'
    BY <1>7 DEF HubAdd
  <1>8. ASSUME NEW c \in Conns, HubStopOldByID(c) PROVE StaleUnauthorized'
    BY <1>8 DEF HubStopOldByID, StopPeer
  <1>9. ASSUME NEW c \in Conns, HubStopOldByMAC(c) PROVE StaleUnauthorized'
    BY <1>9 DEF HubStopOldByMAC, StopPeer
  <1>10. ASSUME NEW c \in Conns, Recheck(c) PROVE StaleUnauthorized'
    BY <1>10 DEF Recheck, Authorized
  <1>11. ASSUME NEW c \in Conns, ReadFails(c) PROVE StaleUnauthorized'
    BY <1>11 DEF ReadFails
  <1>12. ASSUME NEW c \in Conns, HubRemove(c) PROVE StaleUnauthorized'
    BY <1>12 DEF HubRemove
  <1>13. ASSUME NEW c \in Conns, StopSelf(c) PROVE StaleUnauthorized'
    <2>1. ASSUME NEW e \in stale, ~stopped'[e] PROVE ~stopped[e] /\ e # c
      BY <1>13, <2>1, StopPeerFact DEF StopSelf
    <2> QED
      BY <1>13, <2>1 DEF StopSelf
  <1>14. ASSUME NEW c \in Conns, Unwind(c) PROVE StaleUnauthorized'
    BY <1>14 DEF Unwind, EndHandler
  <1>15. ASSUME NEW c \in Conns, WriterFails(c) PROVE StaleUnauthorized'
    BY <1>15 DEF WriterFails, StopPeer
  <1>16. ASSUME NEW c \in Conns, WriterDone(c) PROVE StaleUnauthorized'
    BY <1>16 DEF WriterDone
  <1>17. ASSUME NEW cfg \in Configs, SwapClients(cfg) PROVE StaleUnauthorized'
    BY <1>17 DEF SwapClients
  <1>18. CASE RetainAuthorized
    BY <1>18 DEF RetainAuthorized
  <1>19. ASSUME NEW c \in Conns, StopStale(c) PROVE StaleUnauthorized'
    BY <1>19 DEF StopStale, StopPeer
  <1>20. CASE ReloadDone
    BY <1>20 DEF ReloadDone
  <1>21. CASE UNCHANGED vars
    BY <1>21 DEF vars
  <1> QED
    BY <1>1, <1>2, <1>3, <1>4, <1>5, <1>6, <1>7, <1>8, <1>9, <1>10,
       <1>11, <1>12, <1>13, <1>14, <1>15, <1>16, <1>17, <1>18, <1>19, <1>20, <1>21
    DEF Next, HandlerStep, ReloadStep

(* A served session that lost its authorization stays within the reach of   *)
(* the reload in progress or of its own re-check.                           *)
LEMMA RevocationStep ==
    TypeOK /\ IdentityKnown /\ NoGhostPeers /\ AddLocals
    /\ ReachableUnlessDisplaced /\ StaleUnauthorized /\ RevocationPending
    /\ [Next]_vars => RevocationPending'
  <1> SUFFICES ASSUME TypeOK, IdentityKnown, NoGhostPeers, AddLocals,
                      ReachableUnlessDisplaced, StaleUnauthorized,
                      RevocationPending, [Next]_vars
               PROVE  RevocationPending'
    OBVIOUS
  <1> USE NoneAssumption DEF NoGhostPeers, AddLocals, ReachableUnlessDisplaced,
          StaleUnauthorized,
          RevocationPending, Authorized, Displaced, Displaces,
          TypeOK, IdentityKnown, Identified, Stages, Handshaking, Registered, Adding,
          GoTo, hubVars, reloadVars, handlerVars, identity, addLocals, peerVars
  <1>1. ASSUME NEW c \in Conns, Accept(c) PROVE RevocationPending'
    BY <1>1 DEF Accept, Free
  <1>2. ASSUME NEW c \in Conns, Upgrade(c) PROVE RevocationPending'
    BY <1>2 DEF Upgrade
  <1>3. ASSUME NEW c \in Conns, NEW i \in Ids, Hello(c, i) PROVE RevocationPending'
    BY <1>3 DEF Hello
  <1>4. ASSUME NEW c \in Conns, VerifyProof(c) PROVE RevocationPending'
    BY <1>4 DEF VerifyProof
  <1>5. ASSUME NEW c \in Conns, HandshakeFails(c) PROVE RevocationPending'
    BY <1>5 DEF HandshakeFails
  <1>6. ASSUME NEW c \in Conns, ReleaseSlot(c) PROVE RevocationPending'
    BY <1>6 DEF ReleaseSlot
  <1>7. ASSUME NEW c \in Conns, HubAdd(c) PROVE RevocationPending'
    BY <1>7 DEF HubAdd
  <1>8. ASSUME NEW c \in Conns, HubStopOldByID(c) PROVE RevocationPending'
    <2> SUFFICES ASSUME NEW e \in Conns, pc'[e] = "serving", ~stopped'[e],
                      ~Authorized(e)'
                 PROVE  reload' = "retain" \/ e \in stale' \/ Displaced(e)'
      BY Zenon DEF RevocationPending
    <2>1. ~stopped[e] /\ (Displaced(e) => Displaced(e)')
      BY <1>8, StopOldByIDFact
    <2>2. pc[e] = "serving" /\ ~Authorized(e) /\ UNCHANGED <<reload, stale>>
      BY <1>8 DEF HubStopOldByID
    <2> QED
      BY <2>1, <2>2 DEF RevocationPending
  <1>9. ASSUME NEW c \in Conns, HubStopOldByMAC(c) PROVE RevocationPending'
    <2> SUFFICES ASSUME NEW e \in Conns, pc'[e] = "serving", ~stopped'[e],
                      ~Authorized(e)'
                 PROVE  reload' = "retain" \/ e \in stale' \/ Displaced(e)'
      BY Zenon DEF RevocationPending
    <2>1. ~stopped[e] /\ (Displaced(e) => Displaced(e)')
      BY <1>9, StopOldByMACFact
    <2>2. pc[e] = "serving" /\ ~Authorized(e) /\ UNCHANGED <<reload, stale>>
      BY <1>9 DEF HubStopOldByMAC
    <2> QED
      BY <2>1, <2>2 DEF RevocationPending
  <1>10. ASSUME NEW c \in Conns, Recheck(c) PROVE RevocationPending'
    BY <1>10 DEF Recheck, Authorized
  <1>11. ASSUME NEW c \in Conns, ReadFails(c) PROVE RevocationPending'
    BY <1>11 DEF ReadFails
  <1>12. ASSUME NEW c \in Conns, HubRemove(c) PROVE RevocationPending'
    BY <1>12 DEF HubRemove
  <1>13. ASSUME NEW c \in Conns, StopSelf(c) PROVE RevocationPending'
    BY <1>13 DEF StopSelf, StopPeer
  <1>14. ASSUME NEW c \in Conns, Unwind(c) PROVE RevocationPending'
    BY <1>14 DEF Unwind, EndHandler
  <1>15. ASSUME NEW c \in Conns, WriterFails(c) PROVE RevocationPending'
    BY <1>15 DEF WriterFails, StopPeer
  <1>16. ASSUME NEW c \in Conns, WriterDone(c) PROVE RevocationPending'
    BY <1>16 DEF WriterDone
  <1>17. ASSUME NEW cfg \in Configs, SwapClients(cfg) PROVE RevocationPending'
    BY <1>17 DEF SwapClients
  <1>18. CASE RetainAuthorized
    BY <1>18 DEF RetainAuthorized
  <1>19. ASSUME NEW c \in Conns, StopStale(c) PROVE RevocationPending'
    <2> SUFFICES ASSUME NEW e \in Conns, pc'[e] = "serving", ~stopped'[e],
                      ~Authorized(e)'
                 PROVE  reload' = "retain" \/ e \in stale' \/ Displaced(e)'
      BY Zenon DEF RevocationPending
    <2>1. ~stopped[e] /\ e # c
      BY <1>19, StopPeerFact DEF StopStale
    <2> QED
      BY <1>19, <2>1 DEF StopStale
  <1>20. CASE ReloadDone
    BY <1>20 DEF ReloadDone
  <1>21. CASE UNCHANGED vars
    BY <1>21 DEF vars
  <1> QED
    BY <1>1, <1>2, <1>3, <1>4, <1>5, <1>6, <1>7, <1>8, <1>9, <1>10,
       <1>11, <1>12, <1>13, <1>14, <1>15, <1>16, <1>17, <1>18, <1>19, <1>20, <1>21
    DEF Next, HandlerStep, ReloadStep

(***************************************************************************)
(* The theorems.                                                           *)
(***************************************************************************)
IInv ==
    /\ TypeOK /\ IdentityKnown
    /\ NoGhostPeers /\ AddLocals /\ ReachableUnlessDisplaced
    /\ StaleUnauthorized /\ RevocationPending

(* The conjunction is an invariant of the relay.                            *)
LEMMA Invariance == Spec => []IInv
  <1>1. Init => IInv
    <2>1. Init => TypeOK /\ IdentityKnown
      BY InitType
    <2>2. Init => NoGhostPeers /\ AddLocals /\ ReachableUnlessDisplaced
      BY DEF Init, NoGhostPeers, AddLocals, ReachableUnlessDisplaced, Registered,
          Adding
    <2>3. Init => StaleUnauthorized /\ RevocationPending
      BY DEF Init, StaleUnauthorized, RevocationPending
    <2> QED
      BY <2>1, <2>2, <2>3 DEF IInv
  <1>2. IInv /\ [Next]_vars => IInv'
    BY TypeStep, GhostStep, AddLocalsStep, ReachableStep, StaleStep,
        RevocationStep DEF IInv
  <1> QED
    BY <1>1, <1>2, PTL DEF Spec

(* However additions, removals, reloads and failures interleave, the tables *)
(* of the hub hold only peers whose handler will still take them out.       *)
THEOREM HubHasNoGhosts == Spec => []NoGhostPeers
  <1>1. IInv => NoGhostPeers
    BY DEF IInv
  <1> QED
    BY <1>1, Invariance, PTL

(* A registered peer nobody stopped is found through both tables of the hub *)
(* or is about to be stopped by the hub.add that displaced it.              *)
THEOREM RegisteredIsReachable == Spec => []ReachableUnlessDisplaced
  <1>1. IInv => ReachableUnlessDisplaced
    BY DEF IInv
  <1> QED
    BY <1>1, Invariance, PTL

(* No two live sessions share an identity or an address, except while       *)
(* hub.add is stopping one of them.                                         *)
THEOREM SessionsAreUnique == Spec => []OneSessionPerIdentity
  <1>1. IInv => OneSessionPerIdentity
    BY DEF IInv, OneSessionPerIdentity, ReachableUnlessDisplaced, Registered
  <1> QED
    BY <1>1, Invariance, PTL

(* When Reload has returned, every session of a revoked identity or a moved *)
(* address is stopped or about to be: the scan of the hub, the re-check     *)
(* after registration and hub.add leave no gap between them.                *)
THEOREM RevocationIsImmediate == Spec => []RevocationTakesEffect
  <1>1. IInv => RevocationTakesEffect
    BY DEF IInv, RevocationTakesEffect, RevocationPending, StaleUnauthorized
  <1> QED
    BY <1>1, Invariance, PTL

(* Reload never stops a session that the configuration it applies           *)
(* authorizes, although hub.mu is free between its scan and its stops.      *)
THEOREM ReloadIsSelective == Spec => ReloadSparesAuthorized
  <1> DEFINE Spares == \A c \in Conns :
                 c \in stale /\ stopped'[c] /\ ~stopped[c] => ~Authorized(c)
  <1>1. IInv /\ [Next]_vars => [Spares]_vars
    BY DEF IInv, StaleUnauthorized
  <1> QED
    BY <1>1, Invariance, PTL DEF Spec, ReloadSparesAuthorized

----------------------------------------------------------------------------
(***************************************************************************)
(* The relay implements Membership, for every set of connections,          *)
(* identities, addresses and configurations.                               *)
(***************************************************************************)

(***************************************************************************)
(* What the refinement needs beyond IInv: nothing refers to the peer of a  *)
(* handler that has not reached hub.add yet, so no one can stop it; the    *)
(* identity and address of a handler are a pair some list has; a peer that *)
(* a hub.add is about to stop has lost a table entry already.              *)
(***************************************************************************)
Early == Handshaking \cup {"slot", "add"}

EarlyUntouched ==
    \A c \in Conns : pc[c] \in Early =>
        /\ ~stopped[c] /\ ~writer[c] /\ c \notin stale
        /\ \A d \in Conns :
              pc[d] \in Adding => oldByID[d] # c /\ oldByMAC[d] # c

IdentityConfigured ==
    \A c \in Conns :
        pc[c] \in Identified => \E L \in Configs : L[id[c]] = mac[c]

DisplacedUnseated ==
    \A c, d \in Conns : Displaces(d, c) /\ pc[c] \in Registered =>
        byID[id[c]] # c \/ byMAC[mac[c]] # c

(* A handler keeps the pair of identity and address of the record that      *)
(* authenticate looked up, and every record is part of some list.           *)
LEMMA ConfiguredStep ==
    TypeOK /\ IdentityConfigured /\ [Next]_vars => IdentityConfigured'
  <1> SUFFICES ASSUME TypeOK, IdentityConfigured, [Next]_vars
               PROVE  IdentityConfigured'
    OBVIOUS
  <1> USE DEF IdentityConfigured,
          TypeOK, IdentityKnown, Identified, Stages, Handshaking, Registered, Adding,
          GoTo, hubVars, reloadVars, handlerVars, identity, addLocals, peerVars
  <1>1. ASSUME NEW c \in Conns, Accept(c) PROVE IdentityConfigured'
    BY <1>1 DEF Accept, Free
  <1>2. ASSUME NEW c \in Conns, Upgrade(c) PROVE IdentityConfigured'
    BY <1>2 DEF Upgrade
  <1>3. ASSUME NEW c \in Conns, NEW i \in Ids, Hello(c, i) PROVE IdentityConfigured'
    BY <1>3 DEF Hello
  <1>4. ASSUME NEW c \in Conns, VerifyProof(c) PROVE IdentityConfigured'
    BY <1>4 DEF VerifyProof
  <1>5. ASSUME NEW c \in Conns, HandshakeFails(c) PROVE IdentityConfigured'
    BY <1>5 DEF HandshakeFails
  <1>6. ASSUME NEW c \in Conns, ReleaseSlot(c) PROVE IdentityConfigured'
    BY <1>6 DEF ReleaseSlot
  <1>7. ASSUME NEW c \in Conns, HubAdd(c) PROVE IdentityConfigured'
    BY <1>7 DEF HubAdd
  <1>8. ASSUME NEW c \in Conns, HubStopOldByID(c) PROVE IdentityConfigured'
    BY <1>8 DEF HubStopOldByID, StopPeer
  <1>9. ASSUME NEW c \in Conns, HubStopOldByMAC(c) PROVE IdentityConfigured'
    BY <1>9 DEF HubStopOldByMAC, StopPeer
  <1>10. ASSUME NEW c \in Conns, Recheck(c) PROVE IdentityConfigured'
    BY <1>10 DEF Recheck
  <1>11. ASSUME NEW c \in Conns, ReadFails(c) PROVE IdentityConfigured'
    BY <1>11 DEF ReadFails
  <1>12. ASSUME NEW c \in Conns, HubRemove(c) PROVE IdentityConfigured'
    BY <1>12 DEF HubRemove
  <1>13. ASSUME NEW c \in Conns, StopSelf(c) PROVE IdentityConfigured'
    BY <1>13 DEF StopSelf, StopPeer
  <1>14. ASSUME NEW c \in Conns, Unwind(c) PROVE IdentityConfigured'
    BY <1>14 DEF Unwind, EndHandler
  <1>15. ASSUME NEW c \in Conns, WriterFails(c) PROVE IdentityConfigured'
    BY <1>15 DEF WriterFails, StopPeer
  <1>16. ASSUME NEW c \in Conns, WriterDone(c) PROVE IdentityConfigured'
    BY <1>16 DEF WriterDone
  <1>17. ASSUME NEW cfg \in Configs, SwapClients(cfg) PROVE IdentityConfigured'
    BY <1>17 DEF SwapClients
  <1>18. CASE RetainAuthorized
    BY <1>18 DEF RetainAuthorized
  <1>19. ASSUME NEW c \in Conns, StopStale(c) PROVE IdentityConfigured'
    BY <1>19 DEF StopStale, StopPeer
  <1>20. CASE ReloadDone
    BY <1>20 DEF ReloadDone
  <1>21. CASE UNCHANGED vars
    BY <1>21 DEF vars
  <1> QED
    BY <1>1, <1>2, <1>3, <1>4, <1>5, <1>6, <1>7, <1>8, <1>9, <1>10, <1>11,
       <1>12, <1>13, <1>14, <1>15, <1>16, <1>17, <1>18, <1>19, <1>20, <1>21
    DEF Next, HandlerStep, ReloadStep

(* No step stops, or leaves behind a reference to, the peer of a handler    *)
(* that has not reached hub.add.                                            *)
LEMMA EarlyStep ==
    TypeOK /\ IdentityKnown /\ NoGhostPeers /\ EarlyUntouched /\ [Next]_vars
    => EarlyUntouched'
  <1> SUFFICES ASSUME TypeOK, IdentityKnown, NoGhostPeers, EarlyUntouched,
                      [Next]_vars
               PROVE  EarlyUntouched'
    OBVIOUS
  <1> USE NoneAssumption DEF EarlyUntouched, Early, NoGhostPeers,
          TypeOK, IdentityKnown, Identified, Stages, Handshaking, Registered, Adding,
          GoTo, hubVars, reloadVars, handlerVars, identity, addLocals, peerVars
  <1>1. ASSUME NEW c \in Conns, Accept(c) PROVE EarlyUntouched'
    BY <1>1 DEF Accept, Free
  <1>2. ASSUME NEW c \in Conns, Upgrade(c) PROVE EarlyUntouched'
    BY <1>2 DEF Upgrade
  <1>3. ASSUME NEW c \in Conns, NEW i \in Ids, Hello(c, i) PROVE EarlyUntouched'
    BY <1>3 DEF Hello
  <1>4. ASSUME NEW c \in Conns, VerifyProof(c) PROVE EarlyUntouched'
    BY <1>4 DEF VerifyProof
  <1>5. ASSUME NEW c \in Conns, HandshakeFails(c) PROVE EarlyUntouched'
    BY <1>5 DEF HandshakeFails
  <1>6. ASSUME NEW c \in Conns, ReleaseSlot(c) PROVE EarlyUntouched'
    BY <1>6 DEF ReleaseSlot
  <1>7. ASSUME NEW c \in Conns, HubAdd(c) PROVE EarlyUntouched'
    BY <1>7 DEF HubAdd
  <1>8. ASSUME NEW c \in Conns, HubStopOldByID(c) PROVE EarlyUntouched'
    BY <1>8 DEF HubStopOldByID, StopPeer
  <1>9. ASSUME NEW c \in Conns, HubStopOldByMAC(c) PROVE EarlyUntouched'
    BY <1>9 DEF HubStopOldByMAC, StopPeer
  <1>10. ASSUME NEW c \in Conns, Recheck(c) PROVE EarlyUntouched'
    BY <1>10 DEF Recheck
  <1>11. ASSUME NEW c \in Conns, ReadFails(c) PROVE EarlyUntouched'
    BY <1>11 DEF ReadFails
  <1>12. ASSUME NEW c \in Conns, HubRemove(c) PROVE EarlyUntouched'
    BY <1>12 DEF HubRemove
  <1>13. ASSUME NEW c \in Conns, StopSelf(c) PROVE EarlyUntouched'
    BY <1>13 DEF StopSelf, StopPeer
  <1>14. ASSUME NEW c \in Conns, Unwind(c) PROVE EarlyUntouched'
    BY <1>14 DEF Unwind, EndHandler
  <1>15. ASSUME NEW c \in Conns, WriterFails(c) PROVE EarlyUntouched'
    BY <1>15 DEF WriterFails, StopPeer
  <1>16. ASSUME NEW c \in Conns, WriterDone(c) PROVE EarlyUntouched'
    BY <1>16 DEF WriterDone
  <1>17. ASSUME NEW cfg \in Configs, SwapClients(cfg) PROVE EarlyUntouched'
    BY <1>17 DEF SwapClients
  <1>18. CASE RetainAuthorized
    BY <1>18 DEF RetainAuthorized
  <1>19. ASSUME NEW c \in Conns, StopStale(c) PROVE EarlyUntouched'
    BY <1>19 DEF StopStale, StopPeer
  <1>20. CASE ReloadDone
    BY <1>20 DEF ReloadDone
  <1>21. CASE UNCHANGED vars
    BY <1>21 DEF vars
  <1> QED
    BY <1>1, <1>2, <1>3, <1>4, <1>5, <1>6, <1>7, <1>8, <1>9, <1>10, <1>11,
       <1>12, <1>13, <1>14, <1>15, <1>16, <1>17, <1>18, <1>19, <1>20, <1>21
    DEF Next, HandlerStep, ReloadStep

(* A displaced peer has lost an entry of the hub's tables for good: only    *)
(* its own hub.add could have put it back.                                  *)
LEMMA DisplacedStep ==
    TypeOK /\ IdentityKnown /\ NoGhostPeers /\ EarlyUntouched
    /\ DisplacedUnseated /\ [Next]_vars => DisplacedUnseated'
  <1> SUFFICES ASSUME TypeOK, IdentityKnown, NoGhostPeers, EarlyUntouched,
                      DisplacedUnseated, [Next]_vars
               PROVE  DisplacedUnseated'
    OBVIOUS
  <1> USE NoneAssumption DEF DisplacedUnseated, Displaces, EarlyUntouched, Early,
          NoGhostPeers,
          TypeOK, IdentityKnown, Identified, Stages, Handshaking, Registered, Adding,
          GoTo, hubVars, reloadVars, handlerVars, identity, addLocals, peerVars
  <1>1. ASSUME NEW c \in Conns, Accept(c) PROVE DisplacedUnseated'
    BY <1>1 DEF Accept, Free
  <1>2. ASSUME NEW c \in Conns, Upgrade(c) PROVE DisplacedUnseated'
    BY <1>2 DEF Upgrade
  <1>3. ASSUME NEW c \in Conns, NEW i \in Ids, Hello(c, i) PROVE DisplacedUnseated'
    BY <1>3 DEF Hello
  <1>4. ASSUME NEW c \in Conns, VerifyProof(c) PROVE DisplacedUnseated'
    BY <1>4 DEF VerifyProof
  <1>5. ASSUME NEW c \in Conns, HandshakeFails(c) PROVE DisplacedUnseated'
    BY <1>5 DEF HandshakeFails
  <1>6. ASSUME NEW c \in Conns, ReleaseSlot(c) PROVE DisplacedUnseated'
    BY <1>6 DEF ReleaseSlot
  <1>7. ASSUME NEW c \in Conns, HubAdd(c) PROVE DisplacedUnseated'
    BY <1>7 DEF HubAdd
  <1>8. ASSUME NEW c \in Conns, HubStopOldByID(c) PROVE DisplacedUnseated'
    BY <1>8 DEF HubStopOldByID, StopPeer
  <1>9. ASSUME NEW c \in Conns, HubStopOldByMAC(c) PROVE DisplacedUnseated'
    BY <1>9 DEF HubStopOldByMAC, StopPeer
  <1>10. ASSUME NEW c \in Conns, Recheck(c) PROVE DisplacedUnseated'
    BY <1>10 DEF Recheck
  <1>11. ASSUME NEW c \in Conns, ReadFails(c) PROVE DisplacedUnseated'
    BY <1>11 DEF ReadFails
  <1>12. ASSUME NEW c \in Conns, HubRemove(c) PROVE DisplacedUnseated'
    BY <1>12 DEF HubRemove
  <1>13. ASSUME NEW c \in Conns, StopSelf(c) PROVE DisplacedUnseated'
    BY <1>13 DEF StopSelf, StopPeer
  <1>14. ASSUME NEW c \in Conns, Unwind(c) PROVE DisplacedUnseated'
    BY <1>14 DEF Unwind, EndHandler
  <1>15. ASSUME NEW c \in Conns, WriterFails(c) PROVE DisplacedUnseated'
    BY <1>15 DEF WriterFails, StopPeer
  <1>16. ASSUME NEW c \in Conns, WriterDone(c) PROVE DisplacedUnseated'
    BY <1>16 DEF WriterDone
  <1>17. ASSUME NEW cfg \in Configs, SwapClients(cfg) PROVE DisplacedUnseated'
    BY <1>17 DEF SwapClients
  <1>18. CASE RetainAuthorized
    BY <1>18 DEF RetainAuthorized
  <1>19. ASSUME NEW c \in Conns, StopStale(c) PROVE DisplacedUnseated'
    BY <1>19 DEF StopStale, StopPeer
  <1>20. CASE ReloadDone
    BY <1>20 DEF ReloadDone
  <1>21. CASE UNCHANGED vars
    BY <1>21 DEF vars
  <1> QED
    BY <1>1, <1>2, <1>3, <1>4, <1>5, <1>6, <1>7, <1>8, <1>9, <1>10, <1>11,
       <1>12, <1>13, <1>14, <1>15, <1>16, <1>17, <1>18, <1>19, <1>20, <1>21
    DEF Next, HandlerStep, ReloadStep

(***************************************************************************)
(* What a step of the relay means for Membership, connection by connection. *)
(***************************************************************************)
SameSeat(d) ==
    /\ Seated(d)' <=> Seated(d)
    /\ Seated(d) => /\ id'[d] = id[d] /\ mac'[d] = mac[d]
                    /\ pc'[d] = "serving" <=> pc[d] = "serving"

Settled == reload = "idle"

(* A step that touches no seat, no session that carries frames and no list  *)
(* is invisible.                                                            *)
LEMMA Invisible ==
    ASSUME \A d \in Conns : SameSeat(d),
           clients' = clients, Settled' <=> Settled
    PROVE  UNCHANGED Member!vars
  <1>1. SeatIds' = SeatIds
    BY DEF SeatIds, SameSeat
  <1>2. SeatMacs' = SeatMacs
    BY DEF SeatMacs, SameSeat
  <1>3. Carrying' = Carrying
    BY DEF Carrying, SameSeat
  <1>4. (reload = "idle")' = (reload = "idle")
    BY DEF Settled
  <1> QED
    BY <1>1, <1>2, <1>3, <1>4 DEF Member!vars

(* A step that at most takes the seats of one session away is its leaving,  *)
(* or invisible.                                                            *)
LEMMA OneLeaves ==
    ASSUME NEW c \in Conns, TypeOK, IdentityKnown,
           \A d \in Conns \ {c} : SameSeat(d),
           ~Seated(c)',
           clients' = clients, Settled' <=> Settled
    PROVE  Member!Leave(c) \/ UNCHANGED Member!vars
  <1>1. CASE Seated(c)
    <2>1. SeatIds[c] # None
      BY <1>1, NoneAssumption DEF SeatIds, Seated, IdentityKnown, Identified
    <2>2. SeatIds' = [SeatIds EXCEPT ![c] = None]
      BY DEF SeatIds, SameSeat
    <2>3. SeatMacs' = [SeatMacs EXCEPT ![c] = None]
      BY DEF SeatMacs, SameSeat
    <2>4. Carrying' = Carrying \ {c}
      BY DEF Carrying, SameSeat
    <2>5. (reload = "idle")' = (reload = "idle")
      BY DEF Settled
    <2> QED
      BY <2>1, <2>2, <2>3, <2>4, <2>5 DEF Member!Leave
  <1>2. CASE ~Seated(c)
    <2>1. SameSeat(c)
      BY <1>2 DEF SameSeat
    <2> QED
      BY <2>1, Invisible
  <1> QED
    BY <1>1, <1>2

RefInv == IInv /\ EarlyUntouched /\ IdentityConfigured /\ DisplacedUnseated

(* Every step of a handler, of writeLoop and of Reload is a step of         *)
(* Membership or invisible in it.                                           *)
LEMMA StepSimulation ==
    RefInv /\ [Next]_vars => Member!Next \/ UNCHANGED Member!vars
  <1> SUFFICES ASSUME RefInv, [Next]_vars
               PROVE  Member!Next \/ UNCHANGED Member!vars
    OBVIOUS
  <1> USE NoneAssumption DEF RefInv, IInv, NoGhostPeers, EarlyUntouched, Early,
          SameSeat, Seated,
          TypeOK, IdentityKnown, Identified, Stages, Handshaking, Registered, Adding,
          GoTo, hubVars, reloadVars, handlerVars, identity, addLocals, peerVars
  <1>1. ASSUME NEW c \in Conns, Accept(c) PROVE Member!Next \/ UNCHANGED Member!vars
    <2>1. \A d \in Conns : SameSeat(d)
      BY <1>1 DEF Accept, Free
    <2>2. clients' = clients /\ (Settled' <=> Settled)
      BY <1>1 DEF Accept, Free, Settled
    <2> QED
      BY <2>1, <2>2, Invisible
  <1>2. ASSUME NEW c \in Conns, Upgrade(c) PROVE Member!Next \/ UNCHANGED Member!vars
    <2>1. \A d \in Conns : SameSeat(d)
      BY <1>2 DEF Upgrade
    <2>2. clients' = clients /\ (Settled' <=> Settled)
      BY <1>2 DEF Upgrade, Settled
    <2> QED
      BY <2>1, <2>2, Invisible
  <1>3. ASSUME NEW c \in Conns, NEW i \in Ids, Hello(c, i)
        PROVE  Member!Next \/ UNCHANGED Member!vars
    <2>1. \A d \in Conns : SameSeat(d)
      BY <1>3 DEF Hello
    <2>2. clients' = clients /\ (Settled' <=> Settled)
      BY <1>3 DEF Hello, Settled
    <2> QED
      BY <2>1, <2>2, Invisible
  <1>4. ASSUME NEW c \in Conns, VerifyProof(c) PROVE Member!Next \/ UNCHANGED Member!vars
    <2>1. \A d \in Conns : SameSeat(d)
      BY <1>4 DEF VerifyProof
    <2>2. clients' = clients /\ (Settled' <=> Settled)
      BY <1>4 DEF VerifyProof, Settled
    <2> QED
      BY <2>1, <2>2, Invisible
  <1>5. ASSUME NEW c \in Conns, HandshakeFails(c) PROVE Member!Next \/ UNCHANGED Member!vars
    <2>1. \A d \in Conns : SameSeat(d)
      BY <1>5 DEF HandshakeFails
    <2>2. clients' = clients /\ (Settled' <=> Settled)
      BY <1>5 DEF HandshakeFails, Settled
    <2> QED
      BY <2>1, <2>2, Invisible
  <1>6. ASSUME NEW c \in Conns, ReleaseSlot(c) PROVE Member!Next \/ UNCHANGED Member!vars
    <2>1. \A d \in Conns : SameSeat(d)
      BY <1>6 DEF ReleaseSlot
    <2>2. clients' = clients /\ (Settled' <=> Settled)
      BY <1>6 DEF ReleaseSlot, Settled
    <2> QED
      BY <2>1, <2>2, Invisible
  <1>7. ASSUME NEW c \in Conns, HubAdd(c) PROVE Member!Next \/ UNCHANGED Member!vars
    <2>1. ~Seated(c) /\ Seated(c)' /\ pc'[c] # "serving"
      BY <1>7 DEF HubAdd
    <2>2. ASSUME NEW d \in Conns, d # c
          PROVE  /\ Seated(d)' <=> Seated(d) /\ id[d] # id[c] /\ mac[d] # mac[c]
                 /\ id'[d] = id[d] /\ mac'[d] = mac[d] /\ pc'[d] = pc[d]
      BY <1>7, <2>2 DEF HubAdd
    <2> DEFINE out(d) == d # c /\ (SeatIds[d] = id[c] \/ SeatMacs[d] = mac[c])
    <2>3. id[c] \in Ids /\ mac[c] \in Macs /\ (\E L \in Configs : L[id[c]] = mac[c])
      BY <1>7 DEF HubAdd, IdentityConfigured
    <2>4. ASSUME NEW d \in Conns, d # c
          PROVE  out(d) <=> Seated(d) /\ (id[d] = id[c] \/ mac[d] = mac[c])
      BY <2>3, <2>4 DEF SeatIds, SeatMacs
    <2>5. SeatIds[c] = None
      BY <2>1 DEF SeatIds
    <2>6. SeatIds' = [d \in Conns |-> IF d = c THEN id[c] ELSE
                                      IF out(d) THEN None ELSE SeatIds[d]]
      <3>1. ASSUME NEW d \in Conns
            PROVE  SeatIds'[d] = IF d = c THEN id[c] ELSE
                                 IF out(d) THEN None ELSE SeatIds[d]
        BY <1>7, <2>1, <2>2, <2>4 DEF SeatIds, HubAdd
      <3> QED
        BY <3>1 DEF SeatIds
    <2>7. SeatMacs' = [d \in Conns |-> IF d = c THEN mac[c] ELSE
                                       IF out(d) THEN None ELSE SeatMacs[d]]
      <3>1. ASSUME NEW d \in Conns
            PROVE  SeatMacs'[d] = IF d = c THEN mac[c] ELSE
                                  IF out(d) THEN None ELSE SeatMacs[d]
        BY <1>7, <2>1, <2>2, <2>4 DEF SeatMacs, HubAdd
      <3> QED
        BY <3>1 DEF SeatMacs
    <2>8. Carrying' = {d \in Carrying : ~out(d)}
      BY <2>1, <2>2, <2>4 DEF Carrying
    <2>9. clients' = clients /\ (reload = "idle")' = (reload = "idle")
      BY <1>7 DEF HubAdd
    <2>10. Member!Join(c, id[c], mac[c])
      BY <2>3, <2>5, <2>6, <2>7, <2>8, <2>9 DEF Member!Join
    <2> QED
      BY <2>3, <2>10 DEF Member!Next
  <1>8. ASSUME NEW c \in Conns, HubStopOldByID(c) PROVE Member!Next \/ UNCHANGED Member!vars
    <2>0. PICK p : p = oldByID[c]
      OBVIOUS
    <2>1. \A d \in Conns : stopped'[d] <=> (stopped[d] \/ d = p)
      BY <1>8, <2>0, StopPeerFact DEF HubStopOldByID
    <2>2. /\ \A d \in Conns \ {p} : SameSeat(d)
          /\ p \in Conns => ~Seated(p)'
      BY <1>8, <2>1 DEF HubStopOldByID
    <2>3. clients' = clients /\ (Settled' <=> Settled)
      BY <1>8 DEF HubStopOldByID, Settled
    <2>4. CASE p \in Conns
      <3> HIDE DEF Seated, SameSeat, TypeOK, IdentityKnown
      <3>1. Member!Leave(p) \/ UNCHANGED Member!vars
        BY <2>2, <2>3, <2>4, OneLeaves
      <3> QED
        BY <2>4, <3>1 DEF Member!Next
    <2>5. CASE p \notin Conns
      BY <2>2, <2>3, <2>5, Invisible
    <2> QED
      BY <2>4, <2>5
  <1>9. ASSUME NEW c \in Conns, HubStopOldByMAC(c) PROVE Member!Next \/ UNCHANGED Member!vars
    <2>1. CASE oldByMAC[c] = oldByID[c]
      <3>1. \A d \in Conns : SameSeat(d)
        BY <1>9, <2>1 DEF HubStopOldByMAC
      <3>2. clients' = clients /\ (Settled' <=> Settled)
        BY <1>9 DEF HubStopOldByMAC, Settled
      <3> QED
        BY <3>1, <3>2, Invisible
    <2>2. CASE oldByMAC[c] # oldByID[c]
      <3>0. PICK p : p = oldByMAC[c]
        OBVIOUS
      <3>1. \A d \in Conns : stopped'[d] <=> (stopped[d] \/ d = p)
        BY <1>9, <2>2, <3>0, StopPeerFact DEF HubStopOldByMAC
      <3>2. \A d \in Conns \ {p} : SameSeat(d)
        <4>1. UNCHANGED <<id, mac, byID, byMAC>>
          BY <1>9, <2>2 DEF HubStopOldByMAC
        <4>2. \A d \in Conns : d # c => pc'[d] = pc[d]
          BY <1>9, <2>2 DEF HubStopOldByMAC
        <4>3. pc[c] = "stopMAC" /\ pc'[c] = "recheck"
          BY <1>9, <2>2 DEF HubStopOldByMAC
        <4> QED
          BY <3>1, <4>1, <4>2, <4>3
      <3>3. p \in Conns => ~Seated(p)'
        BY <3>1
      <3>4. clients' = clients /\ (Settled' <=> Settled)
        BY <1>9 DEF HubStopOldByMAC, Settled
      <3>5. CASE p \in Conns
        <4> HIDE DEF Seated, SameSeat, TypeOK, IdentityKnown
        <4>1. Member!Leave(p) \/ UNCHANGED Member!vars
          BY <3>2, <3>3, <3>4, <3>5, OneLeaves
        <4> QED
          BY <3>5, <4>1 DEF Member!Next
      <3>6. CASE p \notin Conns
        BY <3>2, <3>4, <3>6, Invisible
      <3> QED
        BY <3>5, <3>6
    <2> QED
      BY <2>1, <2>2
  <1>10. ASSUME NEW c \in Conns, Recheck(c) PROVE Member!Next \/ UNCHANGED Member!vars
    <2>1. CASE Authorized(c) /\ Seated(c)
      <3>1. \A d \in Conns : (Seated(d)' <=> Seated(d))
        BY <1>10 DEF Recheck
      <3>2. UNCHANGED <<clients, reload, id, mac>>
        BY <1>10 DEF Recheck
      <3>3. SeatIds' = SeatIds /\ SeatMacs' = SeatMacs
        BY <3>1, <3>2 DEF SeatIds, SeatMacs
      <3>4. Carrying' = Carrying \cup {c} /\ c \notin Carrying
        BY <1>10, <2>1, <3>1 DEF Recheck, Carrying
      <3>5. SeatIds[c] = id[c] /\ SeatMacs[c] = mac[c] /\ id[c] # None
        BY <2>1 DEF SeatIds, SeatMacs
      <3>6. Member!Carry(c)
        BY <2>1, <3>2, <3>3, <3>4, <3>5 DEF Member!Carry, Member!Allowed, Authorized
      <3> QED
        BY <3>6 DEF Member!Next
    <2>2. CASE ~(Authorized(c) /\ Seated(c))
      <3>1. \A d \in Conns : SameSeat(d)
        BY <1>10, <2>2 DEF Recheck
      <3>2. clients' = clients /\ (Settled' <=> Settled)
        BY <1>10 DEF Recheck, Settled
      <3> QED
        BY <3>1, <3>2, Invisible
    <2> QED
      BY <2>1, <2>2
  <1>11. ASSUME NEW c \in Conns, ReadFails(c) PROVE Member!Next \/ UNCHANGED Member!vars
    <2>1. \A d \in Conns : (Seated(d)' <=> Seated(d))
      BY <1>11 DEF ReadFails
    <2>2. UNCHANGED <<clients, reload, id, mac>>
      BY <1>11 DEF ReadFails
    <2>3. SeatIds' = SeatIds /\ SeatMacs' = SeatMacs
      BY <2>1, <2>2 DEF SeatIds, SeatMacs
    <2>4. Carrying' = Carrying \ {c}
      BY <1>11, <2>1 DEF ReadFails, Carrying
    <2>5. CASE c \in Carrying
      BY <2>2, <2>3, <2>4, <2>5 DEF Member!Hush, Member!Next
    <2>6. CASE c \notin Carrying
      BY <2>2, <2>3, <2>4, <2>6 DEF Member!vars
    <2> QED
      BY <2>5, <2>6
  <1>12. ASSUME NEW c \in Conns, HubRemove(c) PROVE Member!Next \/ UNCHANGED Member!vars
    <2>1. (\A d \in Conns \ {c} : SameSeat(d)) /\ ~Seated(c)'
      BY <1>12 DEF HubRemove
    <2>2. clients' = clients /\ (Settled' <=> Settled)
      BY <1>12 DEF HubRemove, Settled
    <2> QED
      BY <2>1, <2>2, OneLeaves DEF Member!Next
  <1>13. ASSUME NEW c \in Conns, StopSelf(c) PROVE Member!Next \/ UNCHANGED Member!vars
    <2> DEFINE p == c
    <2>1. \A d \in Conns : stopped'[d] <=> (stopped[d] \/ d = p)
      BY <1>13, StopPeerFact DEF StopSelf
    <2>2. /\ \A d \in Conns \ {p} : SameSeat(d)
          /\ p \in Conns => ~Seated(p)'
      BY <1>13, <2>1 DEF StopSelf
    <2>3. clients' = clients /\ (Settled' <=> Settled)
      BY <1>13 DEF StopSelf, Settled
    <2>4. CASE p \in Conns
      <3> HIDE DEF Seated, SameSeat, TypeOK, IdentityKnown
      <3>1. Member!Leave(p) \/ UNCHANGED Member!vars
        BY <2>2, <2>3, <2>4, OneLeaves
      <3> QED
        BY <2>4, <3>1 DEF Member!Next
    <2>5. CASE p \notin Conns
      BY <2>2, <2>3, <2>5, Invisible
    <2> QED
      BY <2>4, <2>5
  <1>14. ASSUME NEW c \in Conns, Unwind(c) PROVE Member!Next \/ UNCHANGED Member!vars
    <2>1. \A d \in Conns : SameSeat(d)
      BY <1>14 DEF Unwind, EndHandler
    <2>2. clients' = clients /\ (Settled' <=> Settled)
      BY <1>14 DEF Unwind, EndHandler, Settled
    <2> QED
      BY <2>1, <2>2, Invisible
  <1>15. ASSUME NEW c \in Conns, WriterFails(c) PROVE Member!Next \/ UNCHANGED Member!vars
    <2> DEFINE p == c
    <2>1. \A d \in Conns : stopped'[d] <=> (stopped[d] \/ d = p)
      BY <1>15, StopPeerFact DEF WriterFails
    <2>2. /\ \A d \in Conns \ {p} : SameSeat(d)
          /\ p \in Conns => ~Seated(p)'
      BY <1>15, <2>1 DEF WriterFails
    <2>3. clients' = clients /\ (Settled' <=> Settled)
      BY <1>15 DEF WriterFails, Settled
    <2>4. CASE p \in Conns
      <3> HIDE DEF Seated, SameSeat, TypeOK, IdentityKnown
      <3>1. Member!Leave(p) \/ UNCHANGED Member!vars
        BY <2>2, <2>3, <2>4, OneLeaves
      <3> QED
        BY <2>4, <3>1 DEF Member!Next
    <2>5. CASE p \notin Conns
      BY <2>2, <2>3, <2>5, Invisible
    <2> QED
      BY <2>4, <2>5
  <1>16. ASSUME NEW c \in Conns, WriterDone(c) PROVE Member!Next \/ UNCHANGED Member!vars
    <2>1. \A d \in Conns : SameSeat(d)
      BY <1>16 DEF WriterDone
    <2>2. clients' = clients /\ (Settled' <=> Settled)
      BY <1>16 DEF WriterDone, Settled
    <2> QED
      BY <2>1, <2>2, Invisible
  <1>17. ASSUME NEW cfg \in Configs, SwapClients(cfg) PROVE Member!Next \/ UNCHANGED Member!vars
    <2>1. \A d \in Conns : SameSeat(d)
      BY <1>17 DEF SwapClients
    <2>2. SeatIds' = SeatIds /\ SeatMacs' = SeatMacs /\ Carrying' = Carrying
      BY <2>1 DEF SeatIds, SeatMacs, Carrying, SameSeat
    <2>3. Member!Publish(cfg)
      BY <1>17, <2>2 DEF SwapClients, Member!Publish
    <2> QED
      BY <2>3 DEF Member!Next
  <1>18. CASE RetainAuthorized
    <2>1. \A d \in Conns : SameSeat(d)
      BY <1>18 DEF RetainAuthorized
    <2>2. clients' = clients /\ (Settled' <=> Settled)
      BY <1>18 DEF RetainAuthorized, Settled
    <2> QED
      BY <2>1, <2>2, Invisible
  <1>19. ASSUME NEW c \in Conns, StopStale(c) PROVE Member!Next \/ UNCHANGED Member!vars
    <2> DEFINE p == c
    <2>1. \A d \in Conns : stopped'[d] <=> (stopped[d] \/ d = p)
      BY <1>19, StopPeerFact DEF StopStale
    <2>2. /\ \A d \in Conns \ {p} : SameSeat(d)
          /\ p \in Conns => ~Seated(p)'
      BY <1>19, <2>1 DEF StopStale
    <2>3. clients' = clients /\ (Settled' <=> Settled)
      BY <1>19 DEF StopStale, Settled
    <2>4. CASE p \in Conns
      <3> HIDE DEF Seated, SameSeat, TypeOK, IdentityKnown
      <3>1. Member!Leave(p) \/ UNCHANGED Member!vars
        BY <2>2, <2>3, <2>4, OneLeaves
      <3> QED
        BY <2>4, <3>1 DEF Member!Next
    <2>5. CASE p \notin Conns
      BY <2>2, <2>3, <2>5, Invisible
    <2> QED
      BY <2>4, <2>5
  <1>20. CASE ReloadDone
    <2>1. \A d \in Conns : SameSeat(d)
      BY <1>20 DEF ReloadDone
    <2>2. SeatIds' = SeatIds /\ SeatMacs' = SeatMacs /\ Carrying' = Carrying
      BY <2>1 DEF SeatIds, SeatMacs, Carrying, SameSeat
    <2>3. ASSUME NEW c \in Carrying PROVE clients[SeatIds[c]] = SeatMacs[c]
      <3>1. c \in Conns /\ Seated(c) /\ pc[c] = "serving" /\ ~stopped[c]
        BY <2>3 DEF Carrying
      <3>2. ~Displaced(c)
        BY <3>1 DEF DisplacedUnseated, Displaced
      <3>3. Authorized(c)
        BY <1>20, <3>1, <3>2 DEF ReloadDone, RevocationPending
      <3> QED
        BY <3>1, <3>3 DEF Authorized, SeatIds, SeatMacs
    <2>4. Member!Settle
      BY <1>20, <2>2, <2>3 DEF ReloadDone, Member!Settle, Member!Allowed
    <2> QED
      BY <2>4 DEF Member!Next
  <1>21. CASE UNCHANGED vars
    <2>1. \A d \in Conns : SameSeat(d)
      BY <1>21 DEF vars
    <2>2. clients' = clients /\ (Settled' <=> Settled)
      BY <1>21 DEF vars, Settled
    <2> QED
      BY <2>1, <2>2, Invisible
  <1> QED
    BY <1>1, <1>2, <1>3, <1>4, <1>5, <1>6, <1>7, <1>8, <1>9, <1>10, <1>11,
       <1>12, <1>13, <1>14, <1>15, <1>16, <1>17, <1>18, <1>19, <1>20, <1>21
    DEF Next, HandlerStep, ReloadStep

(* The relay as New leaves it is an empty registry.                         *)
LEMMA InitSimulation == Init => Member!Init
  <1> SUFFICES ASSUME Init PROVE Member!Init
    OBVIOUS
  <1>1. \A c \in Conns : ~Seated(c)
    BY DEF Init, Seated, Registered, Adding
  <1>2. SeatIds = [c \in Conns |-> None] /\ SeatMacs = [c \in Conns |-> None]
    BY <1>1 DEF SeatIds, SeatMacs
  <1>3. Carrying = {}
    BY <1>1 DEF Carrying
  <1> QED
    BY <1>2, <1>3 DEF Init, Member!Init

(* The handlers, writeLoops and reloads of the relay, with their stops      *)
(* outside hub.mu, together look like one atomic registry of seats: for any *)
(* number of sessions, Relay implements Membership.                         *)
THEOREM RelayIsARegistry == Spec => ImplementsMembership
  <1>1. Init => EarlyUntouched /\ IdentityConfigured /\ DisplacedUnseated
    BY DEF Init, EarlyUntouched, Early, IdentityConfigured, Identified,
           DisplacedUnseated, Displaces, Handshaking, Registered, Adding
  <1>2. RefInv /\ [Next]_vars
        => EarlyUntouched' /\ IdentityConfigured' /\ DisplacedUnseated'
    BY EarlyStep, ConfiguredStep, DisplacedStep DEF RefInv, IInv
  <1>3. Spec => []RefInv
    BY <1>1, <1>2, Invariance, PTL DEF Spec, RefInv
  <1> QED
    BY <1>3, InitSimulation, StepSimulation, PTL
    DEF Spec, ImplementsMembership, Member!Spec
============================================================================
