----------------------------- MODULE Forwarding -----------------------------
(***************************************************************************)
(* The relay's data path (src/internal/relay/relay.go): readLoop takes one *)
(* frame at a time from a client, hub.forward picks its recipients under   *)
(* hub.mu and offers it to each recipient's send queue without blocking,   *)
(* and the recipient's writeLoop takes it from there.  Frames of different *)
(* senders, joins and leaves interleave at every point at which hub.mu is  *)
(* free.  How a peer comes to be in the hub is the subject of module       *)
(* Relay; here a peer has one session, and its address is its name.        *)
(***************************************************************************)
EXTENDS Naturals, Sequences, FiniteSets

CONSTANTS
    Peers,            \* clients, each with an address of its own
    Group,            \* a broadcast or multicast destination
    Senders,          \* the peers whose hosts transmit
    ClientQueueSize,  \* capacity of peer.send
    MaxFrames         \* bound: frames the hosts transmit

ASSUME PeersAssumption == IsFiniteSet(Peers) /\ Senders \subseteq Peers /\ Group \notin Peers
ASSUME SizesAssumption == ClientQueueSize \in Nat \ {0} /\ MaxFrames \in Nat

VARIABLES
    session,    \* a peer is not yet, is, or is no longer in the hub
    stopped,    \* peer.stop has run
    sent,       \* frames the readLoops have taken from their conns
    current,    \* the frame its forward is distributing
    todo,       \* the recipients forward has still to offer it to
    queue,      \* peer.send
    delivered,  \* what writeLoop has written to the client, in order
    dropped,    \* peer.dropped
    lost,       \* frames of which writeLoop's write failed, which ends it
    addressed   \* history: frames forward has picked the peer as recipient of

vars == <<session, stopped, sent, current, todo, queue, delivered, dropped, lost, addressed>>

Destinations == Peers \cup {Group}
Frame == [src : Senders, seq : 1 .. MaxFrames]
NoFrame == [src |-> Group, seq |-> 0]

(* The type invariant; in particular no send queue outgrows its capacity.   *)
TypeOK ==
    /\ session \in [Peers -> {"new", "in", "out"}]
    /\ stopped \in [Peers -> BOOLEAN]
    /\ sent \in 0 .. MaxFrames
    /\ current \in [Peers -> Frame \cup {NoFrame}]
    /\ todo \in [Peers -> SUBSET Peers]
    /\ queue \in [Peers -> Seq(Frame)]
    /\ \A p \in Peers : Len(queue[p]) \leq ClientQueueSize
    /\ delivered \in [Peers -> Seq(Frame)]
    /\ dropped \in [Peers -> Nat]
    /\ lost \in [Peers -> {0, 1}]
    /\ addressed \in [Peers -> Nat]

Init ==
    /\ session = [p \in Peers |-> "new"]
    /\ stopped = [p \in Peers |-> FALSE]
    /\ sent = 0
    /\ current = [p \in Peers |-> NoFrame]
    /\ todo = [p \in Peers |-> {}]
    /\ queue = [p \in Peers |-> <<>>]
    /\ delivered = [p \in Peers |-> <<>>]
    /\ dropped = [p \in Peers |-> 0]
    /\ lost = [p \in Peers |-> 0]
    /\ addressed = [p \in Peers |-> 0]

InHub == {p \in Peers : session[p] = "in"}

----------------------------------------------------------------------------
\* hub.add, and writeLoop and readLoop start.
Join(p) ==
    /\ session[p] = "new"
    /\ session' = [session EXCEPT ![p] = "in"]
    /\ UNCHANGED <<stopped, sent, current, todo, queue, delivered, dropped, lost, addressed>>

\* forward's choice: the owner of a known unicast address; everybody in the
\* hub for a group address and for an address nobody has; never the sender.
Recipients(p, dst) == (IF dst \in InHub THEN {dst} ELSE InHub) \ {p}

\* readLoop reads a valid frame and forward picks its recipients.  A conn that
\* peer.stop has closed may still hold frames.
Read(p, dst) ==
    LET recipients == Recipients(p, dst) IN
    /\ session[p] = "in" /\ todo[p] = {}
    /\ p \in Senders /\ sent < MaxFrames
    /\ sent' = sent + 1
    /\ current' = [current EXCEPT ![p] =
          IF recipients = {} THEN NoFrame ELSE [src |-> p, seq |-> sent + 1]]
    /\ todo' = [todo EXCEPT ![p] = recipients]
    /\ addressed' = [t \in Peers |-> IF t \in recipients THEN addressed[t] + 1 ELSE addressed[t]]
    /\ UNCHANGED <<session, stopped, queue, delivered, dropped, lost>>

\* forward is done with t.
Offered(p, t) ==
    /\ todo' = [todo EXCEPT ![p] = @ \ {t}]
    /\ current' = [current EXCEPT ![p] = IF todo[p] = {t} THEN NoFrame ELSE @]
    /\ UNCHANGED <<session, stopped, sent, delivered, lost, addressed>>

OfferBlocking(p, t) ==
    /\ t \in todo[p]
    /\ Len(queue[t]) < ClientQueueSize
    /\ queue' = [queue EXCEPT ![t] = Append(@, current[p])]
    /\ Offered(p, t)
    /\ UNCHANGED dropped

OfferUncounted(p, t) ==
    /\ t \in todo[p]
    /\ queue' = IF Len(queue[t]) < ClientQueueSize
                  THEN [queue EXCEPT ![t] = Append(@, current[p])] ELSE queue
    /\ Offered(p, t)
    /\ UNCHANGED dropped

\* The non-blocking send: a full queue costs the frame, and noteDrop counts it.
Offer(p, t) ==
    /\ t \in todo[p]
    /\ IF Len(queue[t]) < ClientQueueSize
         THEN queue' = [queue EXCEPT ![t] = Append(@, current[p])] /\ UNCHANGED dropped
         ELSE dropped' = [dropped EXCEPT ![t] = @ + 1] /\ UNCHANGED queue
    /\ Offered(p, t)

WriteRetried(p) ==
    /\ session[p] # "new" /\ ~stopped[p] /\ queue[p] # <<>>
    /\ \/ /\ delivered' = [delivered EXCEPT ![p] = Append(@, Head(queue[p]))]
          /\ queue' = [queue EXCEPT ![p] = Tail(@)]
       \/ /\ queue' = [queue EXCEPT ![p] = Append(Tail(@), Head(@))]
          /\ UNCHANGED delivered
    /\ UNCHANGED <<session, stopped, sent, current, todo, dropped, lost, addressed>>

\* writeLoop writes the next frame to the client.
Write(p) ==
    /\ session[p] # "new" /\ ~stopped[p] /\ queue[p] # <<>>
    /\ delivered' = [delivered EXCEPT ![p] = Append(@, Head(queue[p]))]
    /\ queue' = [queue EXCEPT ![p] = Tail(@)]
    /\ UNCHANGED <<session, stopped, sent, current, todo, dropped, lost, addressed>>

\* writeLoop has taken a frame and its write fails: it stops the peer and
\* returns.  A conn that somebody else has closed fails it too, for a select
\* that finds both a frame and the closed done may take the frame.
WriteFails(p) ==
    /\ session[p] # "new" /\ queue[p] # <<>> /\ lost[p] = 0
    /\ queue' = [queue EXCEPT ![p] = Tail(@)]
    /\ lost' = [lost EXCEPT ![p] = 1]
    /\ stopped' = [stopped EXCEPT ![p] = TRUE]
    /\ UNCHANGED <<session, sent, current, todo, delivered, dropped, addressed>>

\* A ping fails, or a reload or a newer session stops the peer; what is in its
\* queue is lost with it.
Stop(p) ==
    /\ session[p] = "in" /\ ~stopped[p]
    /\ stopped' = [stopped EXCEPT ![p] = TRUE]
    /\ UNCHANGED <<session, sent, current, todo, queue, delivered, dropped, lost, addressed>>

\* readLoop returns, between two frames: hub.remove, then peer.stop.
Leave(p) ==
    /\ session[p] = "in" /\ todo[p] = {}
    /\ session' = [session EXCEPT ![p] = "out"]
    /\ stopped' = [stopped EXCEPT ![p] = TRUE]
    /\ UNCHANGED <<sent, current, todo, queue, delivered, dropped, lost, addressed>>

----------------------------------------------------------------------------
Next ==
    \E p \in Peers :
        \/ Join(p) \/ (\E dst \in Destinations : Read(p, dst))
        \/ (\E t \in Peers : Offer(p, t))
        \/ Write(p) \/ WriteFails(p) \/ Stop(p) \/ Leave(p)

Spec == Init /\ [][Next]_vars

\* A goroutine inside forward keeps running.  Nothing is assumed of the
\* clients: a recipient's writes may never get through.
ForwardFair == Spec /\ \A p \in Peers : WF_vars(\E t \in Peers : Offer(p, t))

----------------------------------------------------------------------------
(***************************************************************************)
(* Properties.                                                             *)
(***************************************************************************)
Increasing(s) ==
    \A i, j \in 1 .. Len(s) : i < j /\ s[i].src = s[j].src => s[i].seq < s[j].seq

(* A client receives the frames of one sender in the order in which they    *)
(* were sent and none twice, however drops, joins and other senders fall in *)
(* between.                                                                 *)
PerSenderOrder == \A p \in Peers : Increasing(delivered[p] \o queue[p])

(* Every frame forward picked a live peer for is in its queue, was written  *)
(* to it, is about to be offered, or is counted in peer.dropped -- except   *)
(* for one, whose write has failed and ended the session.                   *)
NothingLostSilently ==
    \A p \in Peers :
        /\ addressed[p] =
              Cardinality({q \in Peers : p \in todo[q]})
                  + Len(queue[p]) + Len(delivered[p]) + dropped[p] + lost[p]
        /\ lost[p] = 1 => stopped[p]

(* A client that does not read cannot hold up another: forward always gets  *)
(* through its recipients and the sender's readLoop goes on.                *)
ForwardNeverBlocks == \A p \in Peers : todo[p] # {} ~> todo[p] = {}
=============================================================================
