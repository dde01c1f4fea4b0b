-------------------------- MODULE ForwardingProofs --------------------------
(***************************************************************************)
(* Proofs about the relay's data path (Forwarding), for any number of      *)
(* clients, any queue size and any number of frames.                       *)
(***************************************************************************)
EXTENDS Forwarding, FiniteSetTheorems, SequenceTheorems, TLAPS

(* Moving the first frame of the queue to the end of what was delivered     *)
(* leaves the frames a client has got or will get as they were.             *)
LEMMA MoveHead ==
    ASSUME NEW S, NEW s \in Seq(S), NEW t \in Seq(S), t # <<>>
    PROVE  Append(s, Head(t)) \o Tail(t) = s \o t
  <1> DEFINE h == Append(s, Head(t))
             r == Tail(t)
             u == h \o r
             v == s \o t
  <1>1. Len(s) \in Nat /\ Len(t) \in Nat \ {0} /\ Head(t) = t[1] /\ Head(t) \in S
    BY EmptySeq, HeadTailProperties
  <1>2. /\ h \in Seq(S) /\ Len(h) = Len(s) + 1 /\ h[Len(s) + 1] = t[1]
        /\ \A i \in 1 .. Len(s) : h[i] = s[i]
    BY <1>1, AppendProperties
  <1>3. /\ r \in Seq(S) /\ Len(r) = Len(t) - 1
        /\ \A i \in 1 .. Len(t) - 1 : r[i] = t[i + 1]
    BY <1>1, HeadTailProperties
  <1> HIDE DEF h, r
  <1>4. /\ u \in Seq(S) /\ Len(u) = Len(h) + Len(r)
        /\ \A i \in 1 .. Len(h) + Len(r) : u[i] = IF i <= Len(h) THEN h[i] ELSE r[i - Len(h)]
    BY <1>2, <1>3, ConcatProperties, Zenon
  <1>5. /\ v \in Seq(S) /\ Len(v) = Len(s) + Len(t)
        /\ \A i \in 1 .. Len(s) + Len(t) : v[i] = IF i <= Len(s) THEN s[i] ELSE t[i - Len(s)]
    BY ConcatProperties, Zenon
  <1> HIDE DEF u, v
  <1>6. Len(u) = Len(v)
    BY <1>1, <1>2, <1>3, <1>4, <1>5
  <1>7. ASSUME NEW i \in 1 .. Len(u) PROVE u[i] = v[i]
    <2>0. i \in 1 .. Len(h) + Len(r) /\ i \in 1 .. Len(s) + Len(t)
      BY <1>1, <1>2, <1>3, <1>4
    <2>1. CASE i <= Len(s)
      <3>1. i <= Len(h) /\ i \in 1 .. Len(s)
        BY <1>1, <1>2, <2>0, <2>1
      <3> QED
        BY <1>2, <1>4, <1>5, <2>0, <2>1, <3>1
    <2>2. CASE i = Len(s) + 1
      <3>1. i <= Len(h) /\ ~(i <= Len(s)) /\ i - Len(s) = 1
        BY <1>1, <1>2, <2>0, <2>2
      <3> QED
        BY <1>2, <1>4, <1>5, <2>0, <2>2, <3>1
    <2>3. CASE i > Len(s) + 1
      <3> DEFINE j == i - Len(h)
      <3>1. j \in 1 .. Len(t) - 1 /\ j + 1 = i - Len(s) /\ i > Len(h) /\ i \in 1 .. Len(s) + Len(t)
        BY <1>1, <1>2, <1>3, <1>4, <2>3
      <3>2. u[i] = r[j]
        BY <1>2, <1>4, <3>1
      <3>3. v[i] = t[i - Len(s)]
        BY <1>1, <1>5, <2>3, <3>1
      <3> QED
        BY <1>3, <3>1, <3>2, <3>3
    <2> QED
      BY <1>1, <1>4, <2>1, <2>2, <2>3
  <1>8. u = v
    BY <1>4, <1>5, <1>6, <1>7, SeqEqual
  <1> QED
    BY <1>8 DEF u, v, h, r

(* Queueing a frame puts it behind everything a client has got or will get. *)
LEMMA AppendLast ==
    ASSUME NEW S, NEW s \in Seq(S), NEW t \in Seq(S), NEW x \in S
    PROVE  LET u == s \o Append(t, x)
               v == s \o t IN
           /\ u \in Seq(S) /\ v \in Seq(S) /\ Len(v) \in Nat /\ Len(u) = Len(v) + 1
           /\ u[Len(v) + 1] = x
           /\ \A i \in 1 .. Len(v) : u[i] = v[i]
  <1> DEFINE a == Append(t, x)
             u == s \o a
             v == s \o t
  <1>1. Len(s) \in Nat /\ Len(t) \in Nat
    OBVIOUS
  <1>2. /\ a \in Seq(S) /\ Len(a) = Len(t) + 1 /\ a[Len(t) + 1] = x
        /\ \A i \in 1 .. Len(t) : a[i] = t[i]
    BY AppendProperties
  <1> HIDE DEF a
  <1>3. /\ u \in Seq(S) /\ Len(u) = Len(s) + Len(a)
        /\ \A i \in 1 .. Len(s) + Len(a) : u[i] = IF i <= Len(s) THEN s[i] ELSE a[i - Len(s)]
    BY <1>2, ConcatProperties, Zenon
  <1>4. /\ v \in Seq(S) /\ Len(v) = Len(s) + Len(t)
        /\ \A i \in 1 .. Len(s) + Len(t) : v[i] = IF i <= Len(s) THEN s[i] ELSE t[i - Len(s)]
    BY ConcatProperties, Zenon
  <1> HIDE DEF u, v
  <1>5. Len(v) \in Nat /\ Len(u) = Len(v) + 1
    BY <1>1, <1>2, <1>3, <1>4
  <1>6. u[Len(v) + 1] = x
    <2> DEFINE i == Len(v) + 1
    <2>1. i \in 1 .. Len(s) + Len(a) /\ ~(i <= Len(s)) /\ i - Len(s) = Len(t) + 1
      BY <1>1, <1>2, <1>4
    <2> QED
      BY <1>2, <1>3, <2>1
  <1>7. ASSUME NEW i \in 1 .. Len(v) PROVE u[i] = v[i]
    <2>1. i \in 1 .. Len(s) + Len(t) /\ i \in 1 .. Len(s) + Len(a)
      BY <1>1, <1>2, <1>4
    <2>2. CASE i <= Len(s)
      BY <1>3, <1>4, <2>1, <2>2
    <2>3. CASE ~(i <= Len(s))
      <3>1. i - Len(s) \in 1 .. Len(t)
        BY <1>1, <2>1, <2>3
      <3> QED
        BY <1>2, <1>3, <1>4, <2>1, <2>3, <3>1
    <2> QED
      BY <2>2, <2>3
  <1>8. /\ u \in Seq(S) /\ v \in Seq(S) /\ Len(v) \in Nat /\ Len(u) = Len(v) + 1
        /\ u[Len(v) + 1] = x
        /\ \A i \in 1 .. Len(v) : u[i] = v[i]
    BY <1>3, <1>4, <1>5, <1>6, <1>7
  <1> QED
    BY <1>8 DEF u, v, a

(* Taking the first frame from the queue leaves the others a client has got *)
(* or will get in their order.                                              *)
LEMMA DropHead ==
    ASSUME NEW S, NEW s \in Seq(S), NEW t \in Seq(S), t # <<>>
    PROVE  LET u == s \o Tail(t)
               v == s \o t IN
           /\ Len(u) \in Nat /\ Len(v) = Len(u) + 1
           /\ \A i \in 1 .. Len(u) : u[i] = v[IF i <= Len(s) THEN i ELSE i + 1]
  <1> DEFINE r == Tail(t)
             u == s \o r
             v == s \o t
  <1>1. Len(s) \in Nat /\ Len(t) \in Nat \ {0}
    BY EmptySeq
  <1>2. /\ r \in Seq(S) /\ Len(r) = Len(t) - 1
        /\ \A i \in 1 .. Len(t) - 1 : r[i] = t[i + 1]
    BY HeadTailProperties
  <1> HIDE DEF r
  <1>3. /\ Len(u) = Len(s) + Len(r)
        /\ \A i \in 1 .. Len(s) + Len(r) : u[i] = IF i <= Len(s) THEN s[i] ELSE r[i - Len(s)]
    BY <1>2, ConcatProperties, Zenon
  <1>4. /\ Len(v) = Len(s) + Len(t)
        /\ \A i \in 1 .. Len(s) + Len(t) : v[i] = IF i <= Len(s) THEN s[i] ELSE t[i - Len(s)]
    BY ConcatProperties, Zenon
  <1> HIDE DEF u, v
  <1>5. Len(u) \in Nat /\ Len(v) = Len(u) + 1
    BY <1>1, <1>2, <1>3, <1>4
  <1>6. ASSUME NEW i \in 1 .. Len(u) PROVE u[i] = v[IF i <= Len(s) THEN i ELSE i + 1]
    <2>1. i \in 1 .. Len(s) + Len(r) /\ i \in 1 .. Len(s) + Len(t)
      BY <1>1, <1>2, <1>3
    <2>2. CASE i <= Len(s)
      BY <1>3, <1>4, <2>1, <2>2
    <2>3. CASE ~(i <= Len(s))
      <3> DEFINE j == i - Len(s)
                 k == i + 1
      <3>1. /\ j \in 1 .. Len(t) - 1 /\ k \in 1 .. Len(s) + Len(t) /\ ~(k <= Len(s))
            /\ k - Len(s) = j + 1
        BY <1>1, <1>2, <2>1, <2>3
      <3>2. u[i] = r[j]
        BY <1>3, <2>1, <2>3
      <3> HIDE DEF j
      <3>3. v[k] = t[j + 1]
        BY <1>4, <3>1
      <3> QED
        BY <1>2, <2>3, <3>1, <3>2, <3>3
    <2> QED
      BY <2>2, <2>3
  <1> QED
    BY <1>5, <1>6 DEF u, v, r

----------------------------------------------------------------------------
(***************************************************************************)
(* The inductive invariant.                                                *)
(***************************************************************************)
\* What a client has got or will get, and who is about to offer it a frame.
Got(t) == delivered[t] \o queue[t]
Offering(t) == {q \in Peers : t \in todo[q]}

\* The frame a readLoop distributes is its own, and its latest.
CurrentInv ==
    \A p \in Peers : todo[p] # {} =>
        current[p] \in Frame /\ current[p].src = p /\ current[p].seq <= sent

\* A client has nothing that was not sent yet, and nothing from a sender that
\* is as late as the frame the sender is about to offer it.
GotInv ==
    \A t \in Peers : \A i \in 1 .. Len(Got(t)) :
        /\ Got(t)[i].seq <= sent
        /\ \A p \in Peers : t \in todo[p] /\ Got(t)[i].src = p =>
              Got(t)[i].seq < current[p].seq

FInv == TypeOK /\ CurrentInv /\ GotInv /\ PerSenderOrder /\ NothingLostSilently

(* What a client has got or will get is a sequence of frames.               *)
LEMMA GotTyped ==
    ASSUME TypeOK, NEW t \in Peers
    PROVE  /\ Got(t) \in Seq(Frame) /\ Len(Got(t)) \in Nat
           /\ \A i \in 1 .. Len(Got(t)) : Got(t)[i] \in Frame /\ Got(t)[i].seq \in Nat
                                             /\ Got(t)[i].src \in Senders
  <1>1. delivered[t] \in Seq(Frame) /\ queue[t] \in Seq(Frame)
    BY DEF TypeOK
  <1> DEFINE g == Got(t)
  <1>2. g \in Seq(Frame)
    BY <1>1 DEF Got
  <1> HIDE DEF g
  <1>3. /\ Len(g) \in Nat /\ \A i \in 1 .. Len(g) : g[i] \in Frame
    BY <1>2
  <1>4. \A f \in Frame : f.seq \in Nat /\ f.src \in Senders
    BY SizesAssumption DEF Frame
  <1> QED
    BY <1>2, <1>3, <1>4 DEF g

(* The two counts of frames a client does not get.                          *)
LEMMA CountsTyped ==
    ASSUME TypeOK, NEW t \in Peers
    PROVE  dropped[t] \in Nat /\ lost[t] \in Nat
  <1>1. dropped[t] \in Nat /\ lost[t] \in {0, 1}
    BY DEF TypeOK
  <1> QED
    BY <1>1

(* Any set of peers is finite.                                              *)
LEMMA OfferingFinite ==
    ASSUME NEW T \in SUBSET Peers
    PROVE  IsFiniteSet(T) /\ Cardinality(T) \in Nat
  BY PeersAssumption, FS_Subset, FS_CardinalityType

(* At the start nobody has anything.                                        *)
LEMMA InitFInv == Init => FInv
  <1> SUFFICES ASSUME Init PROVE FInv
    OBVIOUS
  <1>1. TypeOK
    BY SizesAssumption DEF Init, TypeOK
  <1>2. ASSUME NEW t \in Peers PROVE Got(t) = <<>> /\ Len(Got(t)) = 0
    <2>1. delivered[t] = <<>> /\ queue[t] = <<>> /\ <<>> \in Seq(Frame)
      BY DEF Init
    <2>2. <<>> \o <<>> = <<>>
      BY <2>1, ConcatEmptySeq
    <2> QED
      BY <2>1, <2>2 DEF Got
  <1>3. CurrentInv
    BY DEF Init, CurrentInv
  <1>4. GotInv
    BY <1>2 DEF GotInv
  <1>5. PerSenderOrder
    <2> SUFFICES ASSUME NEW t \in Peers PROVE Increasing(Got(t))
      BY DEF PerSenderOrder, Got
    <2> DEFINE g == Got(t)
    <2>1. Len(g) = 0
      BY <1>2
    <2> HIDE DEF g
    <2>2. Increasing(g)
      BY <2>1 DEF Increasing
    <2> QED
      BY <2>2 DEF g
  <1>6. NothingLostSilently
    <2>0. \A p \in Peers : lost[p] = 1 => stopped[p]
      BY DEF Init
    <2> SUFFICES ASSUME NEW p \in Peers
                 PROVE  addressed[p] = Cardinality({q \in Peers : p \in todo[q]})
                                         + Len(queue[p]) + Len(delivered[p]) + dropped[p] + lost[p]
      BY <2>0 DEF NothingLostSilently
    <2>1. {q \in Peers : p \in todo[q]} = {}
      BY DEF Init
    <2>2. Cardinality({q \in Peers : p \in todo[q]}) = 0
      BY <2>1, FS_EmptySet
    <2>3. addressed[p] = 0 /\ Len(queue[p]) = 0 /\ Len(delivered[p]) = 0 /\ dropped[p] = 0
          /\ lost[p] = 0
      BY DEF Init
    <2> QED
      BY <2>2, <2>3
  <1> QED
    BY <1>1, <1>3, <1>4, <1>5, <1>6 DEF FInv

(* A step that neither moves a frame nor touches a count.                   *)
LEMMA QuietFInv ==
    ASSUME FInv, TypeOK', \A p \in Peers : stopped[p] => stopped'[p],
           UNCHANGED <<sent, current, todo, queue, delivered, dropped, lost, addressed>>
    PROVE  FInv'
  <1>1. /\ sent' = sent /\ current' = current /\ todo' = todo /\ queue' = queue
        /\ delivered' = delivered /\ dropped' = dropped /\ lost' = lost
        /\ addressed' = addressed
    OBVIOUS
  <1>2. CurrentInv'
    BY <1>1 DEF FInv, CurrentInv
  <1>3. GotInv'
    BY <1>1 DEF FInv, GotInv, Got
  <1>4. PerSenderOrder' /\ NothingLostSilently'
    BY <1>1 DEF FInv, PerSenderOrder, Increasing, NothingLostSilently
  <1> QED
    BY <1>2, <1>3, <1>4 DEF FInv

(* A frame is read and its recipients are picked: it is later than all that *)
(* was sent before, and every recipient has one more frame coming.          *)
LEMMA ReadFInv ==
    ASSUME FInv, NEW p \in Peers, NEW dst \in Destinations, Read(p, dst)
    PROVE  FInv'
  <1> DEFINE R == Recipients(p, dst)
  <1>1. /\ todo[p] = {} /\ p \in Senders /\ sent < MaxFrames /\ sent' = sent + 1
        /\ current' = [current EXCEPT ![p] =
              IF R = {} THEN NoFrame ELSE [src |-> p, seq |-> sent + 1]]
        /\ todo' = [todo EXCEPT ![p] = R]
        /\ addressed' = [t \in Peers |-> IF t \in R THEN addressed[t] + 1 ELSE addressed[t]]
        /\ session' = session /\ stopped' = stopped /\ queue' = queue
        /\ delivered' = delivered /\ dropped' = dropped /\ lost' = lost
    BY DEF Read
  <1>2. R \subseteq Peers /\ TypeOK
    BY DEF Recipients, InHub, FInv, Destinations
  <1> HIDE DEF R
  <1>3. sent \in Nat /\ sent + 1 \in 1 .. MaxFrames
    BY <1>1, <1>2, SizesAssumption DEF TypeOK
  <1> DEFINE f == [src |-> p, seq |-> sent + 1]
  <1>4. f \in Frame /\ f.src = p /\ f.seq = sent + 1
    BY <1>1, <1>3 DEF Frame
  <1> HIDE DEF f
  <1>5. TypeOK'
    <2>1. current' \in [Peers -> Frame \cup {NoFrame}]
      BY <1>1, <1>2, <1>4 DEF TypeOK, f
    <2>2. todo' \in [Peers -> SUBSET Peers] /\ addressed' \in [Peers -> Nat]
      BY <1>1, <1>2 DEF TypeOK
    <2>3. sent' \in 0 .. MaxFrames
      BY <1>1, <1>3, SizesAssumption
    <2> QED
      BY <1>1, <1>2, <2>1, <2>2, <2>3 DEF TypeOK
  <1>6. /\ todo'[p] = R /\ (R # {} => current'[p] = f)
        /\ \A q \in Peers : q # p => todo'[q] = todo[q] /\ current'[q] = current[q]
    BY <1>1, <1>2 DEF TypeOK, f
  <1>7. CurrentInv'
    <2> SUFFICES ASSUME NEW q \in Peers, todo'[q] # {}
                 PROVE  current'[q] \in Frame /\ current'[q].src = q /\ current'[q].seq <= sent'
      BY DEF CurrentInv
    <2>1. CASE q = p
      BY <1>1, <1>3, <1>4, <1>6, <2>1
    <2>2. CASE q # p
      <3>1. current[q] \in Frame /\ current[q].src = q /\ current[q].seq <= sent
        BY <1>6, <2>2 DEF FInv, CurrentInv
      <3>2. current[q].seq \in Nat
        BY <3>1, SizesAssumption DEF Frame
      <3> QED
        BY <1>1, <1>3, <1>6, <2>2, <3>1, <3>2
    <2> QED
      BY <2>1, <2>2
  <1>8. GotInv'
    <2> SUFFICES ASSUME NEW t \in Peers, NEW i \in 1 .. Len(Got(t))
                 PROVE  /\ Got(t)[i].seq <= sent + 1
                        /\ \A q \in Peers : t \in todo'[q] /\ Got(t)[i].src = q =>
                              Got(t)[i].seq < current'[q].seq
      BY <1>1 DEF GotInv, Got
    <2>1. Got(t)[i].seq \in Nat /\ Got(t)[i].seq <= sent
      BY <1>2, GotTyped DEF FInv, GotInv
    <2>2. ASSUME NEW q \in Peers, t \in todo'[q], Got(t)[i].src = q
          PROVE  Got(t)[i].seq < current'[q].seq
      <3>1. CASE q = p
        BY <1>3, <1>4, <1>6, <2>1, <2>2, <3>1
      <3>2. CASE q # p
        BY <1>6, <2>2, <3>2 DEF FInv, GotInv
      <3> QED
        BY <3>1, <3>2
    <2> QED
      BY <1>3, <2>1, <2>2
  <1>9. PerSenderOrder'
    <2> SUFFICES ASSUME NEW t \in Peers PROVE Increasing(Got(t)')
      BY DEF PerSenderOrder, Got
    <2>1. Increasing(Got(t))
      BY DEF FInv, PerSenderOrder, Got
    <2>2. Got(t)' = Got(t)
      BY <1>1, Zenon DEF Got
    <2> QED
      BY <2>1, <2>2
  <1>10. NothingLostSilently'
    <2>0. \A t \in Peers : lost'[t] = 1 => stopped'[t]
      BY <1>1 DEF FInv, NothingLostSilently
    <2> SUFFICES ASSUME NEW t \in Peers
                 PROVE  addressed'[t] = Cardinality(Offering(t)')
                                          + Len(queue[t]) + Len(delivered[t]) + dropped[t] + lost[t]
      BY <1>1, <2>0 DEF NothingLostSilently, Offering
    <2>1. /\ addressed[t] = Cardinality(Offering(t))
                              + Len(queue[t]) + Len(delivered[t]) + dropped[t] + lost[t]
          /\ addressed[t] \in Nat /\ Len(queue[t]) \in Nat /\ Len(delivered[t]) \in Nat
          /\ dropped[t] \in Nat /\ lost[t] \in Nat
      BY <1>2 DEF FInv, NothingLostSilently, Offering, TypeOK
    <2>2. IsFiniteSet(Offering(t)) /\ Cardinality(Offering(t)) \in Nat
      BY OfferingFinite DEF Offering
    <2>3. p \notin Offering(t)
      BY <1>1 DEF Offering
    <2>4. CASE t \in R
      <3>1. Offering(t)' = Offering(t) \cup {p}
        BY <1>6, <2>4 DEF Offering
      <3>2. Cardinality(Offering(t)') = Cardinality(Offering(t)) + 1
        BY <2>2, <2>3, <3>1, FS_AddElement
      <3>3. addressed'[t] = addressed[t] + 1
        BY <1>1, <2>4
      <3> DEFINE n == Cardinality(Offering(t))
                 m == Cardinality(Offering(t)')
                 k == Len(queue[t])
                 d == Len(delivered[t])
      <3>4. /\ addressed[t] = n + k + d + dropped[t] + lost[t] /\ addressed[t] \in Nat
            /\ n \in Nat /\ k \in Nat /\ d \in Nat /\ dropped[t] \in Nat
            /\ lost[t] \in Nat /\ m = n + 1
        BY <2>1, <2>2, <3>2
      <3> HIDE DEF n, m, k, d
      <3>5. addressed'[t] = m + k + d + dropped[t] + lost[t]
        BY <3>3, <3>4
      <3> QED
        BY <3>5 DEF n, m, k, d
    <2>5. CASE t \notin R
      <3>1. Offering(t)' = Offering(t)
        BY <1>6, <2>3, <2>5 DEF Offering
      <3>2. addressed'[t] = addressed[t]
        BY <1>1, <2>5
      <3> QED
        BY <2>1, <3>1, <3>2
    <2> QED
      BY <2>4, <2>5
  <1> QED
    BY <1>5, <1>7, <1>8, <1>9, <1>10 DEF FInv


(* A frame goes from the queue to the client: nothing else moves, and what  *)
(* the client has got or will get is the same.                              *)
LEMMA WriteFInv ==
    ASSUME FInv, NEW p \in Peers, Write(p)
    PROVE  FInv'
  <1>1. /\ queue[p] # <<>> /\ delivered' = [delivered EXCEPT ![p] = Append(@, Head(queue[p]))]
        /\ queue' = [queue EXCEPT ![p] = Tail(@)]
        /\ session' = session /\ stopped' = stopped /\ sent' = sent /\ current' = current
        /\ todo' = todo /\ dropped' = dropped /\ lost' = lost /\ addressed' = addressed
    BY DEF Write
  <1>2. TypeOK
    BY DEF FInv
  <1>3. /\ queue[p] \in Seq(Frame) /\ delivered[p] \in Seq(Frame)
        /\ delivered'[p] = Append(delivered[p], Head(queue[p])) /\ queue'[p] = Tail(queue[p])
        /\ \A t \in Peers : t # p => delivered'[t] = delivered[t] /\ queue'[t] = queue[t]
    BY <1>1, <1>2 DEF TypeOK
  <1>4. /\ Head(queue[p]) \in Frame /\ Tail(queue[p]) \in Seq(Frame)
        /\ Len(queue[p]) \in Nat /\ Len(queue[p]) > 0
        /\ Len(Tail(queue[p])) = Len(queue[p]) - 1
    BY <1>1, <1>3, EmptySeq, HeadTailProperties
  <1>5. /\ Append(delivered[p], Head(queue[p])) \in Seq(Frame)
        /\ Len(Append(delivered[p], Head(queue[p]))) = Len(delivered[p]) + 1
        /\ Len(delivered[p]) \in Nat
    BY <1>3, <1>4, AppendProperties
  <1>6. TypeOK'
    <2>1. queue' \in [Peers -> Seq(Frame)] /\ delivered' \in [Peers -> Seq(Frame)]
      BY <1>1, <1>2, <1>4, <1>5 DEF TypeOK
    <2>2. \A t \in Peers : Len(queue'[t]) <= ClientQueueSize
      <3> SUFFICES ASSUME NEW t \in Peers PROVE Len(queue'[t]) <= ClientQueueSize
        OBVIOUS
      <3>1. Len(queue[t]) <= ClientQueueSize
        BY <1>2 DEF TypeOK
      <3>2. CASE t = p
        <4> DEFINE n == Len(queue[p])
                   m == Len(queue'[p])
        <4>1. n \in Nat /\ m = n - 1 /\ n <= ClientQueueSize
          BY <1>3, <1>4, <3>1, <3>2
        <4> HIDE DEF n, m
        <4>2. m <= ClientQueueSize
          BY <4>1, SizesAssumption
        <4> QED
          BY <3>2, <4>2 DEF m
      <3>3. CASE t # p
        BY <1>3, <3>1, <3>3
      <3> QED
        BY <3>2, <3>3
    <2> QED
      BY <1>1, <1>2, <2>1, <2>2 DEF TypeOK
  <1>7. ASSUME NEW t \in Peers PROVE Got(t)' = Got(t)
    <2>1. CASE t = p
      <3>1. Append(delivered[p], Head(queue[p])) \o Tail(queue[p]) = delivered[p] \o queue[p]
        BY <1>1, <1>3, MoveHead
      <3> QED
        BY <1>3, <2>1, <3>1, Zenon DEF Got
    <2>2. CASE t # p
      BY <1>3, <2>2, Zenon DEF Got
    <2> QED
      BY <2>1, <2>2
  <1>8. CurrentInv'
    BY <1>1 DEF FInv, CurrentInv
  <1>9. GotInv'
    <2>1. GotInv /\ todo' = todo /\ current' = current /\ sent' = sent
      BY <1>1 DEF FInv
    <2> QED
      BY <1>7, <2>1 DEF GotInv
  <1>10. PerSenderOrder'
    <2> SUFFICES ASSUME NEW t \in Peers PROVE Increasing(Got(t)')
      BY DEF PerSenderOrder, Got
    <2>1. Increasing(Got(t))
      BY DEF FInv, PerSenderOrder, Got
    <2> QED
      BY <1>7, <2>1
  <1>11. NothingLostSilently'
    <2>0. \A t \in Peers : lost'[t] = 1 => stopped'[t]
      BY <1>1 DEF FInv, NothingLostSilently
    <2> SUFFICES ASSUME NEW t \in Peers
                 PROVE  addressed[t] = Cardinality(Offering(t))
                                         + Len(queue'[t]) + Len(delivered'[t])
                                         + dropped[t] + lost[t]
      BY <1>1, <2>0 DEF NothingLostSilently, Offering
    <2>1. addressed[t] = Cardinality(Offering(t))
                           + Len(queue[t]) + Len(delivered[t]) + dropped[t] + lost[t]
      BY DEF FInv, NothingLostSilently, Offering
    <2>2. Cardinality(Offering(t)) \in Nat /\ dropped[t] \in Nat /\ lost[t] \in Nat
      BY <1>2, OfferingFinite, CountsTyped DEF Offering
    <2>3. CASE t = p
      <3>1. Len(queue'[p]) = Len(queue[p]) - 1 /\ Len(delivered'[p]) = Len(delivered[p]) + 1
        BY <1>3, <1>4, <1>5
      <3> DEFINE n == Cardinality(Offering(t))
                 k == Len(queue[p])
                 d == Len(delivered[p])
                 kk == Len(queue'[p])
                 dd == Len(delivered'[p])
      <3>2. /\ addressed[t] = n + k + d + dropped[t] + lost[t] /\ kk = k - 1 /\ dd = d + 1
            /\ n \in Nat /\ k \in Nat /\ d \in Nat /\ dropped[t] \in Nat /\ lost[t] \in Nat
        BY <1>4, <1>5, <2>1, <2>2, <2>3, <3>1
      <3> HIDE DEF n, k, d, kk, dd
      <3>3. addressed[t] = n + kk + dd + dropped[t] + lost[t]
        BY <3>2
      <3> QED
        BY <2>3, <3>3 DEF n, kk, dd
    <2>4. CASE t # p
      BY <1>3, <2>1, <2>4
    <2> QED
      BY <2>3, <2>4
  <1> QED
    BY <1>6, <1>8, <1>9, <1>10, <1>11 DEF FInv

(* A write fails: one frame leaves the queue and is lost with the session.  *)
LEMMA WriteFailsFInv ==
    ASSUME FInv, NEW p \in Peers, WriteFails(p)
    PROVE  FInv'
  <1>1. /\ queue[p] # <<>> /\ queue' = [queue EXCEPT ![p] = Tail(@)]
        /\ lost[p] = 0 /\ lost' = [lost EXCEPT ![p] = 1]
        /\ stopped' = [stopped EXCEPT ![p] = TRUE]
        /\ session' = session /\ sent' = sent /\ current' = current /\ todo' = todo
        /\ delivered' = delivered /\ dropped' = dropped /\ addressed' = addressed
    BY DEF WriteFails
  <1>2. TypeOK
    BY DEF FInv
  <1>3. /\ queue[p] \in Seq(Frame) /\ delivered[p] \in Seq(Frame)
        /\ queue'[p] = Tail(queue[p]) /\ lost'[p] = 1 /\ stopped'[p]
        /\ \A t \in Peers : t # p => /\ queue'[t] = queue[t] /\ lost'[t] = lost[t]
                                     /\ stopped'[t] = stopped[t]
    BY <1>1, <1>2 DEF TypeOK
  <1>4. /\ Tail(queue[p]) \in Seq(Frame) /\ Len(queue[p]) \in Nat /\ Len(queue[p]) > 0
        /\ Len(Tail(queue[p])) = Len(queue[p]) - 1
    BY <1>1, <1>3, EmptySeq, HeadTailProperties
  <1>5. TypeOK'
    <2>1. queue' \in [Peers -> Seq(Frame)] /\ lost' \in [Peers -> {0, 1}]
      BY <1>1, <1>2, <1>4 DEF TypeOK
    <2>2. stopped' \in [Peers -> BOOLEAN]
      BY <1>1, <1>2 DEF TypeOK
    <2>3. \A t \in Peers : Len(queue'[t]) <= ClientQueueSize
      <3> SUFFICES ASSUME NEW t \in Peers PROVE Len(queue'[t]) <= ClientQueueSize
        OBVIOUS
      <3>1. Len(queue[t]) <= ClientQueueSize
        BY <1>2 DEF TypeOK
      <3>2. CASE t = p
        <4> DEFINE n == Len(queue[p])
                   m == Len(queue'[p])
        <4>1. n \in Nat /\ m = n - 1 /\ n <= ClientQueueSize
          BY <1>3, <1>4, <3>1, <3>2
        <4> HIDE DEF n, m
        <4>2. m <= ClientQueueSize
          BY <4>1, SizesAssumption
        <4> QED
          BY <3>2, <4>2 DEF m
      <3>3. CASE t # p
        BY <1>3, <3>1, <3>3
      <3> QED
        BY <3>2, <3>3
    <2> QED
      BY <1>1, <1>2, <2>1, <2>2, <2>3 DEF TypeOK
  <1>6. CurrentInv'
    BY <1>1 DEF FInv, CurrentInv
  \* The frames that are left, where they were before.
  <1>7. ASSUME NEW t \in Peers
        PROVE  \E e \in [1 .. Len(Got(t)') -> 1 .. Len(Got(t))] :
                  /\ \A i \in 1 .. Len(Got(t)') : Got(t)'[i] = Got(t)[e[i]]
                  /\ \A i, j \in 1 .. Len(Got(t)') : i < j => e[i] < e[j]
    <2> DEFINE g == Got(t)
               h == Got(t)'
    <2>1. CASE t = p
      <3> DEFINE s == delivered[p]
                 q == queue[p]
                 d == Len(s)
                 e == [i \in 1 .. Len(h) |-> IF i <= d THEN i ELSE i + 1]
      <3>1. g = s \o q /\ h = s \o Tail(q)
        BY <1>1, <1>3, <2>1 DEF Got
      <3>2. s \in Seq(Frame) /\ q \in Seq(Frame) /\ q # <<>> /\ d \in Nat
        BY <1>1, <1>3
      <3> HIDE DEF g, h, s, q
      <3>3. /\ Len(h) \in Nat /\ Len(g) = Len(h) + 1
            /\ \A i \in 1 .. Len(h) : h[i] = g[IF i <= d THEN i ELSE i + 1]
        BY <3>1, <3>2, DropHead
      <3> HIDE DEF d
      <3>4. e \in [1 .. Len(h) -> 1 .. Len(g)]
        BY <3>2, <3>3
      <3>5. \A i \in 1 .. Len(h) : h[i] = g[e[i]]
        BY <3>3
      <3>6. \A i, j \in 1 .. Len(h) : i < j => e[i] < e[j]
        BY <3>2, <3>3
      <3> QED
        BY <3>4, <3>5, <3>6 DEF g, h
    <2>2. CASE t # p
      <3> DEFINE e == [i \in 1 .. Len(g) |-> i]
      <3>1. h = g
        BY <1>1, <1>3, <2>2, Zenon DEF Got
      <3> HIDE DEF g, h
      <3>2. /\ e \in [1 .. Len(h) -> 1 .. Len(g)] /\ \A i \in 1 .. Len(h) : h[i] = g[e[i]]
            /\ \A i, j \in 1 .. Len(h) : i < j => e[i] < e[j]
        BY <3>1
      <3> QED
        BY <3>2 DEF g, h
    <2> QED
      BY <2>1, <2>2
  <1>8. GotInv'
    <2> SUFFICES ASSUME NEW t \in Peers, NEW i \in 1 .. Len(Got(t)')
                 PROVE  /\ Got(t)'[i].seq <= sent
                        /\ \A q \in Peers : t \in todo[q] /\ Got(t)'[i].src = q =>
                              Got(t)'[i].seq < current[q].seq
      BY <1>1 DEF GotInv
    <2>1. PICK k \in 1 .. Len(Got(t)) : Got(t)'[i] = Got(t)[k]
      BY <1>7
    <2>2. /\ Got(t)[k].seq <= sent
          /\ \A q \in Peers : t \in todo[q] /\ Got(t)[k].src = q =>
                Got(t)[k].seq < current[q].seq
      BY DEF FInv, GotInv
    <2> QED
      BY <2>1, <2>2, Zenon
  <1>9. PerSenderOrder'
    <2> SUFFICES ASSUME NEW t \in Peers PROVE Increasing(Got(t)')
      BY DEF PerSenderOrder, Got
    <2> DEFINE g == Got(t)
               h == Got(t)'
    <2>1. Increasing(g)
      BY DEF FInv, PerSenderOrder, Got
    <2>2. PICK e \in [1 .. Len(h) -> 1 .. Len(g)] :
              /\ \A i \in 1 .. Len(h) : h[i] = g[e[i]]
              /\ \A i, j \in 1 .. Len(h) : i < j => e[i] < e[j]
      BY <1>7
    <2> HIDE DEF g, h
    <2>3. Increasing(h)
      <3> SUFFICES ASSUME NEW i \in 1 .. Len(h), NEW j \in 1 .. Len(h), i < j,
                          h[i].src = h[j].src
                   PROVE  h[i].seq < h[j].seq
        BY DEF Increasing
      <3>1. /\ e[i] \in 1 .. Len(g) /\ e[j] \in 1 .. Len(g) /\ e[i] < e[j]
            /\ h[i] = g[e[i]] /\ h[j] = g[e[j]]
        BY <2>2
      <3> QED
        BY <2>1, <3>1 DEF Increasing
    <2> QED
      BY <2>3 DEF h
  <1>10. NothingLostSilently'
    <2>0. \A t \in Peers : lost'[t] = 1 => stopped'[t]
      BY <1>3 DEF FInv, NothingLostSilently
    <2> SUFFICES ASSUME NEW t \in Peers
                 PROVE  addressed[t] = Cardinality(Offering(t))
                                         + Len(queue'[t]) + Len(delivered[t])
                                         + dropped[t] + lost'[t]
      BY <1>1, <2>0 DEF NothingLostSilently, Offering
    <2>1. addressed[t] = Cardinality(Offering(t))
                           + Len(queue[t]) + Len(delivered[t]) + dropped[t] + lost[t]
      BY DEF FInv, NothingLostSilently, Offering
    <2>2. Cardinality(Offering(t)) \in Nat /\ dropped[t] \in Nat
      BY <1>2, OfferingFinite, CountsTyped DEF Offering
    <2>3. CASE t = p
      <3> DEFINE n == Cardinality(Offering(t))
                 k == Len(queue[p])
                 d == Len(delivered[p])
                 kk == Len(queue'[p])
      <3>0. Len(delivered[p]) \in Nat
        BY <1>3
      <3>1. /\ addressed[t] = n + k + d + dropped[t] + lost[t] /\ kk = k - 1 /\ lost[t] = 0
            /\ n \in Nat /\ k \in Nat /\ d \in Nat /\ dropped[t] \in Nat
        BY <1>1, <1>3, <1>4, <2>1, <2>2, <2>3, <3>0
      <3> HIDE DEF n, k, d, kk
      <3>2. addressed[t] = n + kk + d + dropped[t] + 1
        BY <3>1
      <3> QED
        BY <1>3, <2>3, <3>2 DEF n, kk, d
    <2>4. CASE t # p
      BY <1>3, <2>1, <2>4
    <2> QED
      BY <2>3, <2>4
  <1> QED
    BY <1>5, <1>6, <1>8, <1>9, <1>10 DEF FInv

(* A recipient is offered a frame: it goes to the end of the queue or is    *)
(* counted as dropped, and the sender has one recipient less to serve.      *)
LEMMA OfferFInv ==
    ASSUME FInv, NEW p \in Peers, NEW t \in Peers, Offer(p, t)
    PROVE  FInv'
  <1>1. /\ t \in todo[p]
        /\ IF Len(queue[t]) < ClientQueueSize
             THEN queue' = [queue EXCEPT ![t] = Append(@, current[p])] /\ dropped' = dropped
             ELSE dropped' = [dropped EXCEPT ![t] = @ + 1] /\ queue' = queue
        /\ todo' = [todo EXCEPT ![p] = @ \ {t}]
        /\ current' = [current EXCEPT ![p] = IF todo[p] = {t} THEN NoFrame ELSE @]
        /\ session' = session /\ stopped' = stopped /\ sent' = sent
        /\ delivered' = delivered /\ lost' = lost /\ addressed' = addressed
    BY DEF Offer, Offered
  <1>2. TypeOK
    BY DEF FInv
  <1>3. /\ current[p] \in Frame /\ current[p].src = p /\ current[p].seq <= sent
        /\ current[p].seq \in Nat /\ queue[t] \in Seq(Frame) /\ delivered[t] \in Seq(Frame)
        /\ Len(queue[t]) \in Nat /\ Len(delivered[t]) \in Nat
        /\ dropped[t] \in Nat /\ lost[t] \in Nat
    <2>1. current[p] \in Frame /\ current[p].src = p /\ current[p].seq <= sent
      BY <1>1 DEF FInv, CurrentInv
    <2>2. current[p].seq \in Nat
      BY <2>1, SizesAssumption DEF Frame
    <2>3. /\ queue[t] \in Seq(Frame) /\ delivered[t] \in Seq(Frame)
          /\ dropped[t] \in Nat /\ lost[t] \in Nat
      BY <1>2, CountsTyped DEF TypeOK
    <2> QED
      BY <2>1, <2>2, <2>3
  <1>4. /\ todo'[p] = todo[p] \ {t} /\ (todo'[p] # {} => current'[p] = current[p])
        /\ \A q \in Peers : q # p => todo'[q] = todo[q] /\ current'[q] = current[q]
    <2>1. todo'[p] = todo[p] \ {t} /\ (todo[p] # {t} => current'[p] = current[p])
      BY <1>1, <1>2 DEF TypeOK
    <2>2. todo'[p] # {} => todo[p] # {t}
      BY <2>1
    <2> QED
      BY <1>1, <1>2, <2>1, <2>2 DEF TypeOK
  <1>5. current' \in [Peers -> Frame \cup {NoFrame}] /\ todo' \in [Peers -> SUBSET Peers]
    BY <1>1, <1>2 DEF TypeOK
  <1>6. CurrentInv'
    <2> SUFFICES ASSUME NEW q \in Peers, todo'[q] # {}
                 PROVE  current'[q] \in Frame /\ current'[q].src = q /\ current'[q].seq <= sent
      BY <1>1 DEF CurrentInv
    <2>1. CASE q = p
      BY <1>3, <1>4, <2>1
    <2>2. CASE q # p
      BY <1>4, <2>2 DEF FInv, CurrentInv
    <2> QED
      BY <2>1, <2>2
  \* Whoever is still to be offered a frame is offered the same frame.
  <1>7. ASSUME NEW r \in Peers, NEW q \in Peers, r \in todo'[q]
        PROVE  r \in todo[q] /\ current'[q] = current[q] /\ ~(q = p /\ r = t)
    <2>1. CASE q = p
      BY <1>4, <1>7, <2>1
    <2>2. CASE q # p
      BY <1>4, <1>7, <2>2
    <2> QED
      BY <2>1, <2>2
  <1>8. Offering(t)' = Offering(t) \ {p} /\ p \in Offering(t)
    <2>1. \A q \in Peers : t \in todo'[q] <=> t \in todo[q] /\ q # p
      BY <1>4
    <2> QED
      BY <1>1, <2>1 DEF Offering
  <1>9. ASSUME NEW r \in Peers, r # t PROVE Offering(r)' = Offering(r)
    <2>1. \A q \in Peers : r \in todo'[q] <=> r \in todo[q]
      BY <1>4, <1>9
    <2> QED
      BY <2>1 DEF Offering
  <1> DEFINE c == Cardinality(Offering(t))
             cc == Cardinality(Offering(t)')
  <1>10. c \in Nat /\ cc = c - 1
    <2>1. IsFiniteSet(Offering(t)) /\ c \in Nat
      BY OfferingFinite DEF Offering
    <2> QED
      BY <1>8, <2>1, FS_RemoveElement
  <1>11. addressed[t] = c + Len(queue[t]) + Len(delivered[t]) + dropped[t] + lost[t]
    BY DEF FInv, NothingLostSilently, Offering
  <1> HIDE DEF c, cc
  <1>12. ASSUME NEW r \in Peers, r # t,
                queue'[r] = queue[r] /\ dropped'[r] = dropped[r]
         PROVE  addressed'[r] = Cardinality(Offering(r)')
                                  + Len(queue'[r]) + Len(delivered'[r]) + dropped'[r] + lost'[r]
    <2>1. addressed[r] = Cardinality(Offering(r))
                           + Len(queue[r]) + Len(delivered[r]) + dropped[r] + lost[r]
      BY DEF FInv, NothingLostSilently, Offering
    <2>2. Offering(r)' = Offering(r) /\ addressed' = addressed /\ delivered' = delivered
          /\ lost' = lost
      BY <1>1, <1>9, <1>12
    <2> QED
      BY <1>12, <2>1, <2>2, Zenon
  <1>0. \A r \in Peers : lost'[r] = 1 => stopped'[r]
    BY <1>1 DEF FInv, NothingLostSilently
  <1>13. CASE Len(queue[t]) < ClientQueueSize
    <2>1. queue' = [queue EXCEPT ![t] = Append(queue[t], current[p])] /\ dropped' = dropped
      BY <1>1, <1>13
    <2>2. /\ Append(queue[t], current[p]) \in Seq(Frame)
          /\ Len(Append(queue[t], current[p])) = Len(queue[t]) + 1
      BY <1>3, AppendProperties
    <2>3. /\ queue'[t] = Append(queue[t], current[p])
          /\ \A r \in Peers : r # t => queue'[r] = queue[r]
      BY <1>2, <2>1 DEF TypeOK
    <2>4. TypeOK'
      <3>1. queue' \in [Peers -> Seq(Frame)]
        BY <1>2, <2>1, <2>2 DEF TypeOK
      <3>2. \A r \in Peers : Len(queue'[r]) <= ClientQueueSize
        <4> SUFFICES ASSUME NEW r \in Peers PROVE Len(queue'[r]) <= ClientQueueSize
          OBVIOUS
        <4>1. CASE r = t
          <5> DEFINE n == Len(queue[t])
                     m == Len(queue'[t])
          <5>1. n \in Nat /\ m = n + 1 /\ n < ClientQueueSize
            BY <1>3, <1>13, <2>2, <2>3
          <5> HIDE DEF n, m
          <5>2. m <= ClientQueueSize
            BY <5>1, SizesAssumption
          <5> QED
            BY <4>1, <5>2 DEF m
        <4>2. CASE r # t
          BY <1>2, <2>3, <4>2 DEF TypeOK
        <4> QED
          BY <4>1, <4>2
      <3> QED
        BY <1>1, <1>2, <1>5, <2>1, <3>1, <3>2 DEF TypeOK
    <2> DEFINE g == Got(t)
               h == Got(t)'
    <2>5. /\ h \in Seq(Frame) /\ g \in Seq(Frame) /\ Len(g) \in Nat /\ Len(h) = Len(g) + 1
          /\ h[Len(g) + 1] = current[p] /\ \A i \in 1 .. Len(g) : h[i] = g[i]
      <3>1. g = delivered[t] \o queue[t] /\ h = delivered[t] \o Append(queue[t], current[p])
        BY <1>1, <2>3 DEF Got
      <3> DEFINE s == delivered[t]
                 q == queue[t]
                 x == current[p]
                 u == s \o Append(q, x)
                 v == s \o q
      <3>2. s \in Seq(Frame) /\ q \in Seq(Frame) /\ x \in Frame
        BY <1>3
      <3> HIDE DEF g, h, s, q, x
      <3>3. /\ u \in Seq(Frame) /\ v \in Seq(Frame) /\ Len(v) \in Nat /\ Len(u) = Len(v) + 1
            /\ u[Len(v) + 1] = x
            /\ \A i \in 1 .. Len(v) : u[i] = v[i]
        BY <3>2, AppendLast
      <3>4. g = v /\ h = u
        BY <3>1 DEF s, q, x
      <3> HIDE DEF u, v
      <3> QED
        BY <3>3, <3>4 DEF x
    <2>6. ASSUME NEW r \in Peers, r # t PROVE Got(r)' = Got(r)
      BY <1>1, <2>3, <2>6, Zenon DEF Got
    \* What was there before is of the frame's sender and earlier, or of another's.
    <2>7. \A i \in 1 .. Len(g) :
             /\ g[i].seq <= sent /\ g[i].seq \in Nat
             /\ \A q \in Peers : t \in todo[q] /\ g[i].src = q => g[i].seq < current[q].seq
      BY <1>2, GotTyped DEF FInv, GotInv
    <2>8. Increasing(g)
      BY DEF FInv, PerSenderOrder, Got
    <2> HIDE DEF g, h
    <2>9. ASSUME NEW i \in 1 .. Len(h)
          PROVE  /\ h[i].seq <= sent
                 /\ \A q \in Peers : t \in todo'[q] /\ h[i].src = q => h[i].seq < current'[q].seq
      <3>1. CASE i \in 1 .. Len(g)
        <4>1. h[i] = g[i]
          BY <2>5, <3>1
        <4>2. ASSUME NEW q \in Peers, t \in todo'[q], g[i].src = q
              PROVE  g[i].seq < current'[q].seq
          BY <1>7, <2>7, <3>1, <4>2
        <4> QED
          BY <2>7, <3>1, <4>1, <4>2
      <3>2. CASE i = Len(g) + 1
        <4>1. h[i] = current[p]
          BY <2>5, <3>2
        <4>2. ASSUME NEW q \in Peers, t \in todo'[q] PROVE q # p
          BY <1>7, <4>2
        <4> QED
          BY <1>3, <4>1, <4>2
      <3> QED
        BY <2>5, <3>1, <3>2
    <2>10. GotInv'
      <3> SUFFICES ASSUME NEW r \in Peers, NEW i \in 1 .. Len(Got(r)')
                   PROVE  /\ Got(r)'[i].seq <= sent
                          /\ \A q \in Peers : r \in todo'[q] /\ Got(r)'[i].src = q =>
                                Got(r)'[i].seq < current'[q].seq
        BY <1>1 DEF GotInv
      <3>1. CASE r = t
        BY <2>9, <3>1, Zenon DEF h
      <3>2. CASE r # t
        <4>1. Got(r)' = Got(r)
          BY <2>6, <3>2
        <4>2. /\ Got(r)[i].seq <= sent
              /\ \A q \in Peers : r \in todo[q] /\ Got(r)[i].src = q =>
                    Got(r)[i].seq < current[q].seq
          BY <4>1 DEF FInv, GotInv
        <4> QED
          BY <1>7, <4>1, <4>2, Zenon
      <3> QED
        BY <3>1, <3>2
    <2>11. Increasing(h)
      <3> SUFFICES ASSUME NEW i \in 1 .. Len(h), NEW j \in 1 .. Len(h), i < j, h[i].src = h[j].src
                   PROVE  h[i].seq < h[j].seq
        BY DEF Increasing
      <3>1. i \in 1 .. Len(g) /\ h[i] = g[i]
        BY <2>5
      <3>2. CASE j \in 1 .. Len(g)
        <4>1. h[j] = g[j]
          BY <2>5, <3>2
        <4> QED
          BY <2>8, <3>1, <3>2, <4>1 DEF Increasing
      <3>3. CASE j = Len(g) + 1
        <4>1. h[j] = current[p]
          BY <2>5, <3>3
        <4> QED
          BY <1>1, <1>3, <2>7, <3>1, <4>1
      <3> QED
        BY <2>5, <3>2, <3>3
    <2>12. PerSenderOrder'
      <3> SUFFICES ASSUME NEW r \in Peers PROVE Increasing(Got(r)')
        BY DEF PerSenderOrder, Got
      <3>1. CASE r = t
        BY <2>11, <3>1 DEF h
      <3>2. CASE r # t
        <4>1. Increasing(Got(r)) /\ Got(r)' = Got(r)
          BY <2>6, <3>2 DEF FInv, PerSenderOrder, Got
        <4> QED
          BY <4>1
      <3> QED
        BY <3>1, <3>2
    <2>13. NothingLostSilently'
      <3> SUFFICES ASSUME NEW r \in Peers
                   PROVE  addressed'[r] = Cardinality(Offering(r)')
                                            + Len(queue'[r]) + Len(delivered'[r])
                                            + dropped'[r] + lost'[r]
        BY <1>0 DEF NothingLostSilently, Offering
      <3>1. CASE r = t
        <4> DEFINE k == Len(queue[t])
                   kk == Len(queue'[t])
                   d == Len(delivered[t])
        <4>1. /\ addressed[t] = c + k + d + dropped[t] + lost[t] /\ kk = k + 1
              /\ k \in Nat /\ d \in Nat /\ dropped[t] \in Nat /\ lost[t] \in Nat
          BY <1>3, <1>11, <2>2, <2>3
        <4> HIDE DEF k, kk, d
        <4>2. addressed[t] = cc + kk + d + dropped[t] + lost[t]
          BY <1>10, <4>1
        <4> QED
          BY <1>1, <2>1, <3>1, <4>2 DEF cc, kk, d
      <3>2. CASE r # t
        BY <1>12, <2>1, <2>3, <3>2
      <3> QED
        BY <3>1, <3>2
    <2> QED
      BY <1>6, <2>4, <2>10, <2>12, <2>13 DEF FInv
  <1>14. CASE ~(Len(queue[t]) < ClientQueueSize)
    <2>1. queue' = queue /\ dropped' = [dropped EXCEPT ![t] = dropped[t] + 1]
      BY <1>1, <1>14
    <2>2. dropped'[t] = dropped[t] + 1 /\ \A r \in Peers : r # t => dropped'[r] = dropped[r]
      BY <1>2, <2>1 DEF TypeOK
    <2>3. TypeOK'
      <3>1. dropped' \in [Peers -> Nat]
        BY <1>2, <1>3, <2>1 DEF TypeOK
      <3> QED
        BY <1>1, <1>2, <1>5, <2>1, <3>1 DEF TypeOK
    <2>4. ASSUME NEW r \in Peers PROVE Got(r)' = Got(r)
      BY <1>1, <2>1, Zenon DEF Got
    <2>5. GotInv'
      <3> SUFFICES ASSUME NEW r \in Peers, NEW i \in 1 .. Len(Got(r))
                   PROVE  /\ Got(r)[i].seq <= sent
                          /\ \A q \in Peers : r \in todo'[q] /\ Got(r)[i].src = q =>
                                Got(r)[i].seq < current'[q].seq
        BY <1>1, <2>4, Zenon DEF GotInv
      <3>1. /\ Got(r)[i].seq <= sent
            /\ \A q \in Peers : r \in todo[q] /\ Got(r)[i].src = q =>
                  Got(r)[i].seq < current[q].seq
        BY DEF FInv, GotInv
      <3> QED
        BY <1>7, <3>1, Zenon
    <2>6. PerSenderOrder'
      <3> SUFFICES ASSUME NEW r \in Peers PROVE Increasing(Got(r)')
        BY DEF PerSenderOrder, Got
      <3>1. Increasing(Got(r)) /\ Got(r)' = Got(r)
        BY <2>4 DEF FInv, PerSenderOrder, Got
      <3> QED
        BY <3>1
    <2>7. NothingLostSilently'
      <3> SUFFICES ASSUME NEW r \in Peers
                   PROVE  addressed'[r] = Cardinality(Offering(r)')
                                            + Len(queue'[r]) + Len(delivered'[r])
                                            + dropped'[r] + lost'[r]
        BY <1>0 DEF NothingLostSilently, Offering
      <3>1. CASE r = t
        <4> DEFINE k == Len(queue[t])
                   d == Len(delivered[t])
        <4>1. /\ addressed[t] = c + k + d + dropped[t] + lost[t]
              /\ k \in Nat /\ d \in Nat /\ dropped[t] \in Nat /\ lost[t] \in Nat
          BY <1>3, <1>11
        <4> HIDE DEF k, d
        <4>2. addressed[t] = cc + k + d + (dropped[t] + 1) + lost[t]
          BY <1>10, <4>1
        <4> QED
          BY <1>1, <2>1, <2>2, <3>1, <4>2 DEF cc, k, d
      <3>2. CASE r # t
        BY <1>12, <2>1, <2>2, <3>2
      <3> QED
        BY <3>1, <3>2
    <2> QED
      BY <1>6, <2>3, <2>5, <2>6, <2>7 DEF FInv
  <1> QED
    BY <1>13, <1>14

(* Every step keeps the invariant.                                          *)
LEMMA NextFInv == FInv /\ [Next]_vars => FInv'
  <1> SUFFICES ASSUME FInv, [Next]_vars PROVE FInv'
    OBVIOUS
  <1>0. TypeOK
    BY DEF FInv
  <1>1. ASSUME NEW p \in Peers, Join(p) PROVE FInv'
    <2>1. TypeOK'
      BY <1>0, <1>1 DEF TypeOK, Join
    <2>2. \A q \in Peers : stopped[q] => stopped'[q]
      BY <1>0, <1>1 DEF TypeOK, Join
    <2> QED
      BY <1>1, <2>1, <2>2, QuietFInv DEF Join
  <1>2. ASSUME NEW p \in Peers, Stop(p) PROVE FInv'
    <2>1. TypeOK'
      BY <1>0, <1>2 DEF TypeOK, Stop
    <2>2. \A q \in Peers : stopped[q] => stopped'[q]
      BY <1>0, <1>2 DEF TypeOK, Stop
    <2> QED
      BY <1>2, <2>1, <2>2, QuietFInv DEF Stop
  <1>3. ASSUME NEW p \in Peers, Leave(p) PROVE FInv'
    <2>1. TypeOK'
      BY <1>0, <1>3 DEF TypeOK, Leave
    <2>2. \A q \in Peers : stopped[q] => stopped'[q]
      BY <1>0, <1>3 DEF TypeOK, Leave
    <2> QED
      BY <1>3, <2>1, <2>2, QuietFInv DEF Leave
  <1>4. CASE UNCHANGED vars
    <2>1. TypeOK'
      BY <1>0, <1>4 DEF TypeOK, vars
    <2> QED
      BY <1>4, <2>1, QuietFInv DEF vars
  <1>5. CASE Next
    BY <1>1, <1>2, <1>3, <1>5, ReadFInv, OfferFInv, WriteFInv, WriteFailsFInv DEF Next
  <1> QED
    BY <1>4, <1>5

----------------------------------------------------------------------------
(***************************************************************************)
(* Theorems.                                                               *)
(***************************************************************************)
(* The invariant holds in every behaviour.                                  *)
THEOREM Forwarded == Spec => []FInv
  BY InitFInv, NextFInv, PTL DEF Spec

(* The state keeps its type, and no send queue outgrows its capacity: the   *)
(* non-blocking send of hub.forward.                                        *)
THEOREM QueuesBounded == Spec => []TypeOK
  <1>1. FInv => TypeOK
    BY DEF FInv
  <1> QED
    BY <1>1, Forwarded, PTL

(* A client gets one sender's frames in the order sent and none twice,      *)
(* however many clients send, join, leave and fall behind in between.       *)
THEOREM OrderKept == Spec => []PerSenderOrder
  <1>1. FInv => PerSenderOrder
    BY DEF FInv
  <1> QED
    BY <1>1, Forwarded, PTL

(* Every frame addressed to a client is delivered, queued, about to be      *)
(* offered or counted by noteDrop, except for one whose write failed and    *)
(* ended the session.                                                       *)
THEOREM Accounting == Spec => []NothingLostSilently
  <1>1. FInv => NothingLostSilently
    BY DEF FInv
  <1> QED
    BY <1>1, Forwarded, PTL
============================================================================
