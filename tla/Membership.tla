----------------------------- MODULE Membership -----------------------------
(***************************************************************************)
(* What the relay promises about who is on the segment, without its        *)
(* goroutines, locks and tables: a session takes the seat of an identity    *)
(* and of an address in one step, which also unseats whoever held either;   *)
(* it carries frames only after the published list allowed it that seat;    *)
(* a new list is settled once no session carries frames that the list       *)
(* does not allow, and the next one is published after that.                *)
(***************************************************************************)
CONSTANTS
    Conns,      \* sessions
    Ids,        \* identities
    Macs,       \* addresses
    None,       \* no identity, no address
    Configs     \* lists: the address of every identity, None if it has none

VARIABLES
    list,       \* the published list
    settled,    \* has it been applied to the sessions that were there
    seatId,     \* the identity a session has the seat of
    seatMac,    \* the address it has the seat of
    carrying    \* the seated sessions that carry frames

vars == <<list, settled, seatId, seatMac, carrying>>

Allowed(c) == list[seatId[c]] = seatMac[c]

Init ==
    /\ list \in Configs
    /\ settled = TRUE
    /\ seatId = [c \in Conns |-> None]
    /\ seatMac = [c \in Conns |-> None]
    /\ carrying = {}

\* c takes the seats of i and m.
Join(c, i, m) ==
    LET out(d) == d # c /\ (seatId[d] = i \/ seatMac[d] = m) IN
    /\ seatId[c] = None
    /\ \E L \in Configs : L[i] = m
    /\ seatId' = [d \in Conns |-> IF d = c THEN i ELSE
                                  IF out(d) THEN None ELSE seatId[d]]
    /\ seatMac' = [d \in Conns |-> IF d = c THEN m ELSE
                                   IF out(d) THEN None ELSE seatMac[d]]
    /\ carrying' = {d \in carrying : ~out(d)}
    /\ UNCHANGED <<list, settled>>

\* c begins to carry frames.
Carry(c) ==
    /\ seatId[c] # None /\ c \notin carrying
    /\ Allowed(c)
    /\ carrying' = carrying \cup {c}
    /\ UNCHANGED <<list, settled, seatId, seatMac>>

\* c carries no more frames, its seats are not free yet.
Hush(c) ==
    /\ c \in carrying
    /\ carrying' = carrying \ {c}
    /\ UNCHANGED <<list, settled, seatId, seatMac>>

\* c gives up its seats, for whatever reason.
Leave(c) ==
    /\ seatId[c] # None
    /\ seatId' = [seatId EXCEPT ![c] = None]
    /\ seatMac' = [seatMac EXCEPT ![c] = None]
    /\ carrying' = carrying \ {c}
    /\ UNCHANGED <<list, settled>>

Publish(L) ==
    /\ settled
    /\ list' = L
    /\ settled' = FALSE
    /\ UNCHANGED <<seatId, seatMac, carrying>>

Settle ==
    /\ ~settled
    /\ \A c \in carrying : Allowed(c)
    /\ settled' = TRUE
    /\ UNCHANGED <<list, seatId, seatMac, carrying>>

Next ==
    \/ \E c \in Conns :
          \/ \E i \in Ids, m \in Macs : Join(c, i, m)
          \/ Carry(c) \/ Hush(c) \/ Leave(c)
    \/ \E L \in Configs : Publish(L)
    \/ Settle

Spec == Init /\ [][Next]_vars

\* A session the list does not allow is made to leave, and a list that
\* nothing stands against any more is settled.
Evict(c) == c \in carrying /\ ~Allowed(c) /\ (Hush(c) \/ Leave(c))

FairSpec ==
    /\ Spec
    /\ \A c \in Conns : WF_vars(Evict(c))
    /\ WF_vars(Settle)
============================================================================
