---------------------------- MODULE MCConnection ----------------------------
(***************************************************************************)
(* The three sides of one client's connection that share no state, for     *)
(* TLC: its handshake (Handshake), the timers of its session (KeepAlive)    *)
(* and the report of the frames dropped for it (DropReport).  A behaviour   *)
(* moves one of them and leaves the others as they began.                   *)
(*                                                                          *)
(* Identities have up to two characters (and one has three, which is too    *)
(* long), and there are two keys and two addresses; the bytes of a program  *)
(* that is no wsn client are every short sequence that begins like a hello  *)
(* or not, and a proof for an earlier challenge.                            *)
(***************************************************************************)
EXTENDS Handshake

CONSTANTS k1, k2

m1 == <<2, 1>>
m2 == <<2, 2>>
MCIdentities == {<<1>>, <<2>>, <<1, 2>>}
MCClients == [id : MCIdentities \cup {<<1, 2, 1>>}, key : {k1, k2}, mac : {m1, m2}]

Entry(i, k, m) == [id |-> i, key |-> k, mac |-> m]
MCLists ==
    { {Entry(<<1>>, k1, m1), Entry(<<2>>, k2, m2)},
      {Entry(<<1>>, k1, m2), Entry(<<1, 2>>, k2, m1)},
      {Entry(<<1>>, k2, m1)} }

MCChallenges == {<<7>>, <<1>>}

ByteStrings(n) == UNION {[1 .. l -> {0, 1, 2}] : l \in 0 .. n}
\* The answer to a challenge of an earlier handshake, which is not drawn again.
OldProof == Proof(k1, <<9>>, <<1>>, m1)
MCMessages ==
    [binary : BOOLEAN, bytes : ByteStrings(6)] \cup {Bin(OldProof)}

----------------------------------------------------------------------------
CONSTANTS Idles, Delay, MaxSkips
VARIABLES idle, net, inbox, end, deadline, ticker, due, busy, wrote, skips
Alive == INSTANCE KeepAlive

CONSTANTS Senders, Interval, MaxStall, MaxTime, MaxDrops
VARIABLES time, dropped, lastDropReport, pc, total, now, last, start,
          reports, reported, noted
Drops == INSTANCE DropReport

VARIABLE part   \* the side that moves

ASSUME PartsAssumption ==
    /\ Alive!IdlesAssumption /\ Alive!DelayAssumption /\ Alive!SkipsAssumption
    /\ Drops!IntervalAssumption /\ Drops!StallAssumption /\ Drops!BoundsAssumption

aliveVars == <<idle, net, inbox, end, deadline, ticker, due, busy, wrote, skips>>
dropVars  == <<time, dropped, lastDropReport, pc, total, now, last, start,
               reports, reported, noted>>

ConnectionInit ==
    /\ part \in {"handshake", "keep-alive", "drops"}
    /\ Init /\ Alive!Init /\ Drops!Init
    /\ part # "handshake" => client = None /\ list = CHOOSE L \in Lists : TRUE
    /\ part # "keep-alive" => idle = CHOOSE i \in Idles : TRUE

Handshakes == part = "handshake" /\ Next /\ UNCHANGED <<aliveVars, dropVars, part>>
StaysAlive == part = "keep-alive" /\ Alive!Next /\ UNCHANGED <<vars, dropVars, part>>
Reports    == part = "drops" /\ Drops!Next /\ UNCHANGED <<vars, aliveVars, part>>

ConnectionNext == Handshakes \/ StaysAlive \/ Reports

\* What the three sides may do, and with the fairness of the one whose
\* liveness is checked, in the behaviours in which it is the one that moves.
ConnectionSafety ==
    ConnectionInit /\ [][ConnectionNext]_<<vars, aliveVars, dropVars, part>>
ConnectionSpec == ConnectionSafety /\ (part = "keep-alive" => Alive!Fairness)

----------------------------------------------------------------------------
(* The two ends of a handshake agree on who the client is: RelayKnowsClient, *)
(* ClientKnowsRelay, and HelloExact for the identity in the hello.          *)
EndsAgree == RelayKnowsClient /\ ClientKnowsRelay /\ HelloExact

(* On a path that delivers no end gives the other one up for silence, if    *)
(* the idle timeout leaves room for a ping and its pong.                    *)
HealthyNeverCut == Alive!HealthyNeverCut

(* Neither end keeps a session with a peer that is gone or unreachable.     *)
DeadPeerNoticed == Alive!DeadPeerNoticed

(* What the log says of a peer that cannot keep up: reports an interval     *)
(* apart (ReportsSpaced) with totals that grow (TotalsGrow), and one in     *)
(* every interval with a dropped frame (StaysVisible).                      *)
DropsReported == Drops!ReportsSpaced /\ Drops!TotalsGrow /\ Drops!StaysVisible
============================================================================
