# A TLA+ verification of wsn

wsn joins machines into one Ethernet segment: every client has a TAP device and
one WebSocket to a relay, and the relay forwards frames between the clients it
has authenticated. This directory models the parts of it in which goroutines,
signals, failures and restarts meet, checks them with TLC on small instances
and proves the central ones with TLAPS for every value of the constants.

## Inventory

| Part | Source | State it keeps | Operations | What is hard | Module |
|---|---|---|---|---|---|
| Relay sessions and hub | `internal/relay/relay.go` | `clients`, `authSlots`, `hub.byID`, `hub.byMAC`, per peer `done` | `handleWebSocket`, `authenticate`, `hub.add`, `hub.remove`, `retainAuthorized`, `Reload`, `peer.stop` | one handler and one writer per client, and reloads, interleave between critical sections | `Relay` |
| Relay forwarding | `internal/relay/relay.go` | `peer.send`, `peer.dropped` | `readLoop`, `forward`, `writeLoop` | full queues, recipients that join and leave while a frame is distributed | `Forwarding` |
| Client list reload | `deploy/server/reload.sh`, `cmd/wsn-server/main.go` | `state/server.json`, the signal channel, the list in force | rewriting the file, SIGHUP, `watchReload`, start and restart | a file written and read piecemeal, merged signals, a signal before `Notify`, crashes | `ReloadSignal` |
| Client session | `internal/client/client.go` | back-off, device, conn, `errCh` | `Run`, `runSession`, three pumps | nobody waits for the pumps; each error path has its own deferred closes | `ClientSession` |
| TAP device, Windows | `internal/tap/tap_windows.go` | handle, two mutexes, two OVERLAPPED | `Read`, `Write`, `Close` | cancellation races with a request about to be issued | `TapWindows` |
| TAP device, Linux | `internal/tap/tap_linux.go` | a blocking descriptor | open, read, write, close | `Close` does not interrupt a `Read` | part of `ClientSession` |
| Provisioning | `internal/provision/provision.go`, `internal/config/config.go` | `state.json`, `server.json`, four PEM files, bundles | `Init`, `AddClient`, `RevokeClient`, `Bundle`, `Enroll`, `ServerBundle`, `RotateCertificate` | several files per command, any write of which may fail | `Provision` |
| Addresses and routes | `internal/provision/provision.go`, `internal/config/config.go` | overlay, gateway, DNS server, the clients' addresses and routes | `Init`, `AddClient`, `RevokeClient`, `LoadClient` | two programs validate the same plan with different code; boundaries | `AddressPlan`, `Prefixes` |
| Protocol | `internal/protocol`, both `authenticate` | challenge, looked-up record | hello codec, proof, four messages | an out-of-date bundle; encodings | `Handshake` |
| Keep-alive | `relay.go`, `client.go` | read and write deadlines, tickers | `readLoop`, `writeLoop`, `webSocketToTap`, `pingLoop` | pings, pongs and frames compete; a path that is lost silently | `KeepAlive` |
| Drop report | `relay.go` | `dropped`, `lastDropReport` | `noteDrop` | lock-free, several senders, the wall clock | `DropReport` |
| Daemon | `internal/daemon/daemon_unix.go`, `daemon_windows.go` | `ctx`, service status, `done` | `Run`, `Execute` | a signal or a stop at any point of a session | `ServiceSession` |
| Log rotation | `internal/daemon/daemon_windows.go` | `file`, `size`, two generations | `LogOutput`, `Write`, `rotate`, `Close` | each file operation of a rotation may fail | `LogRotation` |
| Route check | `internal/netcheck` | none | `systemRoutes`, the two checks | byte order, masks, prefixes that are not canonical | `RouteCheck` |
| Linux upgrade, roll-back | `provision/assets/upgrade-linux.sh`, `rollback-linux.sh` | three binaries, the service | the commands of the scripts | scripts cut short, one after the other | `HostUpgrade` |
| Gateway host | `provision/assets/wsn-gateway.sh`, `install-linux.sh`, `uninstall-linux.sh` | two chains and their jumps, `ip_forward` and its saved value | `up`, `down`, install, uninstall | failing commands, restarts | `GatewayRules`, `ForwardingSetting` |
| Other host scripts, deployment, CLI, health check | `provision/assets`, `deploy/server`, `cmd/wsnctl` | host state | install, toggle | partial failure | not modelled |

How they interact: the administrator's `wsnctl` (Provision) produces
`server.json`; `reload.sh` puts it under the relay's feet and signals it
(ReloadSignal); the relay swaps the list and stops what it no longer authorizes
(Relay) while it forwards frames (Forwarding, DropReport); the client
(ClientSession, inside ServiceSession) authenticates (Handshake),
keeps a session to the relay alive (KeepAlive) and moves frames between it and a
TAP device (TapWindows). What the client is configured with was validated by
provisioning (AddressPlan) and by the client, and is compared with the host's
routes before an installation (RouteCheck).

Correctness, part by part: a revocation leaves no session behind and touches no
other; the hub reaches every live peer and no dead one; handshake slots are
neither lost nor returned twice; a slow client costs only its own frames; the
relay ends up with the list in the file; the client stops when told and
otherwise keeps trying; a device is never used after it was closed; the
artefacts of a deployment agree whenever a command has succeeded; each side of a
handshake talks to whom it believes; a healthy session is not cut and a dead one
is noticed; the log loses only its oldest lines; what provisioning accepts, the
client accepts; the scripts leave a host that can be repaired.

## The modules

**Relay.** A connection `c` stands for a request's handler, its conn and its
peer. A step is what the code does between two points where another goroutine
can interfere: a critical section of `Server.mu` or `hub.mu`, one channel
operation, one `peer.stop()`. So `hub.add` is three steps (`HubAdd` under the
mutex, then `HubStopOldByID`, `HubStopOldByMAC`), and a reload is `SwapClients`,
`RetainAuthorized`, one `StopStale` per peer and `ReloadDone`. `Accept`,
`Upgrade`, `Hello`, `VerifyProof`, `HandshakeFails`, `ReleaseSlot`, `Recheck`,
`ReadFails`, `HubRemove`, `StopSelf` and `Unwind` follow `handleWebSocket` in
program order; `Unwind` is its deferred function. Keys are abstracted to "the
proof verifies or not". A configuration is a partial injection from identities
to addresses, which is what `LoadRelay` guarantees (`IsConfig`). `Free` lets a
connection's name be used again when nothing refers to its last peer.

**Forwarding.** The data path: `Read` picks the recipients under `hub.mu`,
`Offer` is one non-blocking send, `Write` one iteration of `writeLoop`. In
`WriteFails` the frame it has taken is gone (`lost`) and the peer stopped. A peer
has one session here; how it gets into the hub is Relay's subject.

**ReloadSignal.** `server.json` is two halves, because `cat >file` and the
decoder work piecemeal. A file with a missing half is refused; two halves of
different lists may or may not parse, so both outcomes are allowed. Before
`signal.Notify`, SIGHUP kills the process; compose restarts it.

**ClientSession.** `Run` and `runSession` as one control state, three pumps per
session. `platform` is chosen at the start: on Linux `file.Fd()` leaves the
descriptor in blocking mode, so a `Read` outlives `Close` and keeps the device
attached; on Windows `Close` interrupts it (`CloseInterrupts`). A running tap
pump is taken to be in `Read`.

**ServiceSession.** Extends ClientSession by what runs it: on Linux `daemon.Run`
around a signal context, on Windows the service handler `Execute`, its status,
its goroutine and the channel `done`. The actions of `Run` are ClientSession's;
only daemon code cancels `ctx`.

**TapWindows.** Per direction a pump, a mutex and the request as the driver
sees it. `Cancel` aborts exactly what is in flight. The driver is external: it
completes writes by itself and reads when the host transmits.

**Provision.** A command is its checks and the list of files it writes. Each
write succeeds, fails, or is cut off by a crash. `SaveJSON` renames a temporary
file and is atomic; PEM files and archives can be left torn. `Enroll`'s
roll-back is the `rollback` command. A client's key and MAC are one credential,
new for every `AddClient`; one administrator runs one command at a time.

**Membership and RelayRefinement.** What the relay promises, without goroutines
and tables: a session takes the seat of an identity and of an address in one
step that also unseats whoever held either (`Join`), carries frames only after
the published list allowed it (`Carry`), stops (`Hush`) and leaves (`Leave`); a
list is published and later settled, when no session carries frames that it does
not allow. RelayRefinement maps Relay to it: a session has its seats while both
tables have it and nobody has stopped it, so the `hub.add` of another session,
a stop and `hub.remove` each look like one step.

**Handshake.** Both `authenticate` functions and the four messages, as bytes: a
hello is marshalled and parsed, a proof is an injective pairing of the HMAC's
inputs. The other program is a client with any of several configurations, some
of them out of date, or none at all. Relay abstracts all of this to "the proof
verifies or not".

**KeepAlive.** One authenticated session, time in units of 10 s, of which the
code's periods and deadlines are multiples (WriteControl's 5 s are "within the
unit"). `Tick` passes only when what was due has been done. The write of a frame
may last until its deadline; while it does, the relay's ping waits, the client's
fails, and a pong is given up. Only pongs and frames push a read deadline back.
That the relay's own ping fails and stops its peer (relay.go:406-409) is left out:
it ends a session whose path no longer delivers, and the properties are about
sessions that are cut although it does.
The WebSocket library is external: it answers a ping from inside `ReadMessage`.

**DropReport.** `noteDrop`, one step per atomic operation, for several senders.
The clock that `UnixNano` reads (`wall`) is taken to run with real time; what a
clock set back would do is described below.

**LogRotation.** A generation is the sequence of pieces written to it, each with
its number and the length of the file after it. `f.mu`
serialises writers, so the interleaving is with failures: every file operation
may fail, and the process may end between any two. Only what reaches a file is
numbered: lines refused because a reopen has failed are invisible to
`KeepsLatestLines`; `RotateRestoresHandle` below is about them.

**Powers, Prefixes, AddressPlan, RouteCheck.** Addresses of `Width` bits and
prefixes as in `net/netip`; `RouteSets` are the sets of routes that a command or
a configuration may name. `Pow2` is a recursive function of the numbers, used here
for sizes and masks and in ClientSession for the back-off. AddressPlan is what `Init`, `AddClient` and `RevokeClient` let
into a plan, compared with what `LoadClient` says of the rendered `client.json`.
RouteCheck reads `/proc/net/route` line by line, in words of two bytes, and is
compared with the definition: the sets of addresses intersect. A file that cannot
be read makes the check fail without a verdict (`ReadFails`).

**HostUpgrade, GatewayRules, ForwardingSetting.** Scripts under `set -e` as lists
of commands, each of which succeeds or ends the script; `Fault` is a kill or a
failing command, with half a file where the command writes one. systemd, iptables
and `sysctl` are external and modelled as the scripts use them. `systemctl start`
may fail for any binary, for it also needs `wsn-net.service`. An `rm` of several
files unlinks them one by one, in the order in which it names them, and may be cut
short in between: install-linux.sh:21 unlinks the saved value of ip_forward before
the sysctl file, uninstall-linux.sh:19-20 after it. Two histories record what this
costs: `risked`, that an upgrade was begun of a client that does not run, and
`losses`, how the host's own value of ip_forward was put at risk. Two things are
taken on trust: `iptables -C` answers truthfully (wsn-gateway.sh reads any failure
of it as "no such jump"), and no file that `sysctl --system` reads after
90-wsn-gateway.conf sets ip_forward too.

**MCRelay, MCTap, MCConnection, MCHost, MCProvision** hold the instances for TLC.
The last three put together modules that share no variable: what concerns one
connection (Handshake, KeepAlive, DropReport), one client's host (HostUpgrade,
GatewayRules, ForwardingSetting, RouteCheck, LogRotation), and provisioning
(Provision, AddressPlan). Their variable `part`, chosen in the initial state,
says which module moves. Nothing is lost by not interleaving them: no module
reads or writes what another one does, so a violation needs the steps of one
module only. A property such as `EndsAgree` is the conjunction of the module's
own named properties. MCConnection's `ConnectionSafety` has no fairness;
`ConnectionSpec` adds KeepAlive's, in the behaviours in which KeepAlive moves.

Operators named after a definition with a suffix (`HubRemoveID`,
`SignalUnbuffered`, ...) are faulty variants of it; each breaks the property it
is paired with in `PROJECT.json`, one variant at least for every property and
for most conjuncts of the composed ones, and no specification uses them.

## The runs

| Run | Checks | Bounds | Result |
|---|---|---|---|
| `relay_safety` | the type invariant, `AuthSlotsExact`, `NoGhostPeers`, `ReachableUnlessDisplaced`, `OneSessionPerIdentity`, `RevocationTakesEffect`, `ReloadSparesAuthorized` | 3 connections (symmetric), 2 identities, 2 addresses, 2 configurations, 2 slots | holds |
| `relay_liveness` | `HandshakeSlotsReturn`, `StoppedPeerGoes`, `ImplementsMembership`, `ImplementsFairMembership` | 2 connections, 1 slot, 2 identities, 2 addresses, an identity whose address moves | holds |
| `relay_displaced` | `DisplacedByAuthorizedOnly` | 2 connections | violated, see below |
| `forwarding` | `PerSenderOrder`, `NothingLostSilently`, `ForwardNeverBlocks` | 3 peers, 2 senders, queues of 2, 3 frames, one failing write per peer | holds |
| `reload_signal` | `SettledIsCurrent`, `NeverTruncated`, `FinallyCurrent` | 3 lists, 3 scripts, 2 crashes | holds |
| `client` | `ReportNeverBlocks`, `BackoffFollowsFailures`, `DeviceNotLeaked`, `StoppedIsClean`, `StopReturns`, `KeepsDialling`, `PumpsEnd` | both platforms, 2 sessions whose goroutines overlap, a back-off of 1, 2, 3 | holds |
| `tap_close` | `NoUseAfterClose`, `TapPumpsEnd` | 2 buffered messages | holds |
| `tap_idle_host` | `CloseReturns` | the same | violated, see below |
| `provision` | `ServerFollowsState`, `EnrolledIsComplete`, `AuthorizedHasBundle`, `BundlesPinTheCA`, `PlanFitsTogether` | files: 2 identities (symmetric), one regular address and the gateway's, 2 clients added, 2 certificate generations; plan: 4-bit addresses, 2 clients, one route each | holds |
| `enroll_drift` | `EnrollNeverDrifts` | 3 clients added | violated, see below |
| `connection` | `EndsAgree` (`RelayKnowsClient`, `ClientKnowsRelay`, `HelloExact`), `HealthyNeverCut`, `DeadPeerNoticed`, `DropsReported` (`ReportsSpaced`, `TotalsGrow`, `StaysVisible`) | configurations and lists that differ in key, address or identity, 2 challenges, malformed messages; a relay timeout of 90 s, delays up to 10 s, one frame per direction and unit, one ping held up by a frame; 2 senders, 4 drops, an interval of 3 in 6 units of time | holds |
| `host` | `ScriptsTellTruth` (`ExitTellsTruth`, `UpIsExact`, `DownUnhooks`, `ForwardingFollowsRole`), `RepairIsPossible` (`WorkingBinaryKept`, `OwnSettingRemembered`), `HookedIsConfined`, `CheckExact`, `LogKeepsLatest` (`KeepsLatestLines`, `SizeNotBehind`, `GenerationBounded`) | 2 working binaries and a bad one, 2 networks, 3 faults; 4-bit addresses in two 2-bit bytes, one route configured, one line; a log limit of 4, lines of 2 and 5, 4 pieces | holds |

Why the bounds are enough to be interesting: three connections let a peer be
displaced in one table by a second and in the other by a third while the
reload's list of stale peers is old; two configurations revoke an identity and
hand its address to another one at once. Three frames fill a queue of two and
drop one. Three runs of `reload.sh` overlap a load, merge two signals and leave
one over. Two session slots let a new session start while the pumps of the
last one still run; a third would only repeat that. Two credentials let an
identity be added again after a half-finished revocation. Two senders race for
one compare-and-swap, and six units of time hold two reports. The
timeout of `connection` is the default; with it both ends' timeouts leave
the room `HealthyNeverCut` asks for, and its theorem covers every other one. Two of the refinement's
sessions compete for both seats; the refinement theorem covers any number. The
checks of prefixes compare one pair at a time, so one route, one line and four
bits (a byte boundary in the middle, and prefixes that contain, equal or miss
one another) reach all their cases. Four pieces rotate the log twice with a
failure in between. ForwardingSetting needs no bound: its state is finite. Three
faults of the upgrade scripts are enough to tear the client, save it over the last
good binary and be cut short again.

`CHECK_DEADLOCK FALSE` appears where a bound or a stopped program ends all
behaviour (a cancelled client, a closed device, an exhausted number of scripts
or commands); Relay never stops, and is checked for deadlock.

### Fairness

- Relay: weak fairness of each handler's own steps (the scheduler, and the
  handshake deadline for the waits), of a read on a conn that was closed, of
  `writeLoop` on a closed `done`, and of the reload in progress. Nothing makes
  a client connect, a session fail or a reload arrive.
- Forwarding: a goroutine inside `forward` keeps running. Recipients need not.
- ReloadSignal: a script left alone goes on, Docker restarts the relay
  (`restart: unless-stopped`), goroutines are scheduled.
- ClientSession: dial and authenticate have deadlines, timers fire, a closed
  conn is noticed. Two assumptions about the host are kept apart in `LiveHost`:
  it transmits now and then (on Linux nothing else ends a `Read`), and opening a
  free adapter does not fail for ever. `KeepsDialling` and `PumpsEnd` rest on
  them; on a Linux host that never transmits, the old `Read` keeps the device
  and the client cannot reopen it.
- Membership: a session the list does not allow leaves, and a list nothing stands
  against is settled; `ImplementsFairMembership` shows that Relay's fairness is
  enough for it.
- KeepAlive (and in `connection` only where `part` is "keep-alive"): time passes, an end reads what has arrived, notices deadlines and
  closed conns, and serves its ticker. No frame has to be sent or to arrive.
- ServiceSession: `daemon.Run`, `Execute` and its goroutine are scheduled, and
  `device.Close` returns, which on an idle Windows host it may not (see TapWindows).
- Provision, the plan, the handshake, the drop report and the host's scripts are
  checked for safety only: nothing obliges an administrator or a peer to go on.
- TapWindows: the driver completes writes; `BusyHostSpec` adds that the host
  transmits, `FairSpec` does not.

### Where the code and its documents disagree

- `relay_displaced`: `ListenAndServe` promises reloads "without interrupting
  sessions that remain authorized" (relay.go:414-416). A handshake that looked
  its identity up before the reload registers after it, displaces the identity's
  new session in `hub.add`, and only then fails its re-check. The displaced
  client reconnects.
- `tap_idle_host`: the comment in `Close` (tap_windows.go:108-111) says that
  CancelIoEx releases a pump that an idle machine would never release. A read
  issued between CancelIoEx and the lock is not cancelled, and `Close`, and with
  it the client's reconnect loop, waits for the host to transmit.
- `enroll_drift`: `Enroll` says that the three artefacts "can never drift apart"
  (provision.go:328-331, README.md:145). It rolls back only a failure of the
  client bundle; a failure of `server.json` or of the server bundle leaves the
  client in the list, and no roll-back rebuilds the server bundle.

Six more were met while modelling and are not among the runs. Each can be
reproduced by checking the named property of its module.

- DropReport, `StaysVisible`: a saturated peer "stays visible in the log"
  (relay.go:341-343), but the interval is measured on the wall clock. With a
  `wall` that is set back there is no report until it has caught up.
- KeepAlive, `AcceptedIdleNeverCut` with `Idles = {1}` and `Delay = 0`:
  `idle_timeout_ms` may be as small as 10000 (config.go:97), and the relay does
  not ping more often than every 10 s: an idle session is cut before its first
  pong can come.
- LogRotation, `RotateRestoresHandle`: "rotate still restores an active handle"
  (daemon_windows.go:83-84, 100). If the reopen itself fails, the log is without
  a file until the service is restarted.
- LogRotation, `PreviousKept`: "keeps one previous generation"
  (daemon_windows.go:53-54). It is removed before the rename that would replace
  it.
- ForwardingSetting, `ForwardingOnlyForGateways`: the installer "enables
  forwarding [...] only for gateway bundles" (src/README.md:241). On a former
  gateway the install of a client unlinks the saved ip_forward before the sysctl
  file (install-linux.sh:21). Cut short in between, a restart applies the sysctl
  file; the repeated install finds no value to restore, removes the file and
  reports success with forwarding on.
- HostUpgrade, `RestoredRuns`: an upgrade "retains one previous binary and
  automatically restores it if the service cannot restart" (src/README.md:284).
  After an upgrade that was killed while installing, the next one saves the half
  file over the good previous binary (upgrade-linux.sh:15), and that is what it
  restores.

## The proofs

Eight modules hold theorems that tlapm checks; seven extend the specifications
they are about, `PowersProofs` holds the arithmetic three of them share. All of
the runs' safety invariants, the action property `ReloadSparesAuthorized` and the
refinement of Membership are theorems, for every value of the constants that
satisfies the modules' named assumptions. The proofs assume nothing else:

- sets of connections, peers, networks and session slots are finite, `None`,
  `Absent`, `Torn` and `Missing` are none of the values they stand beside, sizes
  and bounds are numbers, and a queue, a slot pool and an interval are not empty;
- a configuration of the relay satisfies `IsConfig`, and one of Handshake has each
  identity once: `LoadRelay` refuses any other;
- a sender takes less than the report interval (30 s) from its first to its last
  atomic operation in `noteDrop` (`StallAssumption`);
- what a program without the key can send is no valid proof
  (`MessagesAssumption`): this is what HMAC-SHA256 is used for;
- the identity length fits the two bytes of the hello (`SizesAssumption`; 64 in
  the code);
- addresses have an even number of bits, more than two, so that a word is two
  bytes and an overlay fits (`WidthAssumption`; 32 in the code), and `RouteSets`
  are sets of prefixes (`RoutesAssumption`).

Every inductive invariant below also holds under TLC, on the state space of its
component's run (without symmetry).

*Relay.* `TypeCorrect`, `SlotsExact`, `HubHasNoGhosts`, `RegisteredIsReachable`,
`SessionsAreUnique`, `RevocationIsImmediate`, `ReloadIsSelective`: every safety
property of `relay_safety`, for any number of connections, identities,
configurations and slots. The invariant is
`TypeOK /\ IdentityKnown /\ NoGhostPeers /\ AddLocals /\ ReachableUnlessDisplaced
/\ StaleUnauthorized /\ RevocationPending`. `IdentityKnown` makes the updates of
the tables well typed. `AddLocals` says that the old peers a `hub.add` still
holds are real peers, other than its own, and follows the order of its two
stops. `RevocationPending` is the reason a revocation has no gap: a served,
unauthorized, live session is waiting for the scan of the reload in progress, is
on its list of stale peers, or is about to be stopped by a `hub.add`; the scan
finds it because `ReachableUnlessDisplaced` says it is in `byID`, and the
re-check covers those that are not served yet. `StaleUnauthorized` uses that
reloads run one at a time. The slots need only `SlotFlag`, which ties
`authSlotReleased` to the handler's stage, and an argument on the cardinality of
the handlers that owe a slot.

*The refinement.* `RelayIsARegistry`: Relay implements Membership. Beyond Relay's
invariant the proof needs three facts. `EarlyUntouched`: nothing refers to the
peer of a handler that has not reached `hub.add`, so a session is not stopped
before it takes its seats. `IdentityConfigured`: a handler's identity and address
are a pair of some list. `DisplacedUnseated`: a peer that a `hub.add` is about to
stop has lost a table entry already, so that stop is invisible. Most steps touch
no seat (`Invisible`) or end one session (`OneLeaves`); `HubAdd` is the `Join`,
`Recheck` the `Carry`, and `ReloadDone` is a `Settle` because `RevocationPending`
leaves no unauthorized session that still carries frames.

*ReloadSignal.* `SettledRelayIsCurrent` and `ListIsNeverTruncated`. The invariant
says that what a load has read so far is what the file holds, unless a script is
at work, died, or has left a signal that is still to be taken (`LoadsAreFresh`).

*Forwarding.* `OrderKept`, `Accounting`, `QueuesBounded`. The order needs what
`hub.forward` promises about the frame in its hands: what a client has got or has
queued from a sender is older than the frame that sender is still offering it
(`GotInv`), and a `readLoop` takes no frame before its last one is distributed
(`CurrentInv`). The accounting is an argument on the cardinality of the senders
that still owe a client a frame; a failed write costs at most one, and the session.

*Handshake, drop report and keep-alive* (`ConnectionProofs`). All three are
theorems of `ConnectionSafety`, so of every behaviour. `HandshakeAgreement`: the
invariant says, for a client, where the two ends stand and what is on its way
between them, and for any other program that the relay does not get past the
proof. That a hello has one spelling is proved of `MarshalHello` and `ParseHello`
for every identity. `DropReports`: `DropInv` relates the locals of every sender,
and of every pair of senders, to the stamp: one that has lost the race finds
another stamp than the one it loaded and its compare-and-swap fails; one that
wins holds a total no smaller than those reported. `HealthySessionKept`:
`HealthyNeverCut` for every idle timeout, delay of the path and number of frames
that may hold up a ping. For an end whose timeout leaves room, `AliveInv` names
what will push its read deadline back in time (`Promised`): a frame or a pong
on its way to it; a frame the other end is writing; a ping of its own that is on
its way, and that the other end will answer or is too busy to answer because it
is writing a frame; or a ping that is still to be sent, with the writes before it.
Each carries the units of time it may still take, and the step that ends one
promise makes the next. A ping that is given up is therefore harmless: what it
gave way to is a frame, which serves as well.

*Client session and daemon* (`ServiceSessionProofs`). `ReportsFit`: each error in
`errCh` is one that a pump sent before it exited, and a pump about to send has not
(`ErrInv`). `NoDeviceLeak`, `CleanStop`: who holds the device and the conn in
every state of `Run` (`DeviceInv`, `ConnInv`), and that `Run` returns only when
cancelled (`ReturnInv`), also with pumps of earlier sessions still alive.
`BackoffDoubles`: for any maximum the delay is `Pow2[failures]` or the maximum, at
every point of the loop and not only where the property looks (`BackoffInv`).
`ServiceTyped` is the type invariant. The module is also about TapWindows.
`HandleOutlivesRequests`: Close holds both mutexes when it closes
the handle, and a pump past its `ResetEvent` holds one; the invariant adds that a
mutex has at most one request in flight under it (`OneRequestPerDirection`) and
that handle and events are open until Close returns.

*Powers of two* (`PowersProofs`). The library's induction theorems take an operator,
which the provers cannot instantiate; here induction is over a set (`SetInduction`,
from the well-foundedness of `<` on the numbers), and recursion over functions:
`RecursionTheorem` builds the function that a start and a step define from its
finite beginnings. `Pow2` is such a function (`Pow2Facts`), a sum of exponents a
product of powers (`Pow2Sum`), and blocks of addresses whose sizes are powers of two
are nested or disjoint (`Nested`, `BlockFits`).

*Provisioning* (`ProvisionProofs`). `ServerFollows`, `EnrollComplete`,
`AuthorizedBundled`, `CAPinned`, `Distinctness`, `FilesTyped`, `PlanFits`. The
invariant of the commands follows the command at work: the writes it has left are the rest of its program
(`OnProgram`), what it has saved is on the disk (`Saved`, `EnrollProgress`), and a
CA may still be replaced only while no bundle pins one (`NothingPinnedYet`). The
lists of writes of `Init` and `Enroll` are sequences written out
(`InitFiles`, `EnrollFiles`). `PlanFits` is `PlanFitsTogether` for addresses of any
width and clients with any number of routes. Its arithmetic is in a few lemmas: two
prefixes overlap exactly when they have an address in common (`OverlapIs`), masking
keeps the addresses (`MaskedIs`), and `usableAddress` is what lies strictly between
the ends of the overlay (`UsableIsInside`). `PlanInv` then says only what the
commands have checked: the overlay, the gateway and the resolver (`Deployed`), and
every client as `AddClient` accepted it (`Accepted`), no two with one address.

*The host* (`HostProofs`). `ScriptsHonest`, `Repairable`, `Confined`, `LogKept`,
`RoutesChecked`. A
script at work is known by the number of commands it has left (`Remaining`, the
script read backwards). For `up` with any list of destinations `UpState` says how
much of each chain is there after every command and that a chain is jumped to
only when it is complete; for `down`, `DownState` says that only a fault leaves a
chain behind. For upgrades `FoundKept` says, for each stage, which of the three
files hold the client and the previous binary that the script found, from which
the messages of all three outcomes follow, and that while no upgrade was begun of
a client that does not run (`Unrisked`) one of the files is a working binary. For
ip_forward, how far a script has come tells what is saved, configured and set, and
that the sysctl file is without a saved value only between the two unlinks of a
client install or after one that ended there. So `ScriptsHonest` and `Repairable`
name their exceptions: they say what is lost when `ForwardingOnlyForGateways` or
`RestoredRuns` fails, and that nothing else is. For the log, pieces are numbered by their place
(`Numbered`) and `f.size` is not behind the file from its open to its close
(`SizeInv`). For the route check, `RoutesInv` says that the routes read are the
kernel's unless they could not be read. It rests on `ParseExact`, every line is read as the route it stands for,
and so on the loop of `netMaskBits`: after its j-th turn (`Counted`) the j highest
bits of the mask, its bytes exchanged, are ones before zeros and counted, or the
loop has given up and no mask begins with them. From there `ConflictsExact` turns
the comparison of prefixes into one of sets of addresses.

Only model-checked: the liveness properties and `ImplementsFairMembership`. The
prover does not handle fairness.

## Plan

1. Done: the modules above, and every safety property of the runs proved.
2. Open: the parts listed below as not modelled, of which the Windows scripts and
   the server's installer are the largest; they would join HostUpgrade.

## Not modelled

Cryptography (an HMAC is an injective pairing), TLS and Caddy, JSON and PEM
syntax, the wording and layout of bundles and logs, search domains, registry
look-ups, flag parsing and the stateless health check. `wsn-net.sh`, the Windows
scripts and the server's installer are sequences of host commands; the Windows
upgrade and roll-back take the steps of the Linux ones. Shutdown of the relay
ends the process with its sessions and is a `Crash` of ReloadSignal. While
`wsn-gateway` is not up the host's own FORWARD policy applies, which is not part
of GatewayRules.
