# A TLA+ model of vectorcore-twag

vectorcore-twag is a trusted WLAN access gateway: it authenticates Wi-Fi clients
with RADIUS/EAP against a Diameter AAA, opens a GTP session for each of them at
a PGW, installs the kernel state their traffic needs, and answers DHCP and ARP
on the access side. This directory holds a TLA+ model of its core, the TLC
configurations that check it on small instances, and TLAPS proofs of what holds
for every instance. `PROJECT.json` lists, for every definition that models code,
the lines it stands for.

## The system

| part | state | operations | who calls it |
|---|---|---|---|
| session store (`internal/session`) | sessions by ID; indexes by MAC, IMSI, IP, TEID; authentication cache; recovery tombstones; one mutex | create, state transitions, updates that re-index, delete, lookups | everyone below |
| lifecycle service (`internal/lifecycle`) | subscriber locks, the limiter of recoveries, counters | AttachAuthorized, HandleAccounting, GTP-U errors, PGW deletes, AAA disconnects, recoveries, Shutdown | RADIUS server, user plane, GTP-C client, AAA, DHCP, main |
| GTP-C client (`internal/gtp`) | pending transactions, sequence and TEID counters, health of the peer | CreateSession, DeleteSession, Echo, readLoop, Close | lifecycle, its own watchdog |
| user plane, routing (`internal/userplane`, `internal/routing`) | PDP contexts, rules and routes in the kernel; control reader, echo watchdog, health of the PGW | AddSession/RemoveSession, Install/Remove, Start, Stop | lifecycle, main |
| program (`cmd/twag`) | what is started, the 15 seconds of the shutdown | run, stopRuntime | - |
| access side (`internal/accessside`) | neighbour entries, leases, throttles | AddSession/RemoveSession, DHCP and ARP frames | lifecycle, packet readers |
| RADIUS server, dynamic authorization (`internal/radius`) | two packet servers, a goroutine per packet, access points | Access-Request, Accounting, Disconnect/CoA | access points, lifecycle |
| STa client (`internal/diameter`, `internal/aaa`) | Diameter connection, its reader and watchdog, pending requests | ExchangeEAP, ASR/STR, Start, Stop | lifecycle |
| GTP-U forwarder (`internal/gtpu`) | socket | echo, Error Indications | user plane |
| IPAM, config, access drivers, logging | - | - | main; IPAM is not used in production (main passes nil) |

Every event runs in a goroutine of its own. The store is behind one mutex but a
handler makes many calls on it, working on clones in between; attaches,
Accounting-Stops, GTP-U errors and Shutdown take a lock per subscriber, the PGW
delete and AAA disconnect handlers do not. Steps wait for the PGW or an access
point, whose answers may be late, repeated or lost. That is where the hard
behaviour is, and the hazards in `PROJECT.json` point at its lines:

- handlers of one subscriber that overlap, with and without the lock; copies
  that are stale once the lock is held;
- installations that fail half way, and rollbacks that must undo exactly what
  was done, by address, while addresses move to other subscribers;
- index entries of one object deleted or taken over by another with the same key
  (three times: sessions, authentication cache, tombstones);
- lost answers with and without a deadline, sequence numbers and TEIDs that
  wrap, a Close in the middle;
- recoveries that must be single, limited, and never undo each other;
- calls that share one connection and one map of channels with watchdogs that
  tear the connection down under them;
- parts that are stopped in an order while requests are under way, within a time
  limit, although any Stop may hang.

What makes each part correct: the store never has dangling indexes and never
brings a session back; the service never makes the PGW replace a context, accepts
only what is fully bound, and leaves nothing behind; a transaction returns its own
answer and can always be woken; a RADIUS request is accepted only if the AAA
granted it and always comes to an end; what the echo watchdog says of the PGW is
what its last probes met; the program exits, closes nothing under a RADIUS handler,
the control reader or the echo watchdog, and reports what it could not release;
recoveries are single and limited, a tombstone is kept until it is completed or
expires, and is then over.

## The modules

```
SessionStates            states of a session, validTransition
  SessionManager         session.Manager: the sessions and their indexes
    Lifecycle            lifecycle.Service with the PGW and the kernel
AuthCache                the authentication cache and the recovery limiter
Recovery                 tombstones, RADIUS disconnect, reattach, DHCP/ARP
CallService              what callers of a signalling client rely on (abstract)
  GTPClient              gtp.Client: transactions, counters, echo, Close
  STaClient              diameter.STaDiameterClient: connections, calls, watchdogs
RadiusServer             the RADIUS handlers, the EAP exchange, attach and detach
UserEcho                 control reader and echo watchdog of the user plane
  Runtime                cmd/twag: start and stop of the program around the two
MC*                      instances for TLC
*_proofs                 theorems about SessionManager, Lifecycle, AuthCache,
                         GTPClient, STaClient, Recovery and Runtime
Binding_proofs           theorems about Lifecycle: what the PGW and the kernel have
```

**SessionManager** has one action per Manager operation (`Create`,
`MarkAuthorized`, `SetSubscriberIP`, `ApplyPGWResult`, `Delete`, ...). `sess` is
the heap, `byID` the table, `byMAC`, `byIMSI`, `byIP`, `byTEID` the index maps;
0 (`NoSession`) is a missing entry. `Put` and `Drop` are `indexLocked` and
`unindexLocked`, including that the latter deletes an entry whichever session it
points to.

**Lifecycle** composes the store (`EXTENDS SessionManager`) with the goroutines:
`job[p]` is program counter and locals of goroutine `p`, `c` in it the clone it
works on. A step is one call on the store, the PGW or the kernel. `ctx` is what
the PGW holds; `route`, `rule`, `pdp`, `neigh` what TWAG has installed. `setup`,
which never changes, says what each goroutine may be started for, which calls may
fail and what the policy for duplicate attaches is; a run gives a set of them.
Modelled is the production configuration (pgw type gtp, no IPAM, post-activation
validation on) without the authentication cache and tombstones, which have
modules of their own. Abstractions: a PGW delete names the TEID the store is
indexed by (the code indexes the PGW's TEID while the request carries TWAG's);
an Accounting-Stop finds its session by the MAC alone (`findAccountingSession`,
service.go 1280-1310, also tries Class, Acct-Session-Id, IMSI and Framed-IP);
`ttl` is never set since nothing calls `ExpireInactive`.

**AuthCache** keeps `cache` (`authByKey`, `authByMAC`, `authByIMSI`), the limiter
`rec` and the goroutines that recover. An attach is one step with its outcome.
`now` is read before the mutex in the code and in the same step here; the lookup
by Acct-Session-Id is left out.

**Recovery** keeps the tombstones `rec` and follows a handler through
`AddRecoveryTombstone`, `attemptDynamicAuthorization`, `DisconnectOrCoA` and the
detach, the timeout of the wait for an Accounting-Stop (`timer`), and an attach
through `logRecoveryAttachIfPresent`, the activation and `completeRecovery`. A
client is a MAC with its IMSI, so devices of one subscriber share the lock and the
index by IMSI; two SIMs in one device are left out. Retries of the request are
time only and not counted; replies of DHCP and ARP are left out.

**GTPClient** keeps `pending`, the two counters, the calls with their program
counters, the reader, the messages on the way (a set: late, repeated and
reordered) and `health`. The watchdog makes its probes (`Probes`) one after the
other. A write may fail at any time.

**CallService** is the abstract specification of a signalling client: a call
returns the peer's answer to its own request or an error, once, and with a
deadline it returns. **GTPClient** and **STaClient** implement it (`Calls ==
INSTANCE CallService WITH phase <- CallPhase, answers <- OnTheWay`): the phase of
a call comes from its program counter and its result, an answer is on its way
while it is in the network, in the hands of the reader or in a channel. An answer
of another call maps to a phase CallService does not have, so it would be a step
CallService does not allow.

**STaClient** follows `connectLoop`, a reader and a watchdog for every connection,
`Stop`, and the calls through `waitOpen`, `sendRequest` and `sendRequestOnConn`.
What is done under `mu` is one step; a send on a channel is enabled only if the
channel (capacity one) is empty. A watchdog is a caller like the calls. `sock` is
a connection's state, with "dead" for a peer that vanished without closing it. A
request takes the least hop-by-hop number that nothing carries, in place of a
32-bit counter. A write never blocks. The handler of ASR/STR is an event of
Lifecycle.

**RadiusServer** has a goroutine per packet (`work[g]`), with the DEA as Result-Code
class and EAP code and the three layers that judge it (`eapExchangeResult`,
`providerRejects`, `exchangeOutcome`). Of an attach and a detach it keeps what a
request can wait for or leave behind: the lock, the PGW and the session's state;
Lifecycle has the rest. Of an unauthorized Accounting-Start the Disconnect-Request
to the access point is left out: it ends with the handler's context and changes no
state. **UserEcho** keeps the channel `pending` that probe and reader share, and the
health; the reader reads a response, looks the channel up and sends in three steps,
and a probe may end and the next begin between any two. **Runtime** composes the
two with `run` and `stopRuntime`: `stop[p]` is the goroutine of a part's Stop,
`budget` the end of the 15 seconds, `listed` what Shutdown found. Without echo the
reader of the user plane is not followed.

PGW, AAA, packet server library, kernel and access point are modelled from how the
code uses them and marked external.

## The runs

Bounds are the constants of the `.cfg` files.

| run | question | instance and why it is enough |
|---|---|---|
| `session_store` | Can any sequence of Manager calls break the indexes, skip the AAA or bring a session back? | two sessions that may share MAC, IMSI, address and TEID: every aliasing of two objects |
| `attaches` | Context replacement, leaks, half-open sessions, accepts that are not ready | three setups: one device, three goroutines, every installation may fail (an attach, a teardown and a duplicate in every order); two subscribers, on two devices or on one, with `replace_existing`. `AttachesAreOrderly` has TLC check that the theorems of Binding_proofs are about them |
| `unlocked_handlers` | What still holds when handlers without the lock interfere, with every fault: no half-open session, and the service uses the store only as `MgrSpec` allows, a refinement that carries over what is proved of the store | as above |
| `events_end` | Is every event handled and every teardown finished although answers to Create Session get lost? (liveness) | a waiting attach, a second attach or AAA disconnect, a teardown |
| `auth_cache` | Cache indexes, single recoveries, pending mark, rate limit | two IMSIs on one MAC, two goroutines, clock over two limiter windows |
| `recovery` | Tombstones under overlapping handlers, timeouts, expiry, DHCP and attaches | one subscriber on two devices (the entry by IMSI is shared), two goroutines that take event after event, clock past the expiry of a tombstone, which lasts for the window or, when that is more, for what is left of the session |
| `gtpc_transactions` | Own answers, wake-ups, TEIDs; is the health of the PGW what its last probes met? | two creates while the TEIDs (modulo 6) wrap; or a delete and three probes with a limit of two failures: a failure, an answer and a failure again, and two failures with an answer before or after them. Two sequence numbers: they wrap onto the delete that still waits, and a late answer to the first probe fits the third. `FewCalls` keeps the two mixes apart |
| `gtpc_close` | Does Close end every call (liveness), and does the client implement CallService with its deadlines (refinement)? | a create and a delete, one without a deadline |
| `sta_client` | Blocked channels, requests nobody can fail, answers of others (refinement of CallService), a lost peer that nobody notices (liveness) | one call without a deadline and the watchdogs of two connections: three callers on one map, over a reconnect |
| `runtime` | What is accepted, that requests and the program end (liveness), the order of the Stops, what an exit leaves behind, the echo watchdog | one station, two handlers (both servers, every kind of packet), two sessions; or the echo watchdog with two failures to the limit and two responses on the way, one more than a probe needs; each with start, signal and stop, errors and hangs |
| `two_devices` | finding | one IMSI on two MACs |
| `leftover_session` | finding | one device, three attaches, one rejected |

Symmetry is used over addresses, goroutines, devices or subscribers where nothing
names a member, and never for liveness. Deadlock is not checked in
`session_store`, `gtpc_transactions`, `gtpc_close` and `sta_client`: the store's
IDs, the calls or the connections are used up. Every property has a mutant: a
plausible bug in the mapped code, named `<definition>_<what>` next to it, that TLC
finds through the property.

**Fairness.** Weak fairness of the steps of a goroutine once it has started: Go
schedules runnable goroutines, the wait for a subscriber lock is bounded by a
timer (`lockTimeout`), calls on the kernel return. Whether an event arrives, the
PGW answers, or Close is called is never assumed. A call on the PGW without
deadline whose answer is lost hangs (label `hung`), as in the code. In STaClient
the loop, the readers and the callers run and timers fire; nothing is assumed of
the AAA. In Runtime the RADIUS handlers, the echo watchdog and main run and
deadlines pass; of AAA, PGW, the goroutine in which a Stop runs and the reader
nothing is assumed, so `ProgramExits` holds although every Stop may hang. TLC cannot
evaluate fairness of CallService under the mapping, so what it gives
(`DeadlineReturns`) is stated there as a leads-to.

## Findings

The two runs that end in a violation show where the program and its README
disagree:

- `two_devices`: README 550, "One active or activating PGW session per
  IMSI/APN/default bearer." The searches for an existing session skip one with
  another MAC, so a second device of a subscriber makes the PGW replace the
  context.
- `leftover_session`: README 552, "If duplicate EAP success occurs for an
  already-active session, reuse the existing session." Failed sessions stay in
  the table and the first match in map order decides; when it is a failed one the
  duplicate attach is refused.

Further limits that the same modules show when one constant or property of a run
is changed:

| change | TLC finds |
|---|---|
| `unlocked_handlers` with `NoContextReplacement` | an AAA disconnect deletes the session of an attach that waits for the PGW; its context stays and the next attach replaces it |
| `attaches` with `ReuseIP = TRUE` | the detach removes the route of an address the PGW has already given to the other subscriber, who is accepted without it |
| `attaches` with fault `lost_delete` | the lost answer uses up the deadline; PDP context, rule and neighbour stay (`NoLeak`) |
| `events_end` with fault `lost_delete` | the handlers of GTP-U errors, PGW deletes and AAA disconnects have no deadline; the teardown never ends (`gtpc_close` shows that Close ends it) |
| `recovery` with `TombstoneKept` for the same device only | an attach of one device completes, through the IMSI, the recovery of another |
| `auth_cache` with `CacheWithinSessionTimeout` | every recovery from the cache writes a new expiry, without EAP; README 416 says "The cache expires based on the RADIUS Session-Timeout returned in Access-Accept." |
| `runtime` with `CleanExitReleases` for every active session | `stopRuntime` detaches the sessions before it stops RADIUS (README 914-926 lists "stop RADIUS" first): an attach that finishes after Shutdown has listed the sessions keeps its context at the PGW, and the exit reports no error |
| `sta_client` with `WaitingIsWatched` without `ctxDone` | Stop during a handshake: the connection is published afterwards, and a call on it waits until its deadline |
| `recovery` with `DisconnectSparesRecovered` for PGW deletes | without the lock, a client that has reattached is sent a Disconnect-Request |

One limit lies in the model and not in a constant. `StopsInOrder` speaks of the
RADIUS handlers, the reader and the echo watchdog, which a Stop waits for. The
handlers of Error Indications (`go k.errorHandler`, userplane.go 763), of PGW
deletes, AAA disconnects and DHCP recoveries use the GTP-C client and the netlink
handle too, and no Stop waits for them; they are not counted as users.

## The proofs

tlapm checks, for every value of the constants that satisfies the assumptions of
the modules. The `ASSUME`s say that sets of keys, goroutines and records do not
contain `None`, that bounds are numbers, and what a client, a setup or a
configuration looks like (in Lifecycle also that the inputs and bearers which the
store is specified for include the ones the service passes); TLC evaluates them in every run.

Each component has one inductive invariant, Lifecycle three; most properties that
the runs check are not inductive by themselves.

- **SessionManager_proofs**: `TypeCorrect`, `IndexesSound`,
  `ServiceIsAuthorized`, `UnsharedMACIsFound`, `GoneMeansTerminated`,
  `NoSessionResurrected`. The inductive invariant joins types, index soundness,
  and that a session outside the table is unused or terminated. It is needed
  because `unindexLocked` deletes entries by key: that the entry of an unshared
  MAC survives follows only if entries never name a session without that key.
- **Lifecycle_proofs** (extends the proofs of the store): `LifecycleTypes`,
  `NothingHalfOpen`, `LockExcludes`, `ServiceUsesStore`, `ServiceKeepsStore`, from
  `LInv` (`LifecycleInvariant`), for every setup: whatever is started, fails,
  expires or interferes without the lock. A quiet service has no half-open session
  because at every moment each stored session that is neither active nor failed is
  tended (`Tended`): a goroutine has it in hand at a label from which the
  transition it is going to ask for is valid, so that a refusal means another
  goroutine has moved the session on, and tends it. The owner of a lock is
  exactly the goroutine in the section it protects (`Held`), and `Known` says what a
  goroutine's locals are at each label, which the calls on the store need to be
  operations of `MgrSpec`. Through that refinement the store's theorems hold in the
  service (`ServiceKeepsStore`). Each action is shown to do no more than `Acts`
  allows, and `Acts` to keep `LInv`.
- **Binding_proofs** (extends Lifecycle_proofs): `ContextNeverReplaced`,
  `NoContextLeaks`, `ActiveSessionsBound`, `NothingLeaks`, `AcceptedIsReady`, for
  any number of subscribers, goroutines and events. They have hypotheses, since the
  code does not bind sessions in every setup. `Orderly(setup)`: the handlers that
  take no subscriber lock do not run, an attach names its IMSI and APN and both are
  used from one device, the PGW answers and accepts every delete, no deadline
  passes; a create may be refused or answered without an address, and route, user
  plane and access side may fail anywhere. `~ReuseIP`: the PGW hands out no
  address that a session of the service had before; the first two theorems do
  without. The runs and the table above show what happens otherwise: for
  `NoContextReplacement` and `NoLeak` TLC refutes the setup of one device with
  any of the other faults, and for `ActiveIsBound` and `AcceptReady` addresses that
  are used again.

  `CInv` (`ContextInvariant`) adds to `LInv`: a goroutine that works on a session
  holds the lock of its subscriber, has a copy that agrees with the table, and the
  label says which state the session is in (`Control`); subscriber, TEID and
  address identify a context, each context is that of a stored session whose label
  says that it has one, and of a subscriber's sessions one at most does
  (`Contexts`). That no second context is asked for rests on what
  `findLiveSessionDifferentFrom` found and on the lock, which keeps it true up to
  the request (`Alone`). `BInv` (`BindingInvariant`) adds the kernel (`Local`):
  route, rule, PDP context and neighbour of an address are there exactly while its
  session is active at rest or is worked on at a label between their installation
  and their removal (`Installed`). Every action is one of sixteen deeds (`Deed`,
  lemmas `...Does`), and each deed keeps the three parts (`...Control`,
  `...Contexts`, `...Local`). TLC checked the three parts on the run `attaches`
  before they were proved.
- **AuthCache_proofs**: `CacheTypeCorrect`, `OneRecoveryAtATime`,
  `RecoveriesAreLimited`, `CacheIndexesSound`, `PendingMarkOwned`. The pending
  mark of a subscriber is shown to be exactly "some goroutine is between the two
  halves", which gives both single recoveries and no mark left behind. The limit
  needs a strengthening: the limiter may forget an attempt only once it is outside
  of every window it could count in, so the attempts it has kept are all those of
  the last minute.
- **GTPClient_proofs**: `ClientTypeCorrect`, `NoTransactionLost`,
  `AnswersAreOwn`, `HealthIsEarned`, `LocalTEIDsDistinct`,
  `ClientImplementsCalls`. The transaction table is shown to be injective (an
  entry belongs to a call with that number that has not unregistered), so that
  neither registering nor unregistering takes another call's entry; for the
  answers, that a message which answers a call carries the number and the type of
  its request. That the health is what the probes met needs the order of the probes:
  those that have returned are the first n, the last of them failed as often as the
  count says and the one before those did not (`Tally`), and a probe that returns is
  number n + 1 because each begins when the one before it is over (`InTurn`). Two of
  the theorems have a hypothesis that says how far the
  counters of the code carry: TEIDs are distinct while two for every
  CreateSession and zero fit into the counter, and answers reach the call they
  were meant for (CallService) while there are no more calls than sequence
  numbers. Both counters are used round and round, so beyond that neither holds;
  `AnswersAreOwn` and `NoTransactionLost` do without.
- **STaClient_proofs**: `ClientTypes`, `RepliesNeverBlock`,
  `WaitingRequestsWatched`, `ClientImplementsCalls`, all from `IInv`
  (`ClientInvariant`). It says that identifiers in use are distinct (`Numbers`),
  that the map, the readers and the channels share out the requests (`Table`,
  `Readers`, `Channels`: a request is in one of the three, so at most one reply is
  to come), that a message with an identifier in use belongs to its user
  (`Messages`), that all connections but the loop's are closed (`Connections`),
  and that a request which was not replied to still can be (`Waiting`).
- **Recovery_proofs**: `RecoveryTypes`, `TombstoneIndexesAgree`,
  `RecoveredNotDisconnected`, `DisconnectingIsHandled`, `TombstonesKept`,
  `TombstonesStayDown`, from `RInv` (`RecoveryInvariant`). Soundness of the two
  indexes (`Sound`) needs that what a goroutine writes has the keys of its client
  (`Names`, `Sessions`); that a recovered client is spared needs mutual exclusion
  by the subscriber lock (`Locks`), that a client has one active session
  (`Single`) and that it is the one being handled (`Losses`).
- **Runtime_proofs** (Runtime with RadiusServer and UserEcho): `RuntimeTypes`,
  `AcceptsAreGranted`, `StopsKeepOrder`, `CleanExitIsClean`, from `RtInv`
  (`RuntimeInvariant`). A session that a worker
  has in hand is in the state it expects because it holds the lock (`Sessions`);
  what is stopped after RADIUS finds no handler, or is skipped because the time is
  over (`Order`); a session that Shutdown has listed is still to be detached, is
  being detached or is clean while no error was reported (`Detached`,
  `Completed`).

A refinement is proved by its two parts: the initial states map to initial
states, and a step maps to a step or a stutter. In both clients the mapping is the
one the runs check; the deadlines of CallService (`DeadlineReturns`) are liveness.
For the service over the store the mapping is the identity on the store's
variables.

Only model-checked:

- Liveness (`EveryEventHandled`, `TeardownEnds`, `CloseEndsCalls`,
  `LostPeerNoticed`, `RequestsAnswered`, `ProgramExits`, `PeerLossNoticed`):
  fairness and `ENABLED` are out of this prover's reach. Every other property of a
  passing run is a theorem.
- Beyond the hypotheses of Binding_proofs TLC finds no violation of `ActiveIsBound`
  and `AcceptReady` in the setup of one device with any one of the other faults,
  nor of `NoLocalLeak` with addresses that are used again.

Induction over data and `RECURSIVE` operators are out of reach too; the modules
with theorems use neither.

## Not modelled, and why

Encoding and parsing (GTPv2 IEs, Diameter AVPs, EAP-AKA, MPPE keys, DHCP, ARP and
GTP-U packets): conversions without state. Raw sockets, netlink, logging: I/O.
Configuration: its options are constants. IPAM and `Service.Attach`: no caller in
the program. The DHCP lease table: written and never read (it is also a map
without a mutex, which is for the Go race detector). ApplyAccounting's counters:
nothing decides by them. `Authenticate` of the STa client and its provider, and the
stub client: no caller in the program. The registry of access points: written for
the log only. A second start of the program after a crash: it finds the GTP device
of the first and refuses until an operator deletes it. A TCP peer that stops
reading: `conn.Write` has no deadline, so every caller and the watchdog would block.

## Plan

1. Done: the modules above, and the proofs listed.
2. Abstract specification: what a subscriber sees (no session / attaching /
   connected / recovering), implemented by Lifecycle and Recovery.
3. Proof: `ActiveIsBound` and `AcceptReady` with deadlines that pass and answers that
   are lost. An address then may keep its route, rule or neighbour after its session
   is gone, so that `Local` can only say what an active session has, not what the
   kernel has.
