# i2pr in TLA+

This directory holds TLA+ specifications of parts of i2pr, an experimental I2P
router in Rust (sources under `src/crates/`). Each module is translated from the code
named in its header; `PROJECT.json` maps every definition to its source lines, every
run to its properties, and every property to a fault of the code that it catches.

* `X.tla` models component X: state, actions, `Init`, `Next`, `Spec`, properties.
* `XProofs.tla` holds theorems and their TLAPS proofs. Most are about the component X. The
  ones about `Streaming` fill two modules (`StreamingProofs` for all actions but the arrival
  of a packet, `StreamDataProofs` for that and the theorems). `DaemonProofs` is about
  `Supervisor` and `LeaseLookups`, `TunnelProofs` about `Destination` and `Transit`.
* `MCX.tla` and `MCX.cfg`, `MCX_*.cfg` instantiate X for TLC.
* A definition named `Action_Fault` is a deliberately wrong variant of `Action`. It is
  not used by any specification; replacing `Action` by it must break a property.

To check a run: `tlc -config MCX.cfg MCX`. To check the proofs: `tlapm XProofs.tla`.

## 1. The system

i2pr is a set of crates around one process, the daemon, which runs its parts as Tokio
tasks under a supervisor.

| part | crates | what it does |
| --- | --- | --- |
| runtime | `i2pr-runtime`, `i2pr-core` | supervisor, service graph, cancellation tree, bounded channels, latest-state channels, resource budget |
| transports | `i2pr-transport`, `i2pr-transport-ssu2`, `i2pr-transport-ntcp2`, runtime adapters in `i2pr-runtime` | authenticated links to other routers over UDP and TCP, one manager for both |
| tunnels | `i2pr-tunnel`, `i2pr-daemon` | tunnel pools, building, transit, fragmentation, data plane |
| network database | `i2pr-netdb`, `i2pr-netdb-persist` | lookups, publication, floodfill service, stores, reseed |
| client side | `i2pr-client` | destinations, LeaseSet2, garlic sessions, streaming, datagrams |
| APIs | `i2pr-api`, `i2pr-daemon` (SAM, I2CP), `i2pr-i2pcontrol`, `i2pr-console` | how applications reach the router |
| service tunnels, address book | `i2pr-service-tunnels`, `i2pr-addressbook`, `i2pr-daemon` | local proxies and names |
| managed applications | `i2pr-appd`, `i2pr-apphost`, `i2pr-app-*` | supervised sandboxed applications |
| storage | `i2pr-storage` | files replaced atomically |
| codecs, cryptography | `i2pr-proto`, `i2pr-crypto`, `i2pr-su3` | stateless transformations |
| test support | `i2pr-testkit`, `i2pr-app-fixture` | not part of the router |

How they interact, as far as the models need it:

* Every service is a task the **supervisor** starts in dependency order, restarts,
  degrades, cancels and joins. Services talk through **bounded channels**.
* A transport service (SSU2, NTCP2) owns sockets and sessions and registers every
  authenticated session as a link with the **transport manager**, which owns the peer
  index, the duplicate rule, the delivery queues and the budget leases.
* **Streaming** runs over tunnels and therefore over an unreliable datagram service; it
  gives applications ordered byte streams.
* A **Destination** is where others reach an application: a pool of tunnels, the signed
  LeaseSet2 that advertises the inbound ones, and a driver task in the daemon that replaces
  tunnels and publishes the record.
* A **tunnel** is a chain of routers. The sender's gateway cuts a message into cells, every
  hop transforms and relays them, the endpoint puts the message together again. The same
  router is a hop in tunnels of others: its **transit** side admits their build requests,
  answers them, and serves what it admitted until it expires.
* A service that talks to a remote Destination resolves its LeaseSet2 first. It asks a
  floodfill through a tunnel, by way of the **destination coordinator**, which owns the
  table of pending requests, the lookup engine (one lookup at a time), the lease-set cache
  and the publication slots.
* The **address book** maps host names to Destinations. Operators edit it and subscribe to
  lists over I2PControl, a worker fetches the lists, every change is stored as a generation
  file before it is acknowledged, and the proxies read a snapshot of it.

## 2. Modules

### BoundedChannel (`i2pr-runtime/src/channel.rs`)

The wrapper around a Tokio mpsc queue. A sender reserves a slot, looks at the closed flag
a second time, asks the resource budget for a lease, counts the entry, and pushes it:
`BeginSend`, `Reserve` or `ReserveFails`, `Recheck`, `Admit`, `Accept`, `Push`. These are
separate steps because each is one atomic access and nothing holds a lock across them. A
request then waits (`StopAwaiting` is its deadline or cancellation). The receiver pops
(`Pop`, then `Take` for the counter), answers (`Respond`), releases the lease (`Finish`),
closes in two steps (`CloseFlag`, `CloseQueue`) or is dropped (`DropReceiver`, `Drain`,
`Drained`; `FreeQueue` for an entry that was pushed after the drain). The mpsc semaphore and
queue are Tokio's and marked external. Histories `delivered` and `returned` exist only for
the properties.

### LinkManager and TransportManager (`i2pr-transport/src/manager.rs`)

`LinkManager` is the link map, the peer index and the two link budgets, as operators that
other modules compose: `DuplicateResolution`, `Register`, `CloseLink`. `TransportManager`
adds the callers. A handshaker begins, asks for the duplicate decision in one critical
section and applies it in another (`Resolve`, `RegisterStep`), so the decision may be
stale. A sender checks a link, drops the lock, takes a budget lease, and checks again
(`Capability`, `Check`, `Admit`, `Count`); a finished delivery releases its lease and then
uncounts (`ReleaseLease`, `Uncount`). Links change state and close at any time.
Left out: the dial backoff table, reachability reports, snapshots.

### Ssu2Service (`i2pr-runtime/src/ssu2_runtime.rs`), composed with LinkManager

Two owners of the same fact: the service's session maps behind one mutex, the manager's
links behind another. A handler that holds the service mutex from start to end is one
step. `close_ssu2` is two (`CloseSession`, `CloseManagerLink`), and so is a dial, which
tests the shutdown token before it locks (`DialStart`, `DialEnter`). Inbound admission,
promotion, refusal, timeout (`TimeoutInbound`) and failure (`DropInbound`), migration to
another address, the shutdown token and the cleanup of each loop task are actions. A loop
also cleans up and ends when its child token is cancelled, which may happen at any time and
does not stop dials from entering. Cryptography, datagrams and tokens are left out:
what remains of a datagram is the handler it leads to.

### Supervisor (`i2pr-runtime/src/supervisor.rs`, `graph.rs`)

One supervising task (`pc`, `idx`) and one manager task per service (`mgr`). The
supervisor starts services in order, waits for readiness, a timeout, an exit or a
shutdown (`waiting`), then reacts to manager outputs (`running`), then joins or aborts
(`stopping`, `aborting`). Managers run attempts, restart within a budget, and end with a
completion. Timeouts are steps that may happen; all kinds of failure are one completion.
`DrainAborted` joins all aborted tasks at once: an abort takes effect when a task reaches an
await, and a task that never does is not modelled.
The validated service graph is the assumption `GraphAssumption`. Left out: restart delay
values, the task counter of the diagnostics, child scopes.

### StreamingWindows and Streaming (`i2pr-client/src/streaming/`)

`StreamingWindows` is the send, receive and congestion window of one connection as
operators (`Enqueue`, `Acknowledge`, `Receive`, `RecordAcked`, `RecordLoss`). `Streaming`
runs two managers with one connection over a set of packets in flight, which may be
delivered in any order or lost; duplicates are the retransmissions of packets that also
arrive. `Connect`, `AcceptInboundSyn`, `SendData`, `SendClose`, `SendReset`, `Drain`,
`RemoveConnection`, `Deliver` (the whole of `process_inbound_packet`) and `Sweep`
(`poll_retransmits` and `poll_acks`, which the daemon calls together) are the actions.
A packet counts one unit, so byte limits and packet limits coincide. Left out: values of
the retransmission timer, the immediate-acknowledgement option, several listeners,
signature checks and the wrap of 32-bit sequence numbers.

### Destination (`i2pr-client` pool, lease set and registry; `i2pr-daemon/src/service_product.rs`)

One router-owned Destination group. The pool, the LeaseSet2 lifecycle and the readiness of
the Destination are operators on the record `dest` (`Sources`, `Decision`, `AdvanceTime`,
`AdmitTunnel`); the daemon's driver is the actions. It polls on a timer and after every inbound
message, and a poll (`Poll`, all of `advance_destination_pools_at`) times out builds, evicts
expired tunnels from the pool and from the tables that route to them, refreshes the record
and the bridge, starts builds and tries due publications. `PollTimer` is a poll of the timer,
`BuildReply` an answered build with the poll that follows it; `Clock`, `Graceful` and `StopGroup`
surround them. A poll is one step because one task owns all the state; any number of polls
falls into one second. A retirement lasts until the tunnels behind the leases have expired,
though not beyond `RetirementTarget`, and open connections may prolong it up to
`RetirementCap` (`Retirement`, `Drains`, `Capped`).
`netdb` is a history: the last record a floodfill accepted. Left out:
client-owned and zero-hop Destinations, payload queues, a change of the service generation,
the bridge's inbound deadline.

### Reassembler, TransitHop, TunnelService, TunnelPath (`i2pr-tunnel`)

`Reassembler` is the bounded reassembler (`fragment.rs`) as operators on a record: partial
messages under their fragment ids, with the byte budget that insertion charges and every
removal refunds (`Classify`, `Apply`, `ExpireDue`, `Admit`, `InsertWithDelivery`).
`TransitHop` is what one registration does with a cell or a gateway message, by role
(`transit.rs`, `layer.rs`, `data.rs`): the replay window (`Observe`), relaying, reassembly at
an endpoint, fragmentation at a gateway and its id sequence.

`TunnelPath` composes them: sender, relay, outbound endpoint, inbound gateway, receiver. A
link is the set of cells ever put on it, from which the next hop may take any at any time
and again, so loss, delay, repetition and reordering need no actions of their own. The last
link delivers a cell at most once: the receiver's role has no replay window and relies on
the transport session for that. `TunnelService` is the abstract specification, in terms of
whole payloads only: what comes out was handed in, unaltered, at most once. `TunnelPath`
implements it (`ServiceSpec`). A nonce stands for the random IV of a cell; layer encryption,
a permutation per hop, is left out, and so are record layout and several records per cell.

### Transit (`i2pr-tunnel/src/transit.rs`, `i2pr-daemon/src/transit_compose.rs`, `transit_owner.rs`)

The transit side of one router. `ShortBuild` is a whole dispatch: time check, admission,
commit to the registry (`RouteShortBuild`), sending the answer and rollback if that fails
(`DeliverDispatch`), with the answer going through the router's own inbound gateway when it
is addressed there (`DeliverSelfReply`). `TunnelData` and `TunnelGateway` use `TransitHop`; a
message an endpoint completes may be another build request or loop back to a gateway of this
router. `InstallPeer`, `NoteSessionClosed`, `Expire`, `Cancel`, `Signal` and
`InboundWhenSignalled` surround them. The live owner runs one handler at a time, so each is
a step. What arrives may arrive any number of times. Histories: `answered`, the tunnels whose
last commit the builder was told of, `relayed` and `relayedAgain`.

### LeaseLookups (`i2pr-daemon/src/destination_tunnels.rs`, `service_product.rs`; `i2pr-netdb`)

The coordinator, the lookup engine and the lease-set cache it drives, the resolutions that
use it and the publications of server Destinations. The coordinator sits behind a mutex that
a resolution takes afresh for begin, every reply, the cache read and cancel, so these are
separate actions. A reply is matched against the one lookup of the engine, whatever request
it is ingested for, and the engine is done before the coordinator decides (`EngineAccepts`,
then `Binds`). `Supervised` admits the calls the coordinator offers but the product never
makes (cancel, expire, tunnel loss, status correlation). Left out: counters, search
replies and delivery outcomes, which change nothing a caller reads, and RouterInfo lookups.

### AddressBook (`i2pr-daemon/src/addressbook.rs`, `i2pr-addressbook`, `i2pr-storage/src/address_book_generation.rs`)

The owner of the books, with its files and its refresh worker. The books are operators on the
record `book` (`Added`, `Deleted`, `Subscribed`, `Configured`, `Refreshed`, `SyncPublished`),
the queue one active and one pending set (`Push`, `Finish`). `Activate` loads the current
generation, else the backup, else imports, and reconciles the published artifact.
`ApplyEntry`, `ReplaceSubscriptions` and `ApplyConfig` are what I2PControl asks for, `Fetch`
is the end of a fetch; all of them go through `Transact`. The file operations of a transaction
are the steps of `op`: the artifact (`WriteArtifact`), then the store's rotation, install and
directory sync (`Rotate`, `Install`, `SyncDirectory`), then `Acknowledge`, or `Undo` and
`Refuse`. The production daemon has a single-threaded runtime and a transaction has no await,
so nothing but a crash comes between these steps; operators act when the worker awaits
(`AtAwait`).

`survivors` is what a loss of power may leave of the directory. A rename that is not synced may
be lost, later ones before earlier ones, and a synced directory is durable; file contents are
synced before the rename. That is what the code relies on. A `Crash` of the process alone
leaves the directory as it is and no more durable than it was, so the next activation may go
on from renames that a later loss of power takes back. `acked`, `stored` and `tried` are
histories: the generation the last successful request or activation ended with, the last of
them that was synced, and those put up since that. An activation that writes nothing changes
`acked` only. The model starts with a state directory whose own name is durable; the code
creates it with `ensure_secure_directory` (`i2pr-storage/src/lib.rs:1043`), which does not sync
the parent. Left out: destinations and validators, the order of the configured URLs (the code
takes a reordered list for a changed one), the other configuration keys, the imports of three
of the four books, the diagnostics file.

## 3. Runs

`lease_product` checks one statement that a comment of the code makes; TLC finds it violated
(section 6). All the others pass.

| run | instance | states | properties |
| --- | --- | --- | --- |
| `channel` | 2 senders (one tries and requests, the other requests), 2 sends each, capacity 2, budget 5, estimates of 2 | 215,328 | `LeaseAccounting`, `SlotAccounting`, `OnceInOrder`, `SendReturns` |
| `transport` | 2 handshakers, 2 peers (one preferring each direction), 2 link ids; 2 senders, 2 message sizes | 510,250 | `IndexConsistent`, `LeasesExact`, `QueueCountersExact`, `RegisterKeepsPeerLinked` |
| `ssu2` | 2 peers, one of them published at 2 addresses that share a subnet, 2 dialers, 1 inbound slot, 2 loop tasks, 2 link ids | 102,532 | `SessionsMatchLinks`, `CountsExact`, `BaselineRestored` |
| `supervisor` | an essential service, one that need not start, and a restartable one that depends on it | 124,891 | `ReadinessGate`, `ReportComplete`, `StartupDegradationSparesDependents`, `RunDecided` |
| `streaming` | windows of 2; 4 messages one way, the first in the SYN, and 1 back or none; or a message in the SYN with closes of both ends and a removal, and a message back or a reset; racing timers unless both ends send data | 405,887 | `InOrderOnce`, `ClearedIsHeld`, `WindowsExact`, `ClosedTogether`, `SynResponseConfirmed` |
| `streaming_recovery` | 3 messages one way, 1 back, one lost packet | 45,435 | `Recovers` |
| `destination` | 2 inbound tunnels and 1 outbound, 2 builds at once, lifetime 4 s, margins of 1 s, retirement of 3 to 4 s, 6 s | 205,768 | `TablesMatchPool`, `TargetsKept`, `AdvertisedIsAlive`, `NetDbAdvances` |
| `tunnel_path` | messages of 2 and 3 cells, 3 malformed cells, 2 partial messages of 4 bytes in all, ids that wrap at 4 | 287,895 | `RefundsExact`, `NoSilentLoss`, `ServiceSpec` |
| `transit` | 7 builds of 2 peers for 4 tunnels, 5 cells, one session at a time, 3 tunnels in all and 2 per peer | 10,710 | `NoDanglingRegistration`, `RelayedOnce`, `RegistryBounded` |
| `lease_lookups` | 4 resolutions for 3 targets, 1 publisher, 5 records, a cache of 2 bytes, all calls of the coordinator | 273,882 | `EngineHasOwner`, `AnswerBinds`, `CacheExact`, `SlotsHeldByLive`, `InstallsAdvance` |
| `lease_product` | the same with only the calls the product makes | | *divergence* `ExhaustedReleasesEngine` |
| `addressbook` | 1 name, sets of none, one and two URLs, 3 revisions, a failing file operation, a crash | 753,553 | `SourcesConfigured`, `AcknowledgedSurvives`, `ViewsFollowCommits`, `RefreshServed` |

What the runs of the tunnel, lookup and address-book models show:

* `tunnel_path`: whatever the links do, and with both reassemblers refusing and expiring,
  the receiver gets whole payloads of the sender at most once; the byte totals are exact on
  every way a partial message can end; and a message is gone only if some hop refused,
  expired or still holds part of it.
* `transit`: a served tunnel was answered for at its last commit, however commit, session
  loss, repeated requests and failing replies interleave; a replayed build does not bring an expired tunnel back with an empty
  replay window; the ceilings hold, and hold at zero after the drain.
* `lease_lookups`: the pending table and the engine never part, although three operations
  besides completion change both; a late answer neither completes a request for another
  target nor takes a service back to an older record; a failed publication holds no slot.
* `addressbook`: wherever a file operation fails and wherever the process or the machine
  stops, the next start loads the last generation acknowledged as stored or a later one that
  was being stored; lookups
  never see a refused update; a set replaced during its fetch gets none of the fetched
  sources; and a changed set is fetched although another fetch is under way.

### Why these bounds

* *Channel.* Two senders with different entry points and two slots give a full queue, a sender that waits, two senders
  that hold permits at once, and a budget that refuses the third lease while slots are free.
* *Links and deliveries.* Two handshakers give two decisions computed from the same map, and
  a decision that is stale because its link was closed or replaced in between. Two senders
  on a link with room for one message, a queue budget of three and sizes 1 and 2 make the
  link's ceilings and the budget the tightest ones in turn. With two link identifiers the
  ceilings on links, peers and pending handshakes are never reached and no replacement meets
  a full link budget; a third identifier makes the state space too large. Those cases rest
  on `LeasesAreExact` and `PeersStayLinked`, which hold for all ceilings.
* *SSU2.* Two addresses that share a subnet and a ceiling of one per address separate the
  per-IP from the per-subnet count. Two dialers race for one peer. Two loops are needed for
  a cleanup that runs while the other loop still handles datagrams.
* *Supervisor.* Three services give a dependency, a dependent, and a service that exits
  while another one is starting.
* *Streaming.* Four messages through windows of two make the window slide, close and
  reopen, with a packet of the next window ahead of a retransmission of the last. A
  delivered cap of one makes the reader the bottleneck: it can hold fewer messages than the
  sender has, so a receiver that went on acknowledging behind a full delivery queue would
  pass the bound of `WindowsExact`, also when it sends a message of its own, which carries
  an acknowledgement. What the applications do is chosen at the start (`use`), so that one
  run holds both the long transfers and the endings; `RacingTimers` are the uses in which a
  retransmission timer may fire while an answer is on the way.
* *Destination.* Six seconds with a lifetime of four let every tunnel expire and its
  replacement be advertised; two failures in a row pause replacement. A retirement target of
  three seconds and a cap of four lie within the horizon, and publications fail across the expiry of what they advertise.
* *Tunnel path.* Two messages in flight at once, both fragmented, share two reassemblers that
  hold two partial messages and four bytes; the malformed cells occupy one of them, conflict
  and pass the size limit. A reassembly expiry of one second and tunnels of two let partial
  messages expire alone and with their tunnel. The id sequence wraps at its second message.
* *Transit.* Four seconds with a lifetime of two: a build arrives again before, at and after
  its expiry, while a request from the next second competes for the same tunnel. Room for
  one session makes the answer depend on which session is up. `wide` asks for more bandwidth
  than there is; windows of two fill up.
* *Lookups.* Two resolutions of one destination can receive an older and a newer record in
  either order; the larger one does not fit the cache beside another. Three requests let one
  be abandoned, one wait and one publish. Only two keys can be cached, so the byte ceiling
  binds and the ceiling on records does not; `CacheCounted` covers both.
* *Address book.* Three revisions are a subscription, its fetch and a further change, or an
  entry, its publication and the projection. One failure and one crash give a crash after a
  refused update and during the transaction that follows it; the restoring write may fail
  in addition. `survivors` stays after a crash of the process, so what a second stop of the
  machine would leave is looked at without a second crash. The sets are one that grows, one that shrinks and the empty one, which is
  fetched without an await.

Deadlock checking is off where the modelled part may stop for good: a router that has shut
down, a bounded supply of identifiers or messages that is used up. `BoundedChannel` has an
explicit final state (`Terminated`) and is checked for deadlock.

### Fairness

* `BoundedChannel`: weak fairness of each sender's own steps. A task that can run is
  polled, and Tokio timers fire. The receiver has no fairness: `SendReturns` must hold
  although nobody receives.
* `Ssu2Service`: the loop tasks run their cleanup once the shutdown token is set (they poll it
  before their work in a biased select; nothing promises that the child token is ever
  cancelled), a dialer inside the call proceeds, and a close that has begun ends,
  because there is no await between its halves.
* `Supervisor`: the supervising task is polled and its timers fire. Services may hang at an
  await; an aborted task is gone when it reaches one, which a task that blocks its thread
  would never do.
* `Streaming`: packets that are not lost arrive, the sweep task polls both managers, a
  listener accepts and the pump drains. Nobody is obliged to send. Losses are bounded by
  `MaxLoss`, below the retransmission limit; without such a bound no protocol recovers.
* `AddressBook`: a handler runs to its end, and so does the worker between two awaits (weak
  fairness of `Activate`, `StoreStep` and `Take`, of which at most one is enabled). `Wake` and
  `Fetch`, the ends of the worker's awaits, have strong fairness, since a request of an
  operator disables them for as long as it runs: the runtime polls a ready task although requests keep coming,
  and a timeout of 300 seconds ends every fetch. No request is promised, and the cadence has
  no fairness: it may be a month.

## 4. Proofs

Every theorem holds for all values of the constants that satisfy the named assumption. The
assumptions say what the code's configuration checks enforce or its types give: ceilings and
windows are positive, a part does not exceed its whole, sets of tasks are finite, the service
order lists every service once and after its dependencies. TLC evaluates them on every run.

All safety proofs have the same shape: an inductive invariant, one lemma per action or group
of actions that preserve it, a theorem `XInvariant` that puts them together, and the
properties of section 3 as consequences. Each invariant was checked by TLC on the instance of
its run before it was proved.

### BoundedChannelProofs (`ChannelAssumption`)

* `TypeCorrect`: `Spec => []TypeOK`, which includes that the budget's limit is never
  exceeded. `SlotsAccounted`: `Spec => []SlotAccounting`.
* `LeasesAccounted`: `Spec => []LeaseAccounting`. `SentOnceInOrder`: `Spec => []OnceInOrder`.
* `ChannelInvariant`, `ItemInvariant`: the invariants behind them.

`IInv == TypeOK /\ CallOK /\ Balance`. `CallOK` is needed because `Admit` charges
`call[s].bytes`: type correctness alone does not say that a sender in the middle of a call
carries an item. `Balance` restates `SlotAccounting` over cardinalities of sets of senders, and
three lemmas say how such a cardinality changes when one sender enters, leaves or stays.
`SlotAccounting` also shows that the saturating subtraction in `Queued::into_parts` and
`Queued::drop` never saturates.

`ItemInv == Identities /\ Charged /\ CallBalance`. `Identities` numbers the calls of a sender
and says where their items may be: an item that has left its sender is older than the one in
its hands, the queue lies behind what was delivered, what was given back is nowhere else, and
the entry a requester waits for still exists. Only with it does `Charged`, the
budget as a count of lease holders, know that a released item is in no second place.
`CallBalance` counts calls: made is ended plus on the way. Sums of bytes are cardinalities of
sets with one element per byte (`Units`), so that finite-set theorems take the place of an
induction over a fold.

### TransportManagerProofs (`LinkAssumption`, `DeliveryAssumption`)

* `IndexIsExact`: `Spec => []IndexConsistent`; `PeersStayLinked`:
  `Spec => RegisterKeepsPeerLinked`; `LeasesAreExact`: `Spec => []LeasesExact`;
  `QueuesAreExact`: `Spec => []QueueCountersExact`.
* `LinkInvariant`, `ManagerInvariant`: the invariants behind them.

`LinkInv == Types /\ IdsFresh /\ LinksBounded /\ IndexConsistent`. `IdsFresh` says that the
identifiers of pending candidates and of links are all different: a registration writes its
record under the identifier it drew long before, and without it nothing says that this
overwrites no link. `LinksBounded` counts the links: a replacement frees a unit before it takes
one, which is why its admission cannot fail after the old link has gone. `RegisterCases` lists
what a registration can do with a decision that may be stale.

`DeliveryInv` adds the enqueue, which drops the lock between its two checks. `LinksDrawn` says
that the link of a delivery was registered before and that no pending candidate holds its
identifier; without it a delivery that is released late could be uncounted from a link that
was registered under the same identifier since. `Charged` and `Counted` are the budget and the
link's counters as counts of senders and of their bytes. `Ceilings` counts the handshakes that
hold an admission.

### Ssu2ServiceProofs (`LinkAssumption`, `ServiceAssumption`)

* `OwnersAgree`: `Spec => []SessionsMatchLinks`; `CountsAreExact`: `Spec => []CountsExact`;
  `ServiceInvariant`: the invariant behind them.

`ServiceInv == OwnerInv /\ PendingInv`. The service and the manager keep the same sessions
under two mutexes, and `Owners` says how far they may differ: a session has its link, a link
without a session is being closed, and nothing is both. `IdsFresh` is needed as above, for the
identifiers of pending dials; that `closing` holds only identifiers already drawn keeps the
second half of a close from removing the link of a later promotion. `LinksBounded` makes a
promotion that replaces the peer's link succeed: after the removal there is room. `Promoted`
says in one formula what an accepted promotion does, whichever duplicate decision led to it.
The counts per source change in steps that move a session from one address to another, and
`Exact` relates a count to the sessions it counts. Of the pending counts only the lower bound
is invariant (section 6, `PendingCountExact`).

### StreamingProofs and StreamDataProofs (`WindowAssumption`, `StreamAssumption`)

* `DeliveredOnceInOrder`: `Spec => []InOrderOnce`; `OnlyHeldIsCleared`:
  `Spec => []ClearedIsHeld`; `NoEndClosedAlone`: `Spec => []ClosedTogether`;
  `AnswerIsConfirmed`: `Spec => []SynResponseConfirmed`; `StreamInvariant`: the invariant
  behind them.

A packet may arrive long after it was sent, so `StreamInv` says of every packet in the network
and in a retransmission record what stays true of its sender (`GoodPacket`): data carries the
message its sequence stands for, a CLOSE has the last sequence, everything an acknowledgement
claims is held. This is stable because an end only moves forward (`Evolves`: it never reopens,
never renumbers, never loses a packet it holds), and every action is shown to do so once.
`InWindow` ties what an end has received to what its peer has sent: the messages taken are the
numbers from one on, as many as `nextExpected` says, and a buffered packet is the one of its
sequence. `receive` delivers a run of buffered packets; `Gaps`, which says that the window
always has a next missing sequence, gives the run an end without an induction (`RunIs`), and
`Payloads` of it are the next messages. `Beginnings` and `Endings` relate the states of the two
ends.

### AddressBookProofs (`BookAssumption`)

* `AcknowledgedIsDurable`: `Spec => []AcknowledgedSurvives`; `ViewsAreCommitted`:
  `Spec => []ViewsFollowCommits`; `SourcesAreConfigured`: `Spec => []SourcesConfigured`.
* `BookInvariant`, `KeptInvariant`: the invariants behind them.

`Inv == StoreInv /\ ViewInv`. `AcknowledgedSurvives` is not inductive: its premise, that the
files decode, can become true again after it was false, so nothing would be known then.
`NewestKnown` therefore speaks of one file of each survivor, the newest (the current
generation, else the backup), and says that it was stored or tried if it decodes, and that
there is none only as long as nothing was stored. `Staged` ties the position in a
transaction to the files: before the directory sync the current file is the book, so the
survivor that the sync leaves is the acknowledged one. `ViewInv` says what a transaction falls
back to (the acknowledged book) and which artifact it has written. `Acknowledge`, `Refuse` and
`Goto` end the file operations and have a lemma each; the requests all go through
`TransactKeeps`, and the rest of the worker changes none of it (`FrameKeeps`).

`KeptInv == BooksSound /\ ArtifactLater /\ Claimed`. A refused update, a crash or an activation
brings back a book from a file or from before the transaction, so `BooksSound` speaks of every
book that is kept anywhere (`Kept`). `ArtifactLater` says that an artifact is written only
beside a generation, so that an activation that imports starts from a new book. `Claimed` says that the worker holds the queue's claim from
the fetch to the commit, which is why a set that an operator puts in during a fetch waits in
`pending` and is not stranded.

### DaemonProofs (`GraphAssumption`, `LeaseAssumption`)

Supervisor:

* `GateHolds`: `SupervisorSpec => []ReadinessGate`; `ReportIsComplete`:
  `SupervisorSpec => []ReportComplete`; `DependentsSpared`:
  `SupervisorSpec => StartupDegradationSparesDependents`; `SupervisorInvariant`: the invariant
  behind them.

`SupInv` has four parts. `Told`: what a manager reported fits where it is. `Passed`: a service
that startup is past has signalled readiness or is `Settled`. The gate alone is not inductive,
since a restarted optional service can complete again with another result and overwrite the
completion that the gate looked at; `Settled` says that the manager is gone or every result of it
is tolerated. `Accounted`: a joined manager has a completion or is the one the error names. The
proof uses that the service order lists each service once, so a step for the service that is
starting is none for a service passed before. A step of a manager (`Moves`) and a step of the
supervising task (`Steps`) are each summed up in a formula from which the invariant follows.

Lease lookups:

* `EngineOwned`: `Spec => []EngineHasOwner`; `AnswersBound`: `Spec => []AnswerBinds`;
  `InstallsNeverGoBack`: `Spec => InstallsAdvance`; `SlotsAccountedFor`:
  `Spec => []SlotsHeldByLive`; `CacheCounted`: `Spec => []CacheExact`; `LookupInvariant`: the
  invariant behind the first three.

`LookupInv == Types /\ WaitsForTarget /\ CacheLeads /\ EngineHasOwner /\ AnswerBinds`.
`WaitsForTarget` ties a waiting resolution to a pending request for its own target; without it
nothing says that the record `Binds` accepts is for the right service. `CacheLeads` says the
cached record of a destination is at least as new as anything installed for it: the install
reads the cache and not the reply, and that is why a late older reply does no harm. The
publication slots need `OneInFlight` (one task provisions at a time) and have an invariant of
their own, `SlotInv`. `CacheInv` is `CacheExact` with a finite cache; a replacement subtracts the
old record before it adds the new one, and the total is again a set with one element per byte.

### TunnelProofs (`ConfigAssumption`, `TransitAssumption`)

Destination:

* `TablesAgree`: `GroupSpec => []TablesMatchPool`; `NeverOvershoots`:
  `GroupSpec => []TargetsKept`; `AdvertisedAlive`: `GroupSpec => []AdvertisedIsAlive`;
  `FloodfillsAdvance`: `GroupSpec => NetDbAdvances`; `GroupInvariant`: the invariant behind them.

A poll works through intermediate states, so the invariant `Good` is stated of values and carried
through eviction, refresh, builds and publication in turn. `Alive` says of a record, wherever it
is, that a lease not yet over has its tunnel: a slot is filled again only after its tunnel
expired, and that is after every lease on it ended. `Ordered` says that the runtime's last
timestamp is the newest anywhere and that a record still to be published is newer than the
floodfill's; this is what `NetDbAdvances` needs when a retry succeeds late. `InPhase` says that a
group that retires has no build under way and nothing to publish.

Transit:

* `ServedIsAnswered`: `Spec => []NoDanglingRegistration`; `CeilingsKept`:
  `Spec => []RegistryBounded`; `TransitInvariant`: the invariant behind them.

A handler works through intermediate registries, so the invariant `Sound(reg, given)` is
stated of a registry value and a set of answers. `Keeps` relates a registry to one with
entries removed or changed only in their data plane; `KeepsSound` and `CommitSound` are the
two ways a sound registry changes, `DataAlike` and `GatewayAlike` say that cells and gateway
messages change the data plane only, and `UndoneKeeps` that a rollback restores what was
there although a gateway moved on in between. `DispatchSound` combines them for a build,
which the direct, garlic and nested paths share: a commit whose
acceptance was not taken is gone again, so nothing need have been told of it (`UntoldSound`).

### Only model-checked

* Liveness (`SendReturns`, `BaselineRestored`, `RunDecided`, `Recovers`, `RefreshServed`):
  temporal proofs under fairness are outside what the installed provers do.
* `WindowsExact`: the congestion window grows by a fold over the packets an acknowledgement
  clears, and what a stalled reader holds is bounded through it; and `RefundsExact`: the reassembler's total is a fold over its partial messages. What a
  fold computes needs induction over data.
* `NoSilentLoss` and the refinement `ServiceSpec`: they need an invariant that ties every cell
  and every fragment under way to the payload it was cut from; no proof of it is kept here yet.
* `RelayedOnce` depends on the instance: it fails if an endpoint request whose self-reply is
  refused names a participant's tunnel (section 6).

## 5. What is not modelled

`PROJECT.json` lists every part with its status. Out of scope by nature: codecs,
cryptography, text and binary API protocols, console and test support, which transform data
without shared state. Within the modelled parts the headers of the modules say what is
abstracted; the larger omissions are

* transport: dial backoff, reachability reports, candidate scoring, snapshots;
* SSU2 service: tokens, packet contents, peer test and relay, MTU and congestion;
* supervisor: delay values, diagnostics, child scopes;
* streaming: byte limits, timer values, sequence wrap, the buffer for packets that overtake
  a SYN, options that ask for an immediate acknowledgement;
* destination: client-owned and zero-hop Destinations, changes of the service generation;
* tunnels: layer cryptography, record layout, the creator's side of a build (record
  encryption, reply correlation), counters and snapshots;
* network database: RouterInfo lookups and publication, search replies, the floodfill's own
  side, stores other than the lease-set cache;
* address book: destinations, validators, text formats, the imports of three books, most
  configuration keys, the diagnostics file, and `ingest_body` and `run_queued_refreshes`,
  which only tests call.

Not begun, and why: the latest-state channel has no user outside tests. NTCP2 and the SSU2
data phase, handshake, peer test and relay, the other files of the storage crate, the API
session registries and managed applications have state worth modelling and are in the plan
(section 7).
The models cover a small part of the code by lines: most of it is parsing, encoding,
configuration, tests inside the crates and diagnostics.

Some behaviour is in the models without a property, because the repository states no
expectation to hold it to: a SYN is sent once and never repeated; a CLOSE of the responder
may overtake its SYN response; `finish_raw_stream` removes a connection whose CLOSE has been
sent once. The hazards list names them.

## 6. Where the code and its documents differ

`lease_product` checks a quoted statement and TLC shows a behaviour that violates it
(`PROJECT.json`, findings): after the last window of a resolution `service_product.rs:5177`
says "The lookup engine already released its slot when it produced the terminal failure".
The engine produced no failure. Its lookup stays active and its request pending, because the
product never calls `cancel_lookup`, `expire_lookups` or `note_tunnel_loss`; every later
`begin_lease_lookup` is refused. One unanswered destination makes all of them unavailable.

The models show further differences that have no run of their own. Where a cfg is named
without further words it checks that property; otherwise adding the property to the cfg
gives the behaviour.

| property | cfg | statement | behaviour |
| --- | --- | --- | --- |
| `PendingCountExact` | `MCSsu2Service_permits.cfg` | failure releases pending permits exactly once | the backstop (`ssu2_runtime.rs:5362`) leaves the source of a timed-out inbound handshake counted |
| `EssentialFailureIsFatal` | `MCSupervisor_essential.cfg` | an essential failure cancels the router | a failure seen while a startup-optional service starts (`supervisor.rs:863`) is taken for that service's |
| `SameStateRetains` | `MCDestination_rotation.cfg` | the same state does not regenerate unboundedly | inside the rotation margin every poll signs a new record for the same leases (`leaseset.rs:358`), one second later than the one before; `published` overtakes the clock, and when it reaches the end of a lease signing fails and the service ends |
| `LiveUntilExpiry` | `MCTransit_rejected.cfg` | a rejection has installed nothing and rolls nothing back (`deliver_self_reply_otbrm`) | the rejected dispatch names its receive tunnel too; if its self-reply fails, the live registration of that id goes |
| `ActivePerSourceBounded` | `MCSsu2Service_permits.cfg` | a ceiling bounds the sessions of one source | a migration does not ask for capacity at the new address |
| `AuthenticatedIsPromoted` | `MCSsu2Service_permits.cfg` | successful authentication promotes | promotion needs a second pending lease and is refused when the pool is full |
| `ExhaustionIsFatal` | `MCSupervisor.cfg` with `store` restartable and in `ExhaustionShutdown` | exhaustion with the shutdown policy cancels the graph | not while another service is starting |
| `DegradableFailureVisible` | `MCSupervisor.cfg` | a degradable failure is visible | a service that degraded at startup, recovered and failed stays "ready" |
| `NothingAfterTerminal` | `MCStreaming.cfg` | nothing is delivered after RESET or close | the delivery queue is still drained |
| `GivenUpIsReleased` | `MCStreaming.cfg` | an exhausted packet leaves the send window | it stays there and in the in-flight count |

| `OnlyCorruptionDeactivates` | `MCAddressBook_reload.cfg` | "Corrupt current and backup fail into an inactive sticky-error state" (`specs/protocols/15-canonical-addressbook.md:99`); "restart restores the validated source state" (`321-status.md:13`) | files nobody corrupted do so too: when a set grows, `replace_subscriptions` keeps the sources of the old URLs, and the generation it commits has sources that do not cover its set. Decoding puts them through `replace_subscription_sources`, which refuses that. One further commit gives the backup the same fault, and a restart leaves the address book inactive |
| `FailedPublishKeepsCurrent` | `MCAddressBook.cfg` | "Failure leaves the prior current file untouched" (`address_book_generation.rs:98`) | after a failed install the current file is gone (its contents are the backup), and after a failed directory sync it is the new generation: a refused update can be there after a restart |

From reading, address book: when the current file does not decode and the backup was loaded,
the next publication rotates the bad file over the good backup, and a crash before the install
leaves nothing that loads (hence the premise of `AcknowledgedSurvives`); an artifact whose
directory sync fails after the rename is not put back, although the transaction is refused.
With a multi-threaded runtime two transactions could publish their snapshots in the other order
than they committed, because `transact` drops the lock first.

From reading, tunnels and lookups: `dispatch_router_garlic` asks whether a build is the
router's own only after it has committed it (the exception in `NoDanglingRegistration`); a
full replay window leaves the registration in place although the comment at the error says it
removes it; an encrypted record offered to an ordinary lookup frees the engine and strands the
pending entry; an accepted publication keeps its slot for good, since nothing correlates its
status, so the eighth one is the last.

From reading, elsewhere: the dependents of a service that degrades are cancelled, essential ones
too; standby tunnels are counted but never built; a client-owned Destination never becomes
usable, because readiness asks for the router's own record; and when `advance_time` fails,
the slots it evicted are not reported to the tables that route to them.

## 7. Plan

Next models, in this order, each with its own runs and mutants:

1. *SSU2 session*: acknowledgement, loss and retransmission of two sessions over a lossy
   network; tokens; path validation; peer test.
2. *NTCP2 runtime* over `LinkManager`; the two transports composed on one manager.
3. The creator's side of tunnel builds, composed with `Transit` and `Destination`.
4. SAM and I2CP session registries over Destination; managed applications.

Next proofs: the reassembler under a set-based account of its byte budget, which would bring
`RefundsExact` within reach; the steps of `TunnelPath` as steps of `TunnelService`; for
`Streaming` the packet counts of `WindowsExact`, apart from the congestion window.
