# FIPS: TLA+ models, checks and proofs

FIPS is a self-organising mesh network. Nodes authenticate their neighbours,
form a spanning tree whose paths serve as coordinates, find each other by lookups
guided by Bloom filters, talk end to end over encrypted sessions, and may pay a
relay for forwarding. This directory models the parts of the implementation that
several actors, timers and messages make hard to test, checks them with TLC on
small instances, and proves the central ones with TLAPS for every instance.

Paths below are relative to `src/crates/fips-core/src/` unless they start with
`src/` or `docs/`. `PROJECT.json` gives, for every definition, the source lines it
stands for, and lists every component of the system with what is left out of it.

## 1. The system

| Part | State | Operations | Talks to | What is hard |
|---|---|---|---|---|
| **Replay window** `dataplane/owner_replay.rs` | ring of bit blocks, highest counter | check, accept, advance | owner | clearing exactly the blocks a jump enters |
| **Dataplane owner** `dataplane/owner_state.rs`, `owner_io.rs`, `owner_retire.rs` | current, previous and pending keys with a window each; reservations; send counter | reserve, seal, retire; install, promote, drain, rekey | node, workers | check and accept are separated by another thread; cutovers in between |
| **Scheduler** `dataplane/{admission,engine*,owner_shard,crypto}.rs` | admission queues, ready queues at three levels, in-flight counters, worker queue | admit, dispatch, pop, complete, retire, wake | owners, workers | lost wake-ups, leaked counters, order across workers, starvation |
| **FSP sessions** `node/session.rs`, `node/handlers/session/*`, `node/handlers/rekey.rs`, `timeout.rs` | a `SessionEntry` per peer, and the owner programmed from it | three-message handshake, resend, rekey, probe, cutover, drain, recovery | peer, owner | simultaneous initiation; one K bit for three epochs; loss, restart |
| **FMP links** `node/handlers/handshake*`, `node/handlers/rekey.rs`, `peer/active/*` | a peer's keys and session indices, connections, pending dials | dial, msg1, msg2, promotion, rekey, death, restart | owner, tree | crossed dials, candidates without proof, index reuse, late answers |
| **Spanning tree** `proto/stp/*`, `node/tree.rs` | declaration, coordinates, what each peer declared, timers | announce, select a parent, lose a peer, become root, client role | peers, MMP, routing | stale ancestors, lost and reordered announcements, restart |
| **Discovery and bootstrap** `node/handlers/discovery*.rs`, `proto/lookup*.rs`, `node/handlers/forwarding.rs`, `node/handlers/session/node_datagram_tun.rs` | pending lookups, recent requests, deferred forwards, backoff, queued traffic | request, forward, answer, retry, set up a session | tree, filters, sessions | bounded tables, retries against late answers, loops |
| **Next hops** `node/route_impl.rs`, `cache/coord_cache.rs` | coordinate cache | next hop | tree, discovery | stale coordinates |
| **Packet channel** `transport/packet_channel*.rs` | two lanes, credits, a hint, batch tails, the readers' turn | send, receive, drain, close | transports, receive loop | atomic counters and queues changed apart from each other |
| **Endpoint events** `node/endpoint_event.rs`, `endpoint/receive.rs` | queue, message counter, wake-up sequence | reserve, split, send, receive, drop | node, application | lost wake-ups, accounting over drops |
| **Gateway** `gateway/*`, `src/src/bin/fips-gateway.rs` | pool of virtual addresses, NAT rules, events | allocate, renew, drain, reclaim, translate | DNS, conntrack | reclaim on an old reading, order of events |
| **Paid relay** `src/crates/fips-relay/src` | ledger, journal and ceilings of the relay; ledger and journal of the buyer | admit, complete, checkpoint, recover, sign, pay, retire | forwarding | crash between checkpoint and forwarding, lost answers |
| Transports, peer discovery, TUN, DNS and ICMP, configuration, control, identities, Bloom filter contents, MMP arithmetic, settlement, simulator, tools | | | | I/O, parsing, arithmetic, or no protocol state |

The parts interact along two chains. Down: a session or link handshake installs
keys in the node's entry, the node programs the dataplane owner, the scheduler
feeds the owner packets and the workers open and seal them. Across: tree
announcements give coordinates, coordinates give greedy next hops, next hops carry
lookups and session messages.

## 2. Modules

```
ReplayGuard <--implements-- ReplayWindow        ReadyQueue -- AdmissionQueues -- OwnerScheduler
                                |
                            ReplayRing          TreeState -- SpanningTree      FlapDampening
                                |
                            OwnerEpochs         LookupTables, RouteSelection -- Lookup
                            /         \
                  DataplaneOwner   FspSession   PeerSessions -- LinkHandshake

ExposureWindow <--implements-- PaidChannel -- RelayLedger, DurableRelay, BuyerLedger

PacketChannel    EndpointEvents    Gateway      MC* : instances for TLC
```

Proofs (each module extends the model it is about):

```
OwnerEpochs_proofs ------+-- DataplaneOwner_invariant -- DataplaneOwner_steps -- DataplaneOwner_proofs
 (ring and epochs)       +-- FspSession_invariant -- FspSession_proofs
                         +-- Parts_proofs  (ReadyQueue, ReplayWindow, ExposureWindow,
                                            FlapDampening, EndpointEvents)
SpanningTree_proofs
```

* **ReplayGuard** is the abstract promise: a counter is accepted iff it was never
  accepted and is not too far behind. **ReplayRing** has the operators of
  `ReplayWindow` in `owner_replay.rs` (a block is a set of bit positions; 64 bits
  and 128 blocks are the constants `BlockBits` and `RingBlocks`). **ReplayWindow**
  offers one window any counters.
* **OwnerEpochs** has the operators of `OwnerState` that handle keys, K bits,
  generations, windows and reservations. The `fmp_` and `fsp_` twins of a field are
  one field. A Noise session is a number standing for its keys and its send-counter
  authority. **DataplaneOwner** drives one owner: `Reserve`, `ReserveOutbound`,
  `Retire`, and what the node does to it (`InstallPending`, `ConfirmPending`,
  `Cutover`, `CompleteDrain`, `AbandonPending`, `ReplaceSession`, `Refresh`,
  `Register`, `Unregister`). A worker's result is chosen at retirement, because
  results only take effect there, in order.
* **ReadyQueue** is the queue of ready owners (and of ready shards) with its cut-in
  debt. **AdmissionQueues** are one shard's packets per owner and lane.
  **OwnerScheduler** is the engine: admission, dispatch passes of a turn, the worker
  queue, staging, retirement, orphaned slots. One action is one step of the thread
  that runs it: `CompletionTurn`, `RunAeadAvailable` and `RetireAfterSubmit` are the
  parts of a live turn between which workers may run; `WorkerPop` and
  `WorkerComplete` are the workers.
* **FspSession** is a pair of nodes, each with a `SessionEntry` and the owner
  programmed from it, and a network that loses, repeats and reorders. An action is a
  whole handler (`handle_session_setup`, `handle_session_ack`,
  `handle_session_msg3`, data dispatch) or one part of the maintenance tick.
* **PeerSessions** has the operators of an active peer's keys and indices,
  **LinkHandshake** a pair of nodes that dial, answer, promote, rekey, lose and
  restart their link: one action per handler and per timer.
* **TreeState** has the state of one node and its handlers as functions from a state
  to a state and the messages sent. **SpanningTree** is a network of such nodes.
  **FlapDampening** has the hold-down and flap timers of the same `TreeState`, with a
  clock.
* **LookupTables** has the bounded tables of discovery, **RouteSelection** the choice
  of next hops as operators on a node record, **Lookup** a network of such nodes with
  requests, answers and the three session messages that follow.
* **RelayLedger** and **BuyerLedger** have the operations of the two ledgers,
  **DurableRelay** the relay's writer (temporary file, rename, directory sync) beside
  forwarding, **PaidChannel** both processes with packets, payments, crashes and power
  loss. **ExposureWindow** is the abstract promise of the relay's accounting.
* **PacketChannel** and **EndpointEvents** take one step per access to something shared
  (a counter, a queue, a flag); **Gateway** one step per stretch that a task of the
  single-threaded runtime runs without waiting.

`OwnerEpochs` is shared by `DataplaneOwner` and `FspSession`: the first checks what
an owner does with any sequence of calls the node may make, the second which calls
two nodes really make, and that both copies of the epochs agree
(`OwnerFollowsEntry`).

### Worlds

Most specifications have a constant `Worlds`, a set of records, and a variable `world`
that holds one of them from the start: a topology or configuration, and the number
of faults, restarts, packets and so on still to come. One TLC run so covers several
small scenarios that would be far too large together, and every bound has a name:
the fields of `WorldType` say what each one bounds. The theorems hold for every set of
worlds.

`MCParts` goes one step further for the parts with small instances: a behaviour of it is
a behaviour of one part, which moves while the others rest in their first state.


## 3. What the runs check

Sizes are distinct states.

| Run | Instance | Properties |
|---|---|---|
| `owner` (475 000) | FMP and FSP owners; two copies of a packet in flight, or one in flight beside another counter, or two nonces; three sessions | `DeliveredOnce`, `KeysKeepTheirWork`, `RetainedSessionsReadable`, `SealedOnce` |
| `scheduler` (145 000) | three packets: all lanes and both directions on one shard; two shards and a full pool; replacement, refusal and rekey in flight; one owner, one packet a turn | `ReadyIsReached`, `BacklogAccounted`, `OrderKept`, `EveryPacketFinishes` |
| `session` (681 000) | first handshakes; two rekeys from both ends; rekeys beside timeouts, recovery and a restart | `BitsNameEpochs`, `OwnerFollowsEntry`, `EndsStayTogether` |
| `tree` (144 000) | lines, triangles, a diamond, a pair and a line with a client; formation, two cuts, a restart, measurements | `DeclarationsAreSound`, `SilentNetworkRoutes`, `ClientsAreNotTransit` |
| `relay` (73 000) | 14 worlds: crashes, replacement, renewal, refusals, retirement of both sides, payment with lost answers and restarts | `CreditIsBounded`, `RecordsResolve`, `PaymentsAreCovered`, `ImplementsExposure`, `PaymentCatchesUp` |
| `link` (140 000) | 17 worlds: crossed dials, silence, one handshake slot, two rekeys, rekeys after unreadable frames, replays, a better path, restart, removal; seven of them with deadlines longer than any exchange | `IndicesAccounted`, `AnswersAreHeld`, `MatchedLinkIsKept`, `LinkHeals` |
| `lookup` (100 000) | 16 worlds on up to six nodes: loss, refused sends, late filters, stale and replaced links, moves, a diamond, crowded tables, traffic at both ends | `WaysBackAreKept`, `NothingLoops`, `SessionsBootstrap`, `DiscoveryRests` |
| `parts` (178 000) | replay window of 3 blocks of 2 bits, counters to 9; four owners in a ready queue; flap timers; gateway with two addresses and three names; packet channel; endpoint events; liveness of sessions and tree | `RingMatchesHistory`, `ImplementsGuard`, `BoundedOvertaking`, `SwitchesAreCounted`, `TranslationFollowsPool`, `UsedAddressesStay`, `CreditsExact`, `PriorityFirst`, `EveryStreamIsAdmitted`, `EventsAccounted`, `SleeperIsWoken`, `SessionsSettle`, `TreeConverges` |
| `session_stale`, `flap_again`, `channel_tails`, `endpoint_drop` | violations, see section 6 | `KeysInUseAreKept`, `FlappingIsDampened`, `TailsAreKept`, `NoUnderflow` |

Why the bounds are enough for the questions asked:

* *Owner.* A generation can be overtaken twice only with three sessions; a
  duplicate needs two packets in flight; two counters, or two
  copies of one, tell the windows of the sessions apart. How the ring wraps is the
  question of `parts`.
* *Scheduler.* A wake-up is lost when one owner blocks while another frees its
  budget, which two owners and three packets show; a run holds two packets
  (`JobPackets`) and a turn fewer than are queued, so turns end in the middle of
  work.
* *Session.* An epoch number matters only relative to current, previous and pending:
  six ephemerals are a first session and two rekeys, or two crossed ones. One lost
  or repeated message, with a resend, reaches every retransmission path.
* *Tree.* Counting to infinity needs a cycle and a cut (triangle); the wrong choice
  between disjoint paths needs the diamond; a change of role needs a client between
  two routers.
* *Relay.* Two channels of one relation are a renewal, three contracts cover the three
  billing modes; two restarts show credit created twice; amounts up to the capacity of
  three let a ceiling be reached, passed over and raised.
* *Link.* Two to four indices per node let one be reused while an old message that
  names it is under way; a duplicate and a resend together reach every repeated answer.
* *Lookup.* A table with room for one or two requests is full with two or three askers;
  a diamond brings the same request to a node twice.
* *Parts.* The gateway has fewer addresses than names; the channel fewer credits than a
  batch has packets; an endpoint reader asks for fewer messages than a batch holds.

Each property is also checked to be breakable: `PROJECT.json` lists, per property, a
plausible bug (a definition with a dropped guard, a missing reset, a swapped order)
that makes TLC find a violation under the same instance. Those definitions stand in
the modules marked "Mutant".

### Fairness

* `parts`, ready queue: the consumer keeps popping (the dataplane loop runs while
  anything is ready).
* `scheduler`: a turn that has begun ends, one begins while there is runnable work, a
  worker that runs finishes and takes work that waits. Arrivals and control calls need
  not happen.
* `parts`, sessions: a message on the way arrives or is lost (the number of losses is
  bounded); the maintenance tick, which the node runs periodically, resends, probes,
  ends drains and recovers; an application with something to send sends. Rekeys,
  faults and restarts need not happen. In the `Heal` world timers that give up are
  slower than messages on the way, as minutes are against seconds, and the restart falls
  between two routine rekeys (`routine = 0`): recoveries are rekeys too and draw on the
  same bounded stock of numbers.
* `parts`, tree: announcements arrive, the announcement deadline serves every peer,
  handshakes are retried (`node/retry.rs`), the periodic re-evaluation runs. It is
  stated as `[]<>~C \/ []<><<A>>_v` with the condition `C` written out, which is weak
  fairness of `A`.
* `parts`, packet channel: a call that has begun ends, the receive loop calls again
  while packets wait, and a stream reader whose turn and credit have come takes them
  (tokio polls a task that was woken).
* `link`, in the worlds marked `prompt`: the network empties again and again, and the
  tick and the heartbeat of each node run again and again (strong fairness, because
  what they find to do comes and goes with messages).
* `lookup`: applications run out of new packets, messages and waiting work are taken,
  and the tick runs.
* `relay`: both writers, both controllers, the schedule and the exchange make progress;
  faults, stops and losses are bounded and need not happen.

## 4. What the properties say

**Owner.** A packet is checked against the window when it is reserved and recorded
in it when it is retired; in between a worker decrypts it and the node may change
epochs. `DeliveredOnce`: no counter of a session is delivered twice since the owner was
registered, and a counter marked as in flight belongs to a packet that is.
`KeysKeepTheirWork`: the window that answers for a key has seen exactly what was
delivered under that key, through every promotion, and a packet reserved in the current
or draining generation still finds its key and reservation when it retires.
`RetainedSessionsReadable`: a packet of any session the owner holds keys for is opened
with that session's key, also when it was tagged before the last cutover. `SealedOnce`:
no nonce is sealed twice under a key, and the header's K bit names the key.

**Scheduler.** `ReadyIsReached`: an owner with packets and budget is in a ready queue or
something in flight will wake it, and ready work is marked at the levels the turn loop
looks at. `BacklogAccounted`: the in-flight counts of owners, lanes and pool are those of
the packets in flight, orphans included; every admitted packet is in exactly one place
or finished; bulk and free traffic never take the reserved budget. `OrderKept`: packets
of an owner retire in the order of their tokens, and a worker never starts paid work of
an owner while an earlier free run of the same generation waits. `EveryPacketFinishes`.

**Sessions.** `BitsNameEpochs`: the K bit is unambiguous at an end, and a session has the
same bit at both. `OwnerFollowsEntry`: the owner holds exactly the epochs of its entry.
`EndsStayTogether`: only one end drives a cutover, and while drains outlast the other
end's cutover each end can open what the other sends under its current key, at every
moment of every rekey. `SessionsSettle`: the ends come to agree.

**Links.** `IndicesAccounted`: every allocated index has exactly one owner that will free
it, and every table entry leads to its owner. `AnswersAreHeld`: a msg2, first or
repeated, names keys that its sender holds. `MatchedLinkIsKept`: proven keys that both
ends use are given up, short of a restart, only for keys the other end already holds.
`LinkHeals`: the ends settle on one proven link.

**Tree.** `DeclarationsAreSound`: what a node announces passes its neighbours' checks, its
coordinates extend the path its parent announced last and have no cycle, and a sequence
number of a process never stands for two paths. `SilentNetworkRoutes`: when nothing is
under way and nothing is due, every segment of routers has one tree with a live root,
and greedy routing comes closer to its target with every hop. `ClientsAreNotTransit`: a
neighbour that declared itself a client is nobody's parent or next hop.
`TreeConverges`: that silence is reached. `SwitchesAreCounted`: the flap counter counts
what it should, and cost comparisons respect the timers.

**Lookup.** `WaysBackAreKept`: no admission evicts the reverse path an answer still needs,
and an answer retraces the request it answers. `NothingLoops`: in a standing tree no
message visits a node twice. `SessionsBootstrap`: every reachable
destination gets its session. `DiscoveryRests`: reachable or not, every lookup and every
deferred forward ends and no half-open session is left behind.

**Relay.** `CreditIsBounded`: a buyer's unpaid exposure at one mint stays within the
largest grace it was given, over renewals, restarts and retirement. `RecordsResolve`:
every journal that a crash may leave passes its own recovery, and every token finds its
attempt. `PaymentsAreCovered`: what the relay claims and what the buyer signs is on
their disks. `ImplementsExposure`: the writer, its crashes and its retirement keep the
promise of `ExposureWindow`. `PaymentCatchesUp`.

**Small parts.** `RingMatchesHistory`, `ImplementsGuard`: the ring is the history of what
was accepted, as far back as the window goes. `BoundedOvertaking`: cut-ins delay a ready
owner by at most two pops per owner. `TranslationFollowsPool`: the rule changes of an
address reach the event loop in the order of the pool's changes. `UsedAddressesStay`: an
address that a host may use stays with its node. `CreditsExact`: the credits of a lane are
its packets. `PriorityFirst`: at most two bulk packets are returned while a priority
packet waits. `EveryStreamIsAdmitted`: datagrams do not starve stream readers.
`EventsAccounted`: the endpoint counter is the number of messages reserved and not given,
and order is kept. `SleeperIsWoken`: a thread asleep with an event in the channel is about
to be notified.


## 5. Proofs

Proved by TLAPS for every value of the constants, that is, for any number of sessions,
packets, owners, counters and faults, and any set of worlds:

**Dataplane owner** (`DataplaneOwner_proofs`): all four properties of the run `owner`,
`SessionsReadable`, `Delivery`, `Work` and `Sealing`, from the inductive invariant `IInv` of
`DataplaneOwner_invariant`. The properties alone are not inductive. What has to be added:

* the owner has the node's epochs and at most one more, which drains (`OwnerOK`);
* a queued packet has the key of the epoch it *goes by now* (`identity_now`: what
  becomes of the tag it was reserved under after the drains and cutovers since);
  one that goes by none and still has a current or draining generation has a key that is
  out of use (`KeyOK`);
* a reservation of a live epoch has a packet in flight that will release it, and a packet
  under a live epoch has its reservation, no two the same (`ReservationsOK`);
* the send counters are ahead of every nonce used, and a stale send context is recognised
  by its generation (`CountersOK`, `ContextOK`, `SealOK`).

The node's nine calls are of three kinds: the epochs stay (`Stays`), the pending one changes
(`Repends`), or everything moves up (`Moves`). `_invariant` shows that each kind keeps the
invariant, `_steps` that each call is of its kind and that reserving a packet keeps the
invariant, `_proofs` that retiring one does, and puts them together. Assumptions: `OwnerAssumption` (bounds on
sessions and nonces are natural numbers) and `RingAssumption`.

**Sessions** (`FspSession_proofs`): `OwnersFollow`, `BitsName` and `OneProbes`, for every world:
any number of handshakes, rekeys, restarts, timeouts and recoveries, over a network that
loses, repeats and reorders. The invariant (`FspSession_invariant`) adds to the structure of
entries, owners and messages

* that a packet in flight, and an end that was cut over, is *evidence*: the other end, if it
  knows the session at all, knows it by the same bit, and whatever handshake it is still to
  complete is of a younger session (`Evid`). Without the last part a session could be completed
  late, under the other bit;
* that no session has two responders or two initiators, or one end as both (`OneResponder`,
  `OneInitiator`, `RolesDiffer`), which counts acks in flight and acks kept for retransmission.

Handlers are classified by what they do to an entry (`EntryStep`), so that each part of the
invariant is proved once per kind. Assumption: `WorldsAssumption`.

**Owner operators** (`OwnerEpochs_proofs`): lemmas that say which fields each operator of
`OwnerState` sets, resets and leaves alone (`Refreshed`, `Replaced`, `Completed` and so on), used by
both proofs above, and the arithmetic of the ring.

**Replay window** (`Parts_proofs`): `RingImplementsGuard` (the ring implements `ReplayGuard`),
`RingCorrect`, `CheckIsExact`, `TypeCorrect`. Assumption `RingAssumption`: at least one bit per
block, at least one block, a counter range. The inductive invariant says that the bit of a
counter inside the window is set iff the counter was accepted, and that a block holds no bits of
other counters that map to the same slot. The window is one block shorter than the ring
(`WindowInsideRing`), so two counters of a window never share a slot (`SameSlot`); advancing clears
the blocks entered and no other (`AdvanceKeepsUnexpired`); so one accept keeps the ring equal to
the history (`AcceptRemembers`), and each verdict is the guard's. The largest counter is excluded
exactly as the code does it.

**Ready queue** (`Parts_proofs`): `NeverQueuedTwice` and `CutInIsBounded`, for every finite set of
owners and any choice of local ones. `BoundedOvertaking` is not inductive; what is, is
`PotentialBound`: the pops an owner has waited for, plus two for each position still ahead, less the
outstanding debt, never exceeds twice the number of owners. A cut-in pushes everybody back by one
and borrows two; a pop moves everybody forward by one and repays at most one. That a queue without
duplicates has room for one more is the pigeonhole lemma `RoomForOneMore`.

**Exposure window** (`Parts_proofs`): `AlwaysCovered`: whatever journal comes back after a
crash covers everything served. That the relay implements this window is model-checked (`ImplementsExposure`).

**Spanning tree** (`SpanningTree_proofs`): `DeclarationsSound`, for every set of nodes and every world:
any links, costs, losses, delays, cuts, restarts and reports. Each handler is first shown to keep
one node's state `Good` and to say only what is `Sound` of it: the coordinates are the node followed
by what its parent announced, without repetitions, and the sequence number goes up with every
change. The inductive invariant `IInv` then relates nodes: a message in flight is a declaration of
its sender or of a former process of it (`MessagesOK`), what a node holds of a neighbour is one
(`NodesAgree`), and two peers know each other's process (`PeersMet`), without which an announcement
of an earlier process could be taken for one of the present. Assumptions: `NodesArePositive` (0 stands
for no node) and `WorldsAssumption` (no node is its own neighbour; a world that starts with a formed
tree starts with one).

**Flap dampening** (`Parts_proofs`): `SwitchesCounted`, for all timers (`FlapAssumption`: natural numbers,
the window not 0). The invariant `FlapInv` ties the window, the counter and the time of the last
switch to the list of all switches.

**Endpoint events** (`Parts_proofs`): `NoWakeUpIsLost`, for every set of senders and worlds. The invariant
`WakeInv` follows the sequence number that a thread read before it looked into the channel: if the
channel has an event now, a sender has still to notify, or the number has moved.

Model-checked only, and why:

* liveness (`EveryPacketFinishes`, `SessionsSettle`, `TreeConverges`, `LinkHeals`,
  `SessionsBootstrap`, `PaymentCatchesUp`, `EveryStreamIsAdmitted`): the prover handles neither
  fairness nor ENABLED;
* the `EpochsNeverSplit` half of `EndsStayTogether`: its bound on drains is a relation between
  timers of two nodes that the worlds state, not the code;
* `CreditIsBounded`, `CreditsExact`, `EventsAccounted`, `ImplementsExposure`: sums over channels and
  concatenated batches, whose laws need induction over data;
* `SilentNetworkRoutes`: that a silent network has one tree with greedy routes is an induction over
  paths. `ClientsAreNotTransit` does not hold in every world, only in those that lose no message: a
  lost `ClientOnly` leaves a neighbour with the old role;
* `OwnerScheduler`: its dispatch pass is a recursive operator;
* the properties of links, lookup, gateway, packet channel and paid channel: no obstacle of principle.


## 6. Disagreements between the code and its documents

Shown by a run:

* `session_stale`. A completed epoch that nobody confirmed may outlive the idle
  timeout; `handle_session_setup` then answers a new handshake, and
  `set_pending_session` (`node/session.rs:499`) overwrites the pending keys. The
  comment at `node/session.rs:583` says of staleness: "It is never permission to
  discard keys the peer may already be using." In the trace the peer has promoted
  the epoch and ended its drain, and sends under the keys that are discarded.
* `flap_again`. `record_parent_switch` (`proto/stp/state.rs:339`) engages dampening
  only while `flap_dampening_until` is `None`, and nothing sets it back to `None`, so
  it engages once in the life of a process. `docs/design/fips-spanning-tree.md:102`
  promises it whenever the threshold is exceeded.
* `channel_tails`. `drain_pending_bulk` returns early when the priority hint is raised
  although a bulk tail is pending; when no priority item is in the queue yet the drain
  goes on to the bulk queue and overwrites `pending_bulk`
  (`transport/packet_channel_io.rs:387`), whose packets are lost. The doc comment at
  lines 503-504 says that tails count "until each packet is returned to the consumer".
* `endpoint_drop`. Dropping the receiver stores 0 in the message counter
  (`node/endpoint_event.rs:703`) while a sender may have reserved and not yet sent; its
  refused send then subtracts from 0, against the assertion at line 800. Without
  assertions the counter wraps and later sends answer `Ok(())`, where
  `node/tests/unit/endpoint_events.rs:416` expects an error. It can happen because
  dropping a `FipsEndpoint` only signals shutdown and the detached node keeps sending.

Seen while modelling, not kept as runs:

* `proto/stp/state.rs:446`: the mandatory switch to a smaller root is measured
  against the root before the parent's announcement is applied. A node whose
  parent's root has grown may stay below it, beside a neighbour with a smaller root,
  until the periodic re-evaluation; `docs/design/fips-spanning-tree.md:88` says
  "always switch". `SilentNetworkRoutes` shows that the tree still ends up right.
* `dataplane/crypto.rs:362`: the earlier free run is looked for among runs of the
  same session generation only, while retirement is ordered per owner (comment at
  line 357). After a rekey a paid run can be executed before the free run it has to
  wait for. `OrderKept` states what the code does.
* `dataplane/owner_retire.rs:60`: a packet is dropped when the generation it was
  reserved in is neither current nor draining. For one reserved with the pending key
  that is so once the cutover's drain has ended, although its key is the current one
  by then; CHANGELOG.md:500 says that payloads are preserved "while their authenticated
  session remains retained". `KeysKeepTheirWork` states what the code does.
* `node/lifecycle/network.rs:275`: a carrier rebind unregisters the owner while the
  node keeps the session, and an owner registered again starts with an empty window,
  so `DeliveredOnce` is stated per registration.
* `node/handlers/handshake/msg2/completion.rs` compares startup epochs only for
  inequality, so a late msg2 of a peer's previous process replaces a proven link;
  `LinkHeals` shows that it recovers.
* Two ends that both dial during a rekey can swap keys and agree again only after the
  drain; the world `PromptRekey` therefore lets one end dial.
* `docs/design/fips-mesh-operation.md` says of backoff that a "lookup is skipped entirely
  and recorded as a failure"; the code inserts a pending lookup. Traffic queued during
  backoff gets neither a lookup nor an ICMP answer until new traffic comes. The same
  holds after a handshake that timed out at a node with no other neighbour to ask.
* `docs/design/fips-gateway.md` installs translation rules before the DNS answer; the code
  answers after it has queued the event.
* An `EndpointEventSender` that is dropped notifies before its channel end goes, so a
  thread woken in between could sleep on after the last sender. `FipsEndpoint` holds a
  sender of its own, so its interface does not reach this.

## 7. Abstractions, and what is not modelled

* Cryptography: a message authenticates iff it belongs to the session that reads it.
* Time: except in `FlapDampening`, `Gateway` and `Lookup` a deadline is an event that may
  happen whenever it is armed. Hold-down and dampening appear in `TreeState` as a Boolean
  input of parent selection (any value), rate limits as a set of peers that cannot be
  sent to now.
* *Owner, scheduler.* The scheduler knows of a packet only how its reservation will turn
  out; the desktop build is modelled, not the inline execution of the mobile ones.
* *Sessions.* Every session has a generation of its own; the code uses the start time in
  milliseconds, so two sessions within one millisecond are outside the model. Payload
  queues, coordinate warm-up and path MTU are left out.
* *Links.* Idle time is a level: below one second, below the heartbeat interval, beyond
  fifteen seconds. Neighbour rotation, the access list, connection-oriented carriers,
  rate limits and their waivers, the peer limit, hand-off of the reply transport, the
  websocket upgrade and local rendezvous are left out. The branch of
  `promote_over_active` for a changed epoch is never reached in the model.
* *Tree.* Links never duplicate (the replay window of the link), and a handshake completes
  at both ends in one step. A `ClientSupport` message that fails right after a successful
  announcement is treated like the announcement.
* *Lookup.* Tree routing mode with equal link costs, no clients, source routes or degraded
  direct paths (no world has a neighbour as its destination); identities are known and proofs valid. Path MTU, the signing and setup
  limiters, the session-table limit, lifetimes and capacity of the coordinate cache, and
  the limits per turn are left out; a tick refills one token; one resumable lookup per
  node; handshake numbers are reused after three. A link turns stale as it does when a
  refresh of the peers prunes its endpoint; the timeout of a dead link, which also takes
  the peer out of the tree and of the filters, is in `SpanningTree` only.
* *Gateway.* A unit of time is the ten-second tick; the token bucket refills within it;
  waits and readings last at most `Stall` (`GatewayAssumption`); waiting senders are
  served in order. Proxy NDP, port forwards, startup probes, the control socket and
  restart are left out.
* *Packet channel.* The hint and the credits are sequentially consistent (the code's are
  relaxed); taking an item, lowering the hint and returning its credit are one step;
  senders never all close.
* *Endpoint events.* Wake-ups of tokio are trusted. The service and data-batch senders and
  the direct receiver, which repeat the same reservation, are left out.
* *Relay.* The negotiation, the controller's own journal and settlement are left out: its
  calls into the ledgers come from scripts in the orders its journal allows. One provider
  sells all channels; the receiver of payments and the wallet are external.
* MMP arithmetic, statistics, filter contents and wire encodings are left out.
