# A verification project for the Kademlia node and its package registry

The program is a Kademlia distributed hash table in Go with a signed package
registry on top of it. Every node runs several goroutines over one transport;
this project models the concurrent core of a node and the protocols between
nodes in TLA+, checks the models with TLC, and proves the most important
properties with TLAPS. Line numbers below are those of `src/src/kademlia/` unless
another file is named.

## 1. Inventory of the system

| Component | State | Operations | Hard behaviour | What makes it correct |
|---|---|---|---|---|
| RPC layer (`network.go`, `maintenance.go:123-153`) | `pending`, the eviction queue, `done`, `stopped`; one pc per goroutine | `call`, `register`, `receiveLoop`, `handleRequest`, `dispatchRegistry`, `observeContact`, `evictionLoop`, `shutdown`, `Close` | replies race timers, cancellation and `Close`; probes are queued with `mu` held | no live peer is dropped; nobody blocks for ever; calls, probes and `Close` end |
| Routing table (`routingtable.go`, `bucket.go`, `routing_maintenance.go`) | per bucket: list, `versions`, `clock`, `probing` | `AddContact`, `observe`, `probeCurrent`, `finishProbe`, `contactVersion`, `removeUnresponsive` | decisions taken under the lock about what was read before it | capacity, agreement of list and map, order by version, one probe per bucket |
| Iterative lookup (`lookup.go`, `lookup_data.go`, `find_node.go`, `find_value.go`) | candidates with a state each, a channel of replies per batch | `LookupContact`, `LookupData`, the two RPCs | answers in any order, failures, cancellation, shutdown | closest responsive peers; honest errors; a value is never lost; it ends |
| Hand-off (`handoff.go`) | `inbox`, `pending`, `recent` and `order` | `observe`, `handoffLoop`, `transferToNewPeer`, `handoffEligible` | a bounded queue and memory; snapshots that age during calls | nobody is queued twice or remembered without being served, everybody admitted is served, everything owed is sent |
| Package registry (`registry.go`, `registry_rpc.go`) | `heads`; version records in the value store | `Latest`, `Publish`, `accept`, `chain`, `distribute`, `send`, handlers | network walks between reading and committing a head; repeated and late updates; forced publishes; partial failure | heads only grow along signed chains that are held locally; acknowledgments are true |
| Values (`store.go`, `store_rpc.go`, `datastore.go`, `replication.go`) | `valueStore.values`, in memory only | `Store`, `put`, `get`, `snapshot`, `Replicate` | partial writes, lost acknowledgments, restarts that lose the memory | acknowledged targets hold the value; copies converge to the closest nodes |
| Lifecycle and maintenance (`kademlia.go`, `maintenance.go:1-121`, `replication.go`) | `maintenanceGate`, `done`, `closeOnce`, the stopped channels, lookup times of buckets | `Join`, `Refresh`, `Replicate`, `Close`, two periodic loops | passes wait for a gate while the node closes; every pass has many ways out | passes exclude each other and cover what they are for; every caller returns; no loop outlives `Close` |
| Simulated network (`simulated_network.go`) | endpoints, inboxes, timers, under one lock | `Listen`, `Send`, callbacks, `Close`, `Receive` | late callbacks, reuse of addresses | the lock is never held by a blocked send; no packet goes astray, or comes out of the inbox of a closed endpoint |
| UDP transport (`udp_transport.go`) | socket, inbox, `done`, `stopped` | `Send`, `readLoop`, `Close` | the socket fails by itself | as the simulated network, over I/O |
| Identifiers (`kademliaid.go`, `contact.go`) | none | XOR distance, parsing, sorting | boundaries of bit arithmetic | a total order of distances; each peer in one bucket |
| Events, configuration, inspection, command line, experiments, scripts | counters and files | | | not part of the protocol |

How they interact. A packet arrives through the transport at `receiveLoop`. A
reply is matched with its pending call under `Network.mu`; a request is answered
by the receiver itself, but for registry updates, which go to at most 16 workers
because validating one needs RPCs of its own. Every valid message calls
`observeContact`, which feeds the hand-off queue and the routing table; a full
bucket yields a probe for `evictionLoop`, which pings the oldest peer with an
ordinary `call`. Lookups, stores, registry operations and the transfer loop are
callers too. `Close`, or the failure of the transport, closes `done`, which all of
them select on.

## 2. Modules

| Module | Models | Correspondence |
|---|---|---|
| `RoutingTable` | buckets and table as pure operators | a bucket is a record of `list` (front first), `versions`, `clock` and `probing`; each operator is one method, atomic under `table.mu` |
| `Network` (+ `NetworkProps`) | the goroutines of the RPC layer of one node | one pc per caller, observer (receiver or worker), evictor and closer; an action is what runs between two blocking points or lock acquisitions |
| `PeerSet` | abstract: the set of known peers with reservations | implemented by `Network`, see `ImplementsPeerSet` |
| `NetworkRecency` | `Network` with the time at which each peer was last seen | a history variable for the one statement about recency |
| `Registry` (+ `RegistryProps`) | all nodes' registries for one package | a hash *is* the history it stands for, so `chain` is a prefix order; `accept` walks record by record and commits in one step |
| `Histories` | abstract: per node a growing history and atomic reads | implemented by `Registry`, see `ImplementsHistories` |
| `Lookup` | one `LookupContact` or `LookupData` with its probe goroutines | the loop of `lookup` and one action per probe; peers may give any answer that passes validation |
| `Handoff` | the queue and the transfer loop of one node | `inbox`, `pending`, `recent`, the snapshot in `todo`, one call at a time |
| `XorMetric` | IDs, distance, `getBucketIndex`, `randomBucketTarget` | a byte is the function from the weights of its bits to the bits, so that shifts and masks become applications; `IDLength` and `ByteBits` are parameters |
| `Maintenance` (+ `MaintenanceProps`) | the life of one node: `Join`, `Refresh`, `Replicate`, the gate, the two loops and `Close` | one pc per application goroutine and loop; a pass is a sequence of jobs, a job is one lookup, whose start resets the timer of its bucket; `gate` counts the tokens in the channel |
| `Storage` | one value on many nodes: `Store`, the STORE RPC, `Replicate`, hand-offs, crashes | nodes are numbered by their distance from the key; `handed` are the nodes that a handed-off copy is on its way to; a call is a record of targets, those that no batch has reached, workers not started, STOREs without a reply, and acknowledgments on their way |
| `SimulatedNetwork` | the in-process network and `receiveDatagram` | packets are counted: armed timers, fired callbacks waiting for the lock, inboxes, and the packet in the receiver's hands, before or after its last poll of `done` |
| `MC*` | values of the constants for TLC | |
| `*Proofs` | theorems and lemmas | one module per component; `MaintenanceProofs` also holds those about `XorMetric`, on which the passes rest |

Composition. `Network` extends `RoutingTable` and applies its operators in the
actions that hold `table.mu`; `Maintenance` extends `XorMetric`, whose buckets and
random targets its passes work on. The services above it are modelled against what
`call` promises: it returns a reply or an error at any later time, an error does
not say whether the request arrived, requests may be handled more than once.
`Lookup`, `Handoff` and `Registry` use exactly that, and `Registry` assumes of
`LookupContact` and `LookupData` only what any outcome of `Lookup` allows: any set
of peers, any failure, any stored record. Packets of `Network` may be lost,
repeated, delayed and reordered, which contains what `SimulatedNetwork` and UDP do.

Some definitions are preceded by a twin whose comment begins with "Fault:". They
are variants of the next definition with one plausible bug and are used by
nothing: replacing the definition by its twin must break the property that
`PROJECT.json` names under "mutants", which shows that the property depends on
that line of the code.

What is abstracted: identifiers and distances everywhere but in `XorMetric` and
`Maintenance` (constants `BucketOf`, `Rank`, `Distance`, or the numbers of nodes), the
contents of values, the wire format, signatures (a record is signed by its owner
or not) and time (a timer may fire whenever it is armed, and each bucket may become stale
at any moment, by itself). In `Maintenance` the routing table is not a variable: RPC traffic fills
and empties it at any time, so a refresh finds it empty or not as it may be, and
the closest peer that a join finds is any peer. Lookups of other callers, which also
reset timers, are left out there; they would only make buckets less stale. The
branch of `Replicate` for corrupt bytes (`replication.go:27`) is unreachable, since `put`
checks the hash and only copies leave the store. `Storage` has one `Store` per node at a
time (an application may in fact run several; they share nothing but the
idempotent `put`). Its hand-offs are those of `Handoff` seen from outside: at any time a
holder may elect itself by `handoffEligible`, with any nodes in its table, and send a
copy to a node that runs; or not, since nothing obliges it to.

## 3. Runs, bounds and what they show

| Run | Instance | Shows |
|---|---|---|
| `net_table` | 3 peers in one bucket with K = 2, an application call with 1 retry, the receiver and a worker, versions to 3 | types; `BucketInv`; refinement of `PeerSet`; a timeout never drops a peer heard of since the call began (`OnlySilentPeersDropped`); a timed-out probe is always stale (`TimedOutProbeIsStale`) |
| `net_queue` | two buckets with K = 1 and 2 peers each, receiver and worker, queue of 2, Close and transport failure | the probing flag is one probe, wherever it is (`ProbeReservation`); the queue never blocks the receiver (`EnqueueNeverBlocks`); Close leaves neither receiver, worker nor evictor running (`QuietAfterClose`) |
| `net_close` | 2 peers, K = 1, Close and transport failure, with fairness | calls return, probes are decided, Close returns; there are no workers here, and that Close returns with one is not checked |
| `net_recency` | 3 peers, K = 2 | violation: see section 6 |
| `reg_sole` | 2 nodes, one publisher without Force or cancellation, all four operations | a sole publisher never forks its package (`SoleOwnerNeverForks`) |
| `reg_force` | 2 nodes, forced publishes and cancellation | a head always comes with its verified chain (`HeadsHoldHistory`) |
| `reg_race` | 2 nodes, a publisher, a reader and a worker next to the reader | true acknowledgments (`AcknowledgedHold`); refinement of `Histories` |
| `lookup` | 4 peers, K = 2, Alpha = 2, with fairness | the result, the errors, the value, the number of probes, termination |
| `handoff` | 3 peers, 2 values, 1 head, queue and history of 2, with fairness | exact pending set, nobody remembered instead of served (`RememberedIsServed`), complete transfers, everybody served, the loop stops |
| `simulated` | 2 endpoints, 2 addresses, inbox of 2, 4 packets per endpoint | the lock is never held by a blocked callback, packets are conserved, what waits in an inbox dies with its endpoint (`InboxDiesWithEndpoint`) |
| `maintenance` | IDs of 2 bits, 2 peers, 1 value and 1 head, an application goroutine, both loops, 2 callers of Close, with fairness | exclusive gate, passes that cover their buckets, Close by two callers and after a failed transport, calls return, stale buckets are searched again although lookups fail (`StaleSearched`) |
| `storage` | 3 nodes of which the closest refuses the value and the farthest publishes it, K = 2, Alpha = 1, 2 crashes, a hand-off on its way at a time, with fairness | nil means stored (`AcknowledgedStored`); copies converge (`Converges`) |

Why the bounds are enough. A bucket needs one more peer than its capacity for
every eviction path; K = 2 also separates the front from the back. `MaxVersion`
bounds the versions that a bucket gives out; with two or three of them a version
that was read earlier is found the same, absent or newer at every comparison. Two buckets are what the reservation
argument needs, since buckets share only the queue, which is exactly as long as
their number, as in the code (`IDLength*8` buckets, `network.go:87`). Two registry
nodes suffice for every pair of writer and reader; histories of two or three
records include predecessor, successor and fork. Four peers with K = Alpha = 2
give a lookup replacements for failures and a second and third round. The
hand-off's queue and history are as small as they may be while one peer waits,
one is served and one is forgotten. The simulated inbox of 2 fills with one
packet in it and one on its way. IDs of two bits give a farthest bucket with two IDs
and a nearest one with the own ID in it; a join that finds the nearest peer has a
bucket to refresh, and a refresh may find none, one or both stale. Three nodes with
K = 2 make two batches, of which the first is refused, and a publisher that is too far
away to keep a copy for itself unless it finds nobody closer; two crashes may take
every copy but one, or a holder twice. Bounds are constants named as such where they
are declared; the theorems of section 5 hold without them.

Deadlock is checked in every run but two, where the system may really come to rest.
In `simulated`, every endpoint is closed, or has been sent all the packets that the
bound admits. In `storage`, the faults have stopped and no node that runs has the
value or publishes it.

Fairness. Go runs every runnable goroutine, so each goroutine's step is weakly
fair. `sync.Mutex` hands itself to a waiter that has starved for a millisecond,
so a call that has to take `Network.mu` while replies keep taking it is strongly
fair (`Network!Fairness`); the same holds for `done` in the `select` of
`handoffLoop`, which chooses at random among the cases that are ready
(`Handoff!FairSpec`). A started timer fires, and a call returns, which
`net_close` shows of `Network` and the other modules assume. A blocked send to a channel
waits in a FIFO queue of the runtime and is served in its turn, so taking the gate is
strongly fair (`Maintenance!FairSpec`); tickers tick. `StaleSearched` and
`Converges` say what happens once something has become steady, and state that as a
premise: the first as `SteadyBefore(n)`, by which a refresh finds a peer in the table and
each bucket before the n-th stops either getting stale or failing, the second by the
variable `calm`, after which no
node comes or goes, no message is lost, nobody cancels, and a lookup finds the closest
nodes. Repeated passes of every holder are strongly fair there, because one call at a
time is a bound of the model. Hand-offs have no fairness. Nothing else is assumed of the network, of
peers, or of applications.

## 4. Properties worth knowing

* `OnlySilentPeersDropped`, `TimedOutProbeIsStale`: the version read at
  `network.go:138` protects against every late timeout. A consequence is that
  `bucket.remove` at `routing_maintenance.go:60` never runs in the composed
  system: the ping that times out has already removed the peer, or the peer has
  a newer version.
* `EnqueueNeverBlocks`: the queue of `network.go:87` has one slot per bucket
  because the probing flag admits one probe per bucket. Without that the receiver
  would block with `Network.mu` held, which the eviction loop needs.
* `ImplementsPeerSet`: a peer is never pushed out by another; a replacement is
  always a drop by a timeout and a later admission to room that is free.
* `ImplementsHistories`: although `Latest` gathers heads, walks and accepts in
  many steps, what it returns is the node's history at one moment of the call, and
  no node's history ever goes back or is rewritten, under any forced publishes.
* `SoleOwnerNeverForks` needs its premises. A publish that is cancelled after it
  reached a nearer target and before it reached its own node leaves the owner with
  the old head; under a partition the owner may then fork its own history. Two
  machines that publish for one owner at once fork it as well; every later
  `Latest` reports `ErrHistory`, forced publishes included, since `Publish` begins with
  `Latest` (`registry.go:272`). The code promises detection only
  (`registry.go:198-199`).
* `VerdictsAreHonest`: cancelled probes look like failed peers
  (`lookup.go:156-157`); the check at the top of the round is what keeps a
  cancelled lookup from reporting that nobody is reachable.
* `GateExclusive` with `CallsReturn`: after the `select` of `acquireMaintenance` has taken the
  gate, the second check (`maintenance.go:91`) is needed because Go chooses at random
  among the ready cases; it must give the token back, or no later call returns.
* `ClosedIsQuiet`: every caller of `Close` waits, not only the first, because
  `closeOnce.Do` blocks the others until the first is done. Calls of the application may
  still be on their way out.
* `StaleSearched`: a failed lookup ends a refresh, but it has reset the
  timer of its bucket before it failed (`lookup.go:72`), so that the next pass begins with
  other buckets; without that the first bucket that fails would starve the rest, which
  `PassCovers`, that speaks of passes that return nil, would not notice. So the
  property lets lookups fail for ever. Its premise, that no bucket before the n-th keeps
  both getting stale and failing, is needed, and the code does not grant it: a pass takes the stale buckets from the farthest on
  (`routing_maintenance.go:97`), one failing lookup uses up a tick, and the ticks are one
  `RefreshPeriod` apart, after which a bucket is stale again. Were every lookup to fail,
  the first two buckets or so could take turns for ever; the property says that only
  buckets that become stale again do that, never one failure by itself.
* `AcknowledgedStored`: cancellation is looked at before each batch, and once more by
  each worker before it writes or sends (`store.go:47`, `store.go:55`). A call that is
  cancelled after the workers of its last batch have looked may return nil, and then all
  its targets have the value; one that gives up a batch or a target must record an error.
* `RememberedIsServed`: `observe` ignores whoever is in `recent`, so a peer that was
  remembered when the queue had no room for it would get nothing until it falls out of
  the history. It is remembered only together with its place in the queue
  (`handoff.go:52-54`). `QueueExact` would not notice.
* `InboxDiesWithEndpoint`: Go chooses at random when both the inbox and `done` are
  ready, so a `Receive` under way may still take a packet after Close; the second
  poll of `done` (`transport.go:62`) drops it. A Close that comes between this poll and the
  return is too late for that one packet.
* `Converges`: a holder that is not among the K closest still replicates
  (`replication.go:13`), and a target that refuses does not end the loop over batches.
  That is what saves the last copy after crashes. Hand-offs are in the model, made or
  suppressed by whatever the holders know. That they do no harm depends on the
  sender's keeping its copy (`handoff.go:83`): a hand-off that moves the value loses it. That
  they may all be suppressed and replication still suffices matters since a node that returns under its old ID may still be in the `recent` memory
  of the others (`handoff.go:44`), and since the election of a sender
  (`handoff.go:134-138`) may suppress the only holder. That a hand-off reaches every new peer that should have
  a copy is not promised, and not checked: with incomplete tables it is false.
* `DeliverNeverBlocks`: `Send` counts timers as if their packets had arrived
  (`simulated_network.go:105`), which is why the callback may send while it holds
  the only lock.

## 5. What is proved

All theorems hold for every value of the constants that satisfies the named
assumptions of the modules, in particular for any number of peers, buckets,
goroutines, endpoints and packets.

| Theorem | States | Inductive invariant |
|---|---|---|
| `NetworkProofs!TypeCorrect`, `BucketsCorrect` | `[]TypeOK`, `[]BucketInv` | `TableInv`: types, `GoodTable`, every probe anywhere names a peer of its bucket and a version that was given out (`ProbesKnown`), and the agreement of pcs and probes (`PcInv`) |
| `NetworkProofs!StaleProbes`, `SilentDrops` | `[]TimedOutProbeIsStale`, `OnlySilentPeersDropped` | `IInv`: `TableInv` and `VersionInv`, which ties the version a call has read, the silence of its peer since, and the probe in the evictor's hands to the table |
| `NetworkProofs!OneProbePerBucket`, `QueueHasRoom` | `[]ProbeReservation`, `[]EnqueueNeverBlocks` | `ResInv` on top of `TableInv`: the probes with observers, in the queue and with the evictor are of different buckets, and those buckets are the reserved ones |
| `NetworkProofs!NodeImplementsPeerSet` | `ImplementsPeerSet` | `IInv` and `ResInv`; see below |
| `NetworkProofs!ClosedNodeIsQuiet` | `QuietAfterClose` | `ClosedDown` on top of `TableInv`: the transport is closed before `Close` waits, and what it waited for has stopped |
| `RegistryProofs!RegistryTypeCorrect` | `[]TypeOK` | itself |
| `RegistryProofs!HeadsAreServed` | `[]HeadsHoldHistory` | with `TypeOK`; stores only grow, and a commit follows its walk |
| `RegistryProofs!RegistryImplementsHistories` | `ImplementsHistories` | `TypeOK`; see below |
| `RegistryProofs!AcknowledgmentsHold` | `[]AcknowledgedHold` | `AckInv`: what each client and each worker at each pc has already obtained (`ClientGood`, `WorkerGood`), and that a reply on its way belongs to the call that waits for it and says the truth about its target (`ReplyGood`) |
| `RegistryProofs!SoleOwnerIsSafe` | `[]SoleOwnerNeverForks`, under `SoleOwner(o)` | `SoleInv(o)`: everything that any node has, any task works with or any message carries is a prefix of `Frontier(o)`, the head that the owner distributes or, failing that, has |
| `LookupProofs!LookupTypeCorrect`, `LookupReturnsClosest`, `LookupIsHonest`, `LookupKeepsValue`, `LookupProbesBounded` | `[]TypeOK`, `[]ResultIsClosest`, `[]VerdictsAreHonest`, `[]ValueNotLost`, `[]ProbesBounded` | `LookupInv`: ten parts, among them that a probe sends one reply at most, that probes are cut short only by a stop signal or a value (`CutExplained`), and the evidence for a verdict (`VerdictGrounded`) |
| `HandoffProofs!HandoffTypeCorrect`, `QueueIsExact` | `[]TypeOK`, `[]QueueExact` | both, and that the loop has a peer exactly while it transfers (`ServingInv`) |
| `HandoffProofs!RememberedAreServed` | `[]RememberedIsServed` | itself, with the invariant above for the types of the list |
| `HandoffProofs!OwedKeysOffered` | `[]OwedIsOffered` | `OwedInv`: what is still owed is held and eligible, and has been sent or is still in the snapshot |
| `MaintenanceProofs!DistinctDistances`, `RefreshTargetsBucket`, `LowerBucketIsFarther` | the metric is one-to-one; a random target of a bucket lies in that bucket; every ID of a lower bucket is farther than every ID of a higher one | none: facts about the operators, for any number of bytes and bits |
| `MaintenanceProofs!MaintenanceTypeCorrect` | `[]TypeOK` | `GateInv`, `PassInv` and `CloseInv` |
| `MaintenanceProofs!GateIsExclusive`, `CloseLeavesQuiet` | `[]GateExclusive`, `[]ClosedIsQuiet` | `GateInv`, the types of pcs and gate with exclusivity; `QuietInv`, which ties the place of each caller of Close to `done`, `closeOnce` and the loops that have stopped |
| `MaintenanceProofs!PassesCover` | `PassCovers` | `PassInv`: for the task in the gate, every bucket that its pass is for has been searched or is still ahead in its queue (`Legal`) |
| `StorageProofs!StorageTypeCorrect`, `NilMeansStored` | `[]TypeOK`, `[]AcknowledgedStored` | `Inv`: each call is `Sound`, that is, a target without the value is still to be served unless a failure is recorded, and who has acknowledged has the value or crashed |
| `SimulatedNetworkProofs!NeverBlocks`, `AddressesAreExclusive`, `Conservation`, `InboxDies` | `[]DeliverNeverBlocks`, `[]AddressExclusive`, `[]PacketsConserved`, `[]InboxDiesWithEndpoint` | `SpaceInv` (arrived and expected packets fit in the inbox; an open endpoint's timers are those armed and those fired), `ClosedInv`, and exclusivity itself; for the last, `DeadInv`: a receiver past its last poll of a closed endpoint was there at Close |

Every invariant and every action property that a passing run checks is stated by one
of these theorems, and so are both refinements. That addresses are exclusive is proved
only, as a part of the invariant that `Conservation` and the others rest on.

**The RPC layer.** `BucketInv` alone is not inductive: `finishProbe` would be free to add
a peer of another bucket, or to compare with a version of another peer, so the
invariant has to follow probes through observers, queue and evictor. `StaleProbes`
needs the clock as well: a version that a call has read is at most the bucket's
clock, and once its peer has gone or moved it can never be current again, because
`AddContact` never gives out a version twice. `RoutingTableProofs` states what each
table operation does to a good bucket, to membership and to versions, once; the
steps of the goroutines only cite these lemmas. `QueueHasRoom` counts: the buckets of
the probes in the queue and that of the probe about to enter are different, so the
queue is an injection into all buckets but one.

**The node implements `PeerSet`.** `Known` and `Reserved` of the initial state are empty,
and `NetworkPeerStep` shows for each action which abstract step it is. `ResInv` is what
makes a release possible at all: `finishProbe` clears a flag, and only an invariant
that follows probes says that it was set. The abstract guard `HasRoom` speaks of the
number of known peers of a bucket, the code of the length of its list; they agree
since a good bucket lists nobody twice. `finishProbe` is the delicate step:
its removal branch would drop one peer and admit another at once, which `PeerSet`
does not allow; `VersionInv`, the argument of `StaleProbes`, shows that this branch never
runs.

**The registry.** Hashes are the histories that they stand for, so the proofs rest on a
few lemmas about prefixes (`Extends` is reflexive, transitive, and linear below a
history). `Publish` and `Replicate` acknowledge what a *remote* handler did at an
earlier time; `AckInv` carries that truth in the reply until it is read, and heads
never go back. `RegistryImplementsHistories` maps `heads` to `history` and `returned` to
`read`. Only the last step of `accept` changes either (`OnlyAcceptCommits`): it replaces the
head by the same or by one that `Grows` from it, and a `Latest` that commits with it
returns just that. The walk before it and everything else is a stutter.
`SoleOwnerIsSafe` has hypotheses, `SoleOwner(o)`, which are those of the promise and
hold of the constants of `reg_sole`: only the goroutine `o` publishes, nothing is forced or
cancelled, and the nodes are finitely many and at most K. Section 4 says what goes
wrong without them; the last makes the owner's own node a target of every distribution.
The argument is that the owner never builds on an old head: while a version is under
way it is the frontier; it stays one when `distribute` ends, since the owner's node
was among the targets and has taken it, and a build starts at the head that the
owner's node has. Nothing else creates a history, so whatever is lost, repeated or
late stays below.

**Lookup.** `Closest` is defined by counting how many are nearer; the lemmas about places
show that it has at most K members and that whoever is left out of K is
farther than all that are in. `VerdictsAreHonest` follows from the check at the top of
the round together with `CutExplained`: a probe that was cut short was so by a signal
that is still there, unless a value has ended the lookup.

**Maintenance.** `LowerBucketIsFarther` is why the loop of `Join` that counts buckets down
covers everything farther than the closest peer; it and `RefreshTargetsBucket` are
proved from the position of the first bit that differs, and `PassesCover` rests on
both: an ID farther than the closest peer lies in that peer's bucket or a lower
one, the lower ones are the jobs, and a lookup of a job's random target is one in the
job's bucket. That `staleBuckets` lists each stale bucket is `StaleFacts`: a sequence in
increasing order exists for every finite set (`ListingFacts`). The assumption that the
keys held are finitely many, `MaintenanceAssumption`, is there because they are the keys
of Go maps.

**The others.** `DeliverNeverBlocks` needs `SpaceInv` because the number of callbacks that
wait is bounded only through the map of timers that `Send` counts. `NilMeansStored`
follows only with what the acknowledgments on their way say: that
`AcknowledgedStored` holds when a worker takes its reply depends on a write at another
node, which happened earlier and may have been lost since. `OwedKeysOffered` holds
because `handoffLoop` leaves the values for the heads in two ways, an empty snapshot or
the end of the node, and only the second may leave a value behind.

Only model-checked: all liveness (`CallsReturn`, `ProbesComplete`,
`CloseTerminates`, `PendingServed`, `HandoffStops`, `LookupReturns`, `StaleSearched`,
`Converges`), since the prover treats neither fairness nor ENABLED.
Induction over data, such as what sorting a shortlist of any length returns, is
beyond the prover; the models use sets, ranks and counting there.

## 6. A disagreement between comment and code

`net_recency` refutes "Front is most recently seen" (`routing_maintenance.go:33`).
The replacement of a probe was seen when the probe was made; the ping of the old
peer takes at least one timeout, during which the other peers of the bucket may
be heard of. `finishProbe` then puts the replacement in front of them
(`routing_maintenance.go:64`). The order of the list is that of admission and
observation events, not of the times at which peers were seen, so an eviction may
choose a peer that was seen after one in front of it. A replacement that has died
in the meantime is admitted as the freshest peer in the same way.

## 7. What is not modelled, and the plan

Not yet, in the order in which it is to be done:

1. Proofs about convergence, as far as they are safety: that a replication pass by a
   holder with a calm network leaves the value at the K closest nodes.
2. The restart of a node that has lost its heads (`PROGRAM_GUIDE.md:343`), and
   convergence of heads under fair replication; `Storage` shows both for values.
3. The sender election of `handoffEligible` over several holders with tables that are
   state: `Storage` lets each holder know any nodes at any time.

Left out: the UDP read loop (I/O; its effects are loss and failure, which are in
`Network`), lookup events (tracing), configuration and inspection (constants and
read-only copies), the command line, the experiments and their scripts.
Names, validity of addresses and JSON are left out of the models: a message that
does not decode is a lost message.

## 8. Running it

`tlc -config net_table.cfg MCNetwork`, and so for the other runs of
`PROJECT.json`; `tlapm NetworkProofs.tla` and the other `*Proofs` modules.
