# CrossFlow-X in TLA+

CrossFlow-X shares one keyboard and mouse between machines without a driver:
one endpoint captures input (macOS, the client), another injects it (Windows,
the server), and both agree beforehand on who they are, who they trust and how
they are arranged.  This directory holds TLA+ models of the parts of the C++
code that are concurrent, stateful or ordered, TLC configurations that check
them on small instances, and TLAPS proofs of what matters most for every
instance.

    tlc -config MCSpscRing_data.cfg MCSpscRing      # one run
    tlapm SpscRingProofs.tla                        # one module of proofs

`PROJECT.json` lists components, runs, mutants, findings, hazards and theorems,
and maps every definition to the source lines it models.

## 1. Inventory

| component | state | operations | hard behaviour | correctness |
|---|---|---|---|---|
| SPSC ring (`platform/common`) | head, tail, drop count; per slot version, epoch, payload words | `tryPush`, `tryPushDropOldest`, `tryPop` | lock-free overwriting under a reader; memory order | whole items, in order, once; only overwritten items are lost; the ring drains |
| capture tap (`platform/mac/mac_event_tap`, `dual_channel_spsc`, `capture_handle`, `authoritative_resync`) | tap state, two rings, saturation flag, resync state, capture thread, handles | `start`, `stop`, the event callback, `captureThreadLoop` | three threads; a full ring; stop while events arrive | nothing leaks; stop delivers and returns; each saturation is repaired and ends |
| transport (`core/s05_transport`) | flags, two sockets, two listeners, two receive threads | `connect`, `disconnect`, receive loops, reaccept | disconnect racing a reaccept; peer loss at any point | threads owned; disconnect returns; a loss is noticed |
| disconnect-resync coordinator (`integration`) | one state, what is pressed | start, stop, link notices | notices from two threads, in another order than the changes they tell of | keys released before waiting; the gate follows the last notice |
| sending path (`integration/e2e_pipeline_orchestrator`, `TransportImpl::send`) | running flag, backlog counter, send mutex | `processEvent`, `send` | test and send not atomic; counter of failures | no wrap; bounded overshoot; pressure ends |
| pairing and trust (`core/s08_pairing`) | state machine per peer, active handshakes, trusted list and its file, registrations | the orchestrator's handlers; add, remove, load, persist, recover | late, repeated, refused messages; crash inside a rewrite; damaged lines | members are registered, and on the trusted list unless they were refused; trust follows the state machine; what was revoked stays so |
| identity, recovery and fence (`core/s06_identity`) | node id, epoch, topology, identity file; recoveries under way; the fence | initialize, persist, load, recover; request, answer; check a fence | crash inside a rewrite; damage; messages of an earlier session | a recovery is durable; the fence separates sessions |
| topology versions and view (`core/s09_membership`, `core/common/domain`) | version, commit state, authority; endpoints and neighbours | propose ... activate, abort, coordinator lost and back; `isLinear`, `neighborOf` | coordinator loss in mid-commit | only an authorised version becomes active; an edge never leads nowhere |
| discovery (`core/s07_discovery`) | table, transport in use, announcer with handles, refresh thread, subscriptions | announce, listen, fall back, refresh, prune | late records; refresh thread against stop; failed registration | the table holds the newest session; no handle leaks; calls return |
| release executor (`platform/mac`) | pressed snapshot, last result | `execute` against a deadline | deadline or failure in mid-list | the result says what happened, until a deadline is met; at most one late injection |
| extractor, normaliser, injectors, receiver (`platform/mac`, `platform/win`) | pressed bitmaps, remembered modifiers | extract, normalise, validate, inject, release, synchronise | unmapped keys and buttons; failing injections | nothing stays down; modifiers agree |
| edge detection and screen geometry (`platform/mac`) | cached boundary, pending flag, policy | query, publish, reconfigure, normalise, detect | a display change during a query | the cache is stale only when marked so; edges are exact |
| logger (`core/common`) | bounded queue, worker | start, stop, submit, flush | two kinds of waiter on one condition variable | lines are kept; stop and flush return |
| evidence and latency (`integration`) | records, stage times | record, verify, compute statistics | records in any order, two clocks | the verdict and the figures are right |
| accessibility guard, domain data, interfaces | none of their own | | | not modelled |

How they meet: the callback pushes into the two rings and the capture thread
pops them; its events go through the pipeline to `TransportImpl::send`; the
peer's receive thread hands them to the injector; link notices go from the
transport (under `handlerMutex_`) to the coordinator, which releases what is
pressed and triggers a resync; pairing, registration and topology messages use
the control plane.  In the code as it is, the services of the control plane
(identity, trust, fence, topology, discovery, announcer, logger) are objects that
share no state and that only tests put together.

## 2. Modules

| module | models | uses |
|---|---|---|
| `ChannelContract` | what a single-producer single-consumer channel promises | |
| `SpscRing` | the ring, one action per access to a shared atomic | refines `ChannelContract` |
| `CaptureTap` | tap, callback, capture thread, resync, handles | the rings as `ChannelContract` describes them |
| `TransportLink` | connection life cycle and the coordinator's reaction | |
| `ResyncCoordinator` | the coordinator's notices, from two threads under one mutex | |
| `SendBacklog` | the sending path | |
| `PairingHandshake` | one endpoint's pairing | |
| `PairingExchange` | two endpoints exchanging request and response | two instances of `PairingHandshake` |
| `TrustStore` | trusted list, its file, identity recovery with a peer | |
| `IdentityStore` | the node's identity and its file | |
| `SessionFence` | the fence and delayed messages | |
| `TopologyCommit`, `TopologyView` | commit of a version; neighbours | |
| `Discovery` | table, announcing and listening paths | |
| `Announcer` | mDNS announcer with refresh thread and subscriptions | |
| `LogQueue` | logger | |
| `InputPath`, `ModifierSync` | an event from extraction to injection; modifiers | |
| `ReleaseExecutor` | one execution after another | |
| `ScreenGeometry` | boundary cache, listener, edge arithmetic | |
| `Evidence` | collector and latency probe | |
| `SpscRingProofs`, `CaptureTapProofs`, `TransportLinkProofs`, `SendBacklogProofs` | theorems about one module | the module named, `TLAPS` |
| `PairingHandshakeProofs` | theorems about `PairingHandshake` and `PairingExchange` | these, `TLAPS` |
| `ControlProofs` | theorems about `TopologyCommit`, `SessionFence`, `LogQueue`, `Discovery`, `Announcer` and the composed control plane | `MCControl`, `StoreProofs`, `TLAPS` |
| `StoreProofs` | theorems about `IdentityStore`, `TrustStore` | these, `TLAPS` |
| `InputProofs` | theorems about `ReleaseExecutor`, `ModifierSync`, `ResyncCoordinator`, `TopologyView`, `ScreenGeometry`, `InputPath`, `Evidence` and the composed input path | `MCInput`, `TLAPS` |
| `MCControl`, `MCInput` | TLC instances of the control plane and of the input path | the modules above |
| other `MC*` | TLC instances of one module | the module of the same name |

Definitions whose comment begins with "Mutant:" are wrong variants of the
definition that follows them.  No specification uses them; they show that the
property they are paired with in `PROJECT.json` can fail.

### SpscRing

The variables are the ring's atomics, `Slot<T>`'s three fields and the two
threads' program counters and locals.  A payload is `WordCount` words stored and
loaded one at a time; push number n writes the mark n+1 into each word, so a
torn read is a payload with two marks.  The actions `Push*` follow `tryPush`
and `tryPushDropOldest`, which differ in the full test (`PushFull`, `PushCall`)
and the drop statistic (`PushCount`) only; `Pop*` follow `tryPop`, with its two
early returns, its skip and its alignment.  Cursors are unbounded naturals:
2^64 pushes are out of reach.

Memory order.  Steps interleave sequentially, which is exact on x86-64 for this
code: stores are not reordered with stores nor loads with loads, and the one
store-load reordering the processor has (the producer's `head` store passing
the `tail` load of the statistic) is covered because `tail` only grows and the
statistic then only sees an older one.  With `LoadsInOrder = FALSE` the relaxed
word loads after word 0 may be performed at any later point before `tail` is
published, which the acquire loads that follow them do not forbid on arm64.  The run
of the lossless ring has them so and passes: nobody writes to a slot under its
reader.  The run of the drop-oldest ring has them in order, that is, it speaks of
x86-64; what arm64 does to that ring is listed under "Also visible".

The contract: an item is received after its push ended, in order, at most once
and whole; it is discarded only when the push that reuses its slot has begun.
The mapping is `done <- head`, `next <- tail`, and `begun` is `head` plus one
from the first write to the slot until `head` is stored.

### CaptureTap

Three processes: the control thread inside `start` or `stop`, the callback, the
capture thread at its place in `captureThreadLoop`.  The rings are sequences of
event numbers with the behaviour the contract allows: the state ring refuses
when full, the data ring loses its oldest; `tryPopData` may also fail while a
push rewrites the oldest slot.  `stop` uninstalls the tap only after the join,
so the callback stays live during the last pass; the model keeps that order.
`unsynced`, `episodeSynced` and `due` are history variables.

### TransportLink

The application thread, two receive threads, and a peer that may break either
connection.  A socket is "none", "up" or "broken".  `reacceptInput` is taken
apart into its eight steps, because `disconnect` can fall between any two.
Notices are one step each, since they run under `handlerMutex_`; the coordinator
is started, `pressed` stands for what its snapshot would contain.  Closing a
socket is assumed to make a blocked `recv` or `accept` on it fail, as on the two
product platforms.

### SendBacklog

Any number of threads in `processEvent`.  The steps are the accesses to
`backlog_`, which is a count of failed sends, not a queue length, and is
changed outside the mutex when the link is known to be down.

### PairingHandshake and PairingExchange

Handlers run to completion; every handler may be called for every peer at any time,
which covers late, duplicated and reordered messages.  `"Unknown"` stands for a peer
without an entry.  The flag `pairingDone` is set by a refusal too; the history variable
`refused` tells those flags from the ones an acceptance has set.  Calls that return an
error before changing anything are not steps.  `PairingExchange` connects an initiator A
and a responder B with the ids the code puts into the messages.

### TrustStore and IdentityStore

Both keep the only copy of a file that `persist` truncates before it writes, so
`persist` is two steps and a crash may come between them.  With `DiskFaults` /
`TrustFaults` a write may fail or stop half way (the code does not look at the
stream after writing) and a file may be damaged: lost, cut, zeroed or garbled.
What can be read is what `load` reads: it stops at the first line it cannot parse.
In `TrustStore` opening the file empties it and the lines go behind what it holds,
so that a file opened the wrong way keeps what had been removed.
A topology name with a blank in it is a value that does not survive the file.
Node ids are numbers never used before.  In `IdentityStore` memory and file are
compared through the history variable `settled` (a recovery has ended with its
writes done); in `TrustStore` `revoked` remembers removals that reached the disk.
The recovery protocol's requests and responses are actions on
`activeRecoveries`.

### SessionFence

`mail` holds every fence ever stamped: messages are delayed and repeated at will.
A restart makes the fence from constants again, as the code does, so the property
speaks of messages of the present life only.

### TopologyCommit and TopologyView

One action per public operation; a call in the wrong state returns an error and is
no step.  `vouched` is what the authority has authorised with no loss or abort
since.  `TopologyView` builds every view of a few parts and compares what
`isLinear` accepts with what `neighborOf` answers.

### Discovery and Announcer

`Discovery` is one thread's calls: three ways to announce, two to listen, and the
records that arrive.  A record is what the table compares (epoch, version, topology
name: its key) and the details it does not compare.  A record that repeats the key
renews the entry and is not stored, so the details of an entry are some that the
newest session announced (`told`), not always its last.  `newest`, `told` and
`silent` are what an ideal table would know.
`Announcer` takes apart what `Discovery` sees as one step: the calling thread,
which has to join the refresh thread, the refresh thread itself, the handles of
the two platforms and the subscriptions.  A thread that joins itself inside a
`noexcept` function ends the process (`terminated`).  `start` is taken apart as well:
each of its calls may fail and frees what the code frees at that place, and on
Windows the answer to the registration (`RegisterComplete`) comes on a thread of the
responder, before or after the five seconds are over, or never.  Of the responder it is
assumed that cancelling a request, which every stop and every failed wait does, takes
back what was published and that no callback comes afterwards; the code, which then
frees the context, relies on the same.  `Encoded` is what becomes of a text: on macOS
entries of more than 255 bytes (`LongEntries`) are left out.

### LogQueue

A critical section of `mutex_` is a step.  Notifications take one thread (`submit`)
or all (`stop`) out of `waiting`; the worker notifies nobody.  Spurious wake-ups are
an action without fairness.

### InputPath and ModifierSync

`InputPath` follows presses and releases through extraction, validation and
injection on both target systems, with keys the extractor does not know (200 stands
for the codes from 128 on) and buttons it takes for the left one.  `faulty` is
raised by a lost or refused event and lowered by a release of everything.
`ModifierSync` is `syncModifiers` of the two injectors with failing keys, with
someone at the target's own keyboard and with releases of everything, which on Windows
send a key-up for the modifiers in the snapshot.  `wrong` holds the modifiers whose key
event failed and that no later call has set; all the others are as the source has
them.

### ReleaseExecutor

The deadline may pass between any two steps, and each injection may fail.
`lastResult` is not reset between executions, as in the code.

### ScreenGeometry

Displays change at any time; a query is three steps (take the pending flag, read the
displays, publish).  The arithmetic of the coordinate normaliser and the edge
detector is checked against where a point lies, the row included, which is what the
flip of NSScreen's coordinates changes.  The casts to `int32_t` wrap at `CoordLimit`
(2^31 in the code, 8 in the run, where one arrangement is too wide for it).

### Evidence

`Correlation` and `ComputeStats` are the code's algorithms; `CorrelationExact` and
`LatencyHonest` compare them with definitions that say what they mean.  `Sorted` stands
for `std::sort` by what it promises: some ascending permutation of its argument.

### ResyncCoordinator

The transport's two threads deliver notices, and `handlerMutex_` lets one be handled
at a time (`HandlerMutexFree`); `state_`, which the input path reads meanwhile, is
changed in steps.  A thread changes the link (`LinkChanges`, which leaves the notice in
`due`) before it asks for the mutex, so two notices can be handled in another order than
the changes came about.  `GateHonest` says two things.  Between notices the gate shows
what the last notice handled told of (`believed`), whatever the order.  And when nothing
is left to tell, the gate is as the link is, provided that the notice heard last told of
the state the link was in (`settled`); a notice that was overtaken on its way to the
mutex leaves the gate wrong until the next change, which is what the code does.

## 3. Runs

| run | bounds | checks |
|---|---|---|
| `spsc_data` | 2 slots, 2 words, 6 pushes | `RingInv`, `PopIntegrity`, `DropCountCoversPending`, `ContractSpec`, `EventuallyDrained` |
| `spsc_state` | the same, lossless, payload loads in any order | `ContractSpec` |
| `capture` | state ring 2, data ring 1, 6 events, 2 sessions | `CaptureInv`, `NoLeak`, `StopDelivers`, `EpisodesAreRepaired`, `SaturationEnds`, `StopReturns` |
| `link_server` | 2 connects, 3 breaks | `LinkInv`, `ReleasedWhenDown`, `DisconnectReturns`, `LossIsNoticed` |
| `input` | 3 senders, threshold 2; 3 keys, 2 buttons, 2 events in flight; 3 modifiers; 3 slots; 6 arrangements of displays (one too wide for its casts), a cursor up to 2 beside them; 3 event ids, 4 records; 3 probed events, 1 of them with a part of its stages; 2 nodes, 2 parts; 2 notice threads | `BacklogInv`, `NothingStuck`, `ModifiersAligned`, `ResultHonest`, `DeadlineHeld`, `SnapshotFresh`, `EdgesExact`, `CorrelationExact`, `LatencyHonest`, `NeighborsResolve`, `GateHonest` |
| `control` | 2 node ids, 2 epochs; trusted list of 3; fence epoch 4, 2 lives, 2 messages; 2 versions; 1 discovered node, 3 record epochs, with and without details, age 1; 2 texts, one with a long entry; 3 clients, queue 2, 5 lines; 2 pairing peers | `ControlTypeOK`, `RecoveryIsDurable`, `RevocationSticks`, `FenceSeparates`, `CommitConsistent`, `TableHonest`, `AnnouncerConsistent`, `LinesKept`, `PairingInv`, `ActivationVouched`, `AnnounceCallsReturn`, `LogStopReturns`, `StopReleasesFlush` |

`MCControl` and `MCInput` put together components that share no state in the code.
Their product would multiply states and show nothing more, so a variable `focus`
picks one component at the start and the others keep their initial state: each run
is the union of the components' state spaces.

Why the bounds are enough.  Two slots and six pushes let the producer lap a
paused consumer three times, so a slot is rewritten between any two of the
consumer's loads; two words are what a torn item needs.  Six events fill the
state ring of two, overflow it, drain it and overflow it again, which makes two
saturation episodes, across a stop and a restart.  Three breaks let both planes
fail and one fail again while `disconnect` is under way.  Three senders can all
stand between the back-pressure test and the failure.  Two node ids are one lost
and its successor; three entries of a trusted list leave room for a good line
behind a damaged one.  Two messages of two lives meet two changes of the fence.
Three record epochs give an older, an equal and a newer record.  Three clients
and a queue of two have one client refused while another waits in flush and a
third submits during a stop; five lines survive a restart.  Two notice threads are
what the transport has.  The two keys that are mapped, one that is not, the left
button and one that is taken for it are all the cases `extract` tells apart.  Three
probed events with two possible times keep the median apart from the largest value; the
report skips events that lack a stage, so one of these at a time (`MaxOpen`) is enough
to show that it does.
A record with details and one without are enough for a repeat that differs from what is
stored.

Fairness.  `FairSpec` of each module, and `AnnFairness` and `LogFairness`, say that a
thread which is not blocked runs, and that a call once entered proceeds: the
operating system's scheduler.  Nothing is assumed of the user (events, calls of
start, stop, connect, disconnect, submit, flush), of the peer or of spurious
wake-ups.  `SaturationEnds` and `StopReturns` are checked with a bounded number of
events: under an endless stream that refills the ring as fast as it is drained, the
drain loops of the capture thread have no bound of their own.  In
`backlog_stuck` input goes on arriving at a running pipeline; in
`pairing_exchange` requests are repeated and messages are delivered.  Both make
the violations stronger.  In `Announcer` the responder need not answer: `start` waits
five seconds at most.

`CHECK_DEADLOCK FALSE` is said where the system may stop: no more events, calls
or messages are due, a bound is reached, or the process has been terminated.

### Disagreements between code and documents

Each of these runs checks one sentence of the repository and TLC violates it.

| run | what happens |
|---|---|
| `capture_loss` | the flag is cleared without regard to an event refused since the ground-truth query |
| `link_client` | a client whose connection breaks leaves its loop silently: no release, no reconnect |
| `backlog_stuck` | above the threshold every event is refused, so nothing ever lowers the backlog |
| `pairing_exchange` | the response names the requester as responder; the initiator never concludes |
| `identity_crash` | a crash between truncation and flush loses a node id that had been stored |
| `announcer_refresh` | the refresh thread stops the announcer, which joins the refresh thread: the process terminates instead of refreshing |

Also visible in the models, without a run of their own:

- Ring: with `LoadsInOrder = FALSE` (arm64) `tryPop` of the drop-oldest ring may return
  a torn item, which
  `docs/cf2_mac_capture/design.md:1992` excludes.
- Capture: `stop` receives the handle by value, so the caller's copy stays active and
  a second `stop` takes `activeCount` down again (`ReleaseHandle`).
  `AuthoritativeResync::trigger` is called by no code outside the tests.
- Transport: a reaccept that has passed its test of `receiving_` raises `linkUp_`
  after `disconnect` has lowered it (`ReUp`); the Connected notice of `connect` may
  arrive after the receive thread's Disconnected notice and reopen the gate
  (`ConnectNotice`, and a notice that is not `settled` in `ResyncCoordinator`).
- Pairing: a request makes any peer Trusted from any state, and a registration request
  is accepted from anyone.  A refusal sets `pairingDone` like an acceptance, so refusal,
  request, registration and completion leave a member that is not on the trusted list,
  against `docs/cf1_endpoint_disc/spec.md:238`; `MembersVouched` says that this is the
  only way there.
- Identity: the stream is not looked at after writing; `incrementEpoch` persists
  nothing; a restarted process builds its fence from constants, not from the stored
  epoch, so fences of two lives may be equal.
- Discovery: a record that repeats epoch, version and topology is not stored
  (`Upserted`), although `docs/cf1_endpoint_disc/spec.md:431-432` has the network
  addresses updated in that case; the service fills in no addresses on any path.
  The listener copies its callback before it is set and hears nothing on
  its first start (`StartListening`); an id announced in decimal is read in
  hexadecimal (`Mangled`), and the topology name is looked up under another key;
  listening over the manual configuration overwrites `transport_`; the UDP socket
  stays open when announcing stops over another transport; announcing twice keeps the old text;
  a failed `updateTxt` leaves `announcing_` set.
- Announcer: `stop` cancels the subscriptions, so a change of network republishes
  once only.  On macOS an entry of more than 255 bytes is left out of the text without
  an error (`Encoded`).
- Logger: a `start` during a `stop` would assign to a joinable thread and terminate;
  the model has one controlling thread.
- Release: `DeadlineReached` is reported by every later execution (`Return`).
- Injection: macOS `releaseAllPressed` only counts; its `syncModifiers` remembers a
  modifier whose event failed as done, which stays wrong until the source changes that
  modifier (`wrong`); drags and changes of
  modifiers have event types the extractor does not map.
- Screen: a query that is refused leaves the old boundary in the cache.

## 4. Proofs

Theorems hold for every value of the constants that satisfies the module's
ASSUME, which gives them their types, excludes empty rings and keeps values that
stand for "nothing" apart from the rest.  Every safety property of a passing run is
the subject of a theorem.  A property is seldom inductive by itself; what it needs
besides is this.

The theorems about a service or a part of the input path are about that module's own
specification.  `CompositionIsModular` and `PathIsModular` carry them over to the
compositions `MCControl` and `MCInput`, which is what the runs check: every behaviour
of the composition is a behaviour of each part, because each step of `Next` is a step of
one part, or of the parts one handler moves together, and leaves the others alone.

**SpscRingProofs.**  `RingInvariant` proves `Spec => []RingInv`, one lemma per group of
actions.  `PopIntegrity` is not inductive; `RingInv` adds what it rests on: `CursorInv`
(what each thread knows of the other's cursor), `SlotInv` (a version is odd exactly
while the producer is inside, and a slot at rest holds the whole item its epoch names),
`WindowInv` (an item whose slot no later push has begun to reuse is in place), `ReadInv`
(as long as the version is the one first seen, everything loaded is still there) and
`DropCountInv`. `PopIntegrityHolds` and `RingImplementsContract` assume `LoadsInOrder \/
~DropOldest`; the lossless ring needs no order among the loads, since a slot it reads is
not written (the last line of `ReadInv`), and for the other one TLC finds a torn item.
The refinement proof maps each ring step to a contract step or a stutter; the crux is
that `PopAlign` and `PopSkip` give up only items whose slot is being, or has been,
reused.

**CaptureTapProofs.**  `CaptureInv` adds three things to the types.  `PhaseInv`
says what the control thread knows of tap and capture thread at each place of
`start` and `stop`; `NoLeakHolds` is its "idle" line.  `DueInv` says that events are
numbered as they come, so an event that arrives during the last pass is never one
of those due, and that the due ones have left the ring by the time the thread turns
to the data ring; `StopDeliversHolds` follows.  `EpisodeInv` says that from the test
of the mark to its withdrawal the thread stays within one episode, and that a
pending confirmation belongs to that episode; the action property
`EpisodesAreRepairedHolds` follows from its line for the step that clears the mark.

**TransportLinkProofs.**  `LinkInv` is `ThreadsOwned` with `PhaseInv`, which knows
`connected_` and both threads at every place of `connect` and `disconnect`, between
the two joins too.  `ReleasedWhenDown` is inductive with it: only the input thread
presses, it comes to `accept` by way of a notice that releases, and when the
application thread is idle without a connection there is no such thread.
`JoinSafe` is the part of "disconnect returns" that is not about fairness: no thread
that `disconnect` joins is left in a `recv` or `accept` that blocks, even one that
slipped past the second test of `receiving_` and installed a peer after the close.
`ClientStaysDeaf` is the finding of run `link_client` for all constants: for a client
(`ClientInv`: it never reaccepts, and `linkUp_` follows `connected_`), once the input
loop has ended, the link counts as up, and up to `disconnect` no step changes that, the
coordinator or what is pressed.

**SendBacklogProofs.**  `BacklogInvariant` proves `BacklogInv`, which rests on
`MutexInv` (one thread between lock and return, hence the load and the subtraction
are not separated by another subtraction) and `FlightInv` (the backlog plus the
threads that may still fail stays under the bound), the latter with the cardinality
theorems; `NoUnderflow` and `BacklogBounded` follow.  `BackPressureIsForever` is the
finding of run `backlog_stuck`: with the backlog over the threshold and nobody inside
`send`, the only step left is to drop an event.

**PairingHandshakeProofs.**  `PairingInvariant` proves `PairingInv`, which is inductive.
`DoneIsAnswered` says what `pairingDone` means: the peer is on the trusted list or was
refused.  `MembersVouched` needs it for the step that makes a member, and
`TrustFollowsFsm` for the steps back, since only a rollback takes a peer off the list.
`EndpointsImplementHandshake` shows that `PairingExchange` refines the handshake at
both endpoints.  `ExchangeInvariant` says what the messages carry: every request names
A, every response names its requester, so A is told of nobody but itself.
`PairingNeverSucceeds` follows, the finding of run `pairing_exchange` for every
behaviour and not just for one: `ExchangeSpec => ~PairingSucceeds`.

**ControlProofs.**  `CommitConsistent` is inductive with the types, and the action
property `ActivationVouched` comes with its step.  `FenceInv` says that within one
life a message of an earlier session has a lower epoch than the fence, and one of
the present session the fence's own epoch and time.  `LogPhaseInv` says where the
worker is for each place of `stop` (it ends only on an empty queue with `running_`
false); the rest of `LinesKept` is the algebra of taking the head of the queue and
appending at its end.  `TableInv` is `TableHonest` with the types, one
lemma per call.  `AnnInv` is `AnnouncerConsistent` with, for each step `start` has
reached, the handles held there and that nothing is published before a request was
made.  `StopStrandsNobody` is the safety half
of `LogStopReturns` and `StopReleasesFlush`: after `stop` has notified, nobody waits, so no
wake-up is lost.  `ControlTypeOKHolds` collects the five type invariants of the control
plane, each proved of its own service and carried over by `CompositionIsModular`.

**StoreProofs.**  For `RecoveryIsDurable`, `RepairSound`: while a repair is being
written, what is in memory is valid and would survive the file; then writing it and
reading it back is the identity on the three fields.  For `RevocationSticks`,
`TrustInv`: list and file are sequences over the peers that are not revoked, and the
file is empty from the moment `persist` has opened it until it writes.  That
needs what the filter `Without` returns for every sequence, and that a prefix a load can
read is a sequence over the same peers; both are proved by induction.
`OnlyTheWindowLosesTheId` bounds the finding of run `identity_crash`: when the disk is
free of faults and topology names are of one word, the same property holds of every
behaviour in which no crash falls between truncation and write.  Both hypotheses are
needed: a partial write, or a topology name that `load` cannot read back, leaves a file
`load` refuses, without any crash.

**InputProofs.**
`ExInv`: an injection begins only when the clock was last seen in time, so the late
one is the last; the result is a deadline just when some execution met one; equal
counts mean equal sets (cardinality theorems).
`ModInv`: of the modifiers outside `wrong`, what macOS remembers is what is down.
`GateInv`: at most one notice is being handled, the gate is where its handler has
brought it, and a coordinator that is `settled` believes the link to be as it is, or a
notice that says so is still due.
`ViewInv`: the types; `NeighborIs` shows that `neighborOf` looks at a node's first
relation.
`ScreenInv`: displays that were read are the present ones, unless a change since is
pending or went unreported; `EdgesExactHolds` is arithmetic over the bounding box; the
casts keep the coordinates where they fit (`CastKeeps`), and the sides of the box exist
by `MinMaxOfMany` (finitely many integers have a least and a greatest).
`PathInv`: a control that nothing held at the source stands for will be up: the link
holds a release of it with no press behind it, or it is up and the link holds no
press.  "Stands for" is where unknown keys and buttons that count as the left one
come in: two held buttons may stand for one control, and `WillBeUp` is claimed only
when neither is held.  `NothingStuck` is the case of nothing held and an empty link.
`EvidenceInv`: the types; `CorrelationExactHolds` then needs least and greatest ids and
the time of a last record, which exist because there are finitely many records.
`LatencyInv`: the probe's times are of their type, and only finitely many events have
any stage recorded, so the complete ones form a sequence even if `ProbeIds` is infinite.
`LatencyHonestHolds` then needs that an ascending permutation of every sequence exists
(`SortExists`, by induction on the length: move the greatest value to the end), that
`Sorted` returns one (`SortedIs`), and that at least `k` values are no greater than the
one of rank `k` (`NoSlowerThanRank`).

The runs `spsc_data`, `capture`, `link_server`, `input` and `control` check
`RingInv`, `CaptureInv`, `LinkInv`, `BacklogInv` and `PairingInv` on small instances;
the invariants of `ControlProofs`, `StoreProofs` and `InputProofs` are stated beside
their proofs, and the runs check the properties they lead to.

Induction.  The library's induction theorems take an operator as parameter, which the
provers cannot instantiate.  Where a fact needs induction over numbers it is stated
as "the set of counterexamples is empty" and proved with `WFMin`: that set would have
a least member (`LeastNat`).

Only model-checked:

- All liveness, with its fairness: `EventuallyDrained`, `SaturationEnds`, `StopReturns`,
  `DisconnectReturns`, `LossIsNoticed`, `AnnounceCallsReturn`, `LogStopReturns`,
  `StopReleasesFlush`.  Fairness and ENABLED are beyond the prover; `JoinSafeHolds` and
  `StopStrandsNobody` prove what of three of them is safety.

## 5. Not modelled

- Operating-system interfaces (event taps, sockets, DNS, injection, network
  watchers) other than by their outcomes; the bytes of UDP and DNS messages;
  wording and logging; the numbers handed to the operating system.
- The accessibility guard: one query, whose answers are branches of `CaptureTap`.
- `MembershipManager`: a list with a counted test, in no protocol.
- Red-line and scenario lists of the evidence reports, and the statistics counters:
  they only grow.
- `merge()` of the merge policy, which only tests call, and loading a policy file.
- Interfaces without an implementation, domain records and tables of error texts.
- Descriptor reuse, handlers that call back into the transport, and `close` not
  waking a blocked `recv` (Linux, which is not a product platform) are outside
  `TransportLink`.

## 6. Plan

Models, runs and the proofs of the safety properties are in place.  What would add most:

1. The safety halves of the remaining liveness properties, as `JoinSafe` is one for
   `DisconnectReturns`: at every place where a thread waits, someone who can wake it is
   left.
2. `MdnsListener`, of which only the paths into the table are modelled.
3. The two rings inside `CaptureTap` are queues whose pushes are single steps, which is
   `BeginPush` and `EndPush` of `ChannelContract` in one.  A contract with an atomic push,
   itself implemented by `ChannelContract`, would let a theorem join the two models.
