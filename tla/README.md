# Formal models of the C-UAS C2 node

TLA+ models of the behaviour of this repository's services, the TLC runs that
check them on small instances, and TLAPS proofs of what matters most for every
instance. Everything here is translated from the code; `PROJECT.json` names, for
every definition, the lines it models.

Run a model with `tlc -config FireSafety.cfg FireControlMC.tla` (the table under
Runs names each run's module), the proofs
of a module named `...Proofs` with `tlapm FireControlProofs.tla`.

## The system

Three services and two user interfaces.

* **services/c2-core** is one FastAPI process on one asyncio event loop. It keeps
  the common operating picture, the registry of sensors and effectors, the
  sensor-task leases, the engagement ledger and the audit chain, all in memory
  except the audit file. It decides whether an effect may be released.
* **services/sensor-sim** stands in for sensors and effectors. It publishes
  tracks and health, executes engagement orders and answers with statuses.
* **services/exercise_service** is a separate, persistent training room (SQLite)
  that never touches the other two; it can send training markers to a TAK server.
* The COP page and the exercise page call these services over HTTP.

C2 and simulator communicate over NATS subjects (core NATS, at most once):
orders and controls from C2, statuses and feeds to C2. An effector may also call
the token-consume endpoint over REST.

### Inventory

| Component | State it keeps | Operations | Interacts through | Correct when |
|---|---|---|---|---|
| Engagement requests (`main.py` `request_engagement`) | `engagements`, `engagement_requests`, `effector_reservations`, per-effector locks | POST /engagements: claim request ID, take lock, PROPOSED, gates, AUTHORIZED, reserve, publish, wait for flush | bus (order), audit, locks, REST | one engagement per request; a reservation is exactly a live released engagement; no order without evidence |
| Aborts (`abort_engagement`) | `abort_pending`, `control_requests`, `abort_ack_timeouts`, per-engagement locks | POST abort: mark pending, publish, store receipt | bus (control), supervisor, status callback | a receipt agrees with the ledger and is finally settled |
| Ledger (`State.transition`, `_on_engagement_status`) | engagement status, history, annotations | apply/duplicate/invalid | bus (status), every handler | terminal states are what happened at the effector |
| Token consume endpoint | `tokens._consumed` | consume once, move to ACCEPTED | REST from an effector | a token is spent once and does not revive a terminal engagement |
| Supervisor (`reconnect_supervisor`) | none of its own | every 2 s: reconnect, subscribe, expire commands, aborts, materiel, leases | every table above | a silent command is flagged, never freed |
| Simulated effector (`simulation.py`, `sim.py`) | active engagement, abort requests, consumed tokens, sequence | take order, verify, phases with sleeps, abort, refuse | bus both ways | never executes an order twice, an abort pre-empts the next phase |
| Sensor tasking (`task_sensor`) | `sensor_task_leases`, `task_results` | lease a sensor, pre-empt by priority, publish, release or keep the lease | bus (task), audit | a sensor has one task; an ambiguous delivery keeps the lease |
| Bus client (`bus.py`) and supervisor | connection, subscriptions | connect, publish outcome, subscribe | NATS | all feeds are subscribed after a reconnect |
| Envelope and dedupe (`_bus_payload`, simulator verifier) | bounded memory of message IDs | accept, reject, duplicate | bus | one message is applied once within the window; identity conflicts are refused |
| Tokens (`tokens.py`) | issued key, consumed IDs | issue, inspect, consume | request handler, consume endpoint, simulator | single use and bound to scope |
| Release gates (`authority.py`), pairing (`pairing.py`) | none (pure) | evaluate, rank | request handler | a permission satisfies every gate; tightening the policy never permits more; one feasible effector is paired |
| COP store (`cop.py`) | tracks | upsert, expire, list | track feed, request handler | what is shown of a track only advances, over evictions too |
| Materiel registry | `sensors`, `effectors`, `materiel_stale`, magazine counts | register, status feed, expire, take down the count | feeds, REST, request handler, engagement reports | silence makes OFFLINE, with one record; once told what is up to date, the node does not think a free effector to hold more than it does |
| Audit chain (`record`, `probe_audit_sink`) | file, last hash, health flag | append, replay at start, probe | every handler | the chain on disk is unbroken at every instant and loses no record; release stops when it cannot be written |
| Correction dialog (`site/exercise.js`, the same file in c2-core's `static/`) | the state the page shows, the version a draft works from | refresh, open, submit, rebase on a conflict, close | HTTP | no wording is replaced that the author did not see |
| Exercise room (`store.py`) | one JSON state per room, invitations, sessions, append-only events | create, invite, join, reports, requests, handover, clock, scenario, export | HTTP boundary; one SQLite transaction each | always a controller; corrections never overwrite unseen versions; the record fits its limits |
| TAK transfer (`tak.py`, `reserve_tak`, `finish_tak`) | attempts in the room, adapter status | reserve, send outside the transaction, finish | TLS socket | the record never claims more than the socket did |
| Simulated track source (`simulation.py`, `sim.py`) | scenario clock, tracks with observation time and sequence | tick, observe, coast, publish, restart | bus (tracks) | a later report is news to whoever holds an earlier one |
| UIs, scripts, specs | - | rendering, build tools | - | not modelled |

### What is hard here

Handlers interleave at every await (the lock, the flush of a publication, the
audit copy); statuses overtake the flush of the order they answer; the bus loses
and reorders and, past the verifier's memory, delivers again; the supervisor runs
between any two of these; the audit sink can fail part-way through a handler; a
restart forgets everything but the audit file. The magazine count of an effector
has three writers, one of which may hold an object that is no longer registered;
a registration is installed whatever its date; track reports are dated by observations whose latency changes, and a restarted
simulator numbers them from the beginning. `PROJECT.json` lists each of these
under `hazards` at the line where it bites, with the property that watches it.

## Modules

| Module | Models | Notes |
|---|---|---|
| `EngagementLifecycle` | the states, `_ALLOWED_TRANSITIONS` and `State.transition`'s verdict | pure; used by every other fire-control module |
| `FireBus` | orders, controls and statuses in flight | sets of records; loss, reordering and redelivery are constants, so a run says which it assumes |
| `C2FireControl` | the node | one action per stretch of code between two awaits |
| `SimEffector` | the effectors | order callback, execution phases, control callback, restart |
| `FireControl` | the composition, its properties, its refinement | EXTENDS both sides, shares the bus |
| `EffectInterlock` | what the node promises a range officer | abstract: who holds an effector, whether the effect is commanded, underway or over |
| `FireControlMC` | values for TLC | symmetry |
| `FireControlProofs`, `FireOutcomeProofs` | theorems: reservations, orders and evidence; then outcomes, receipts, the action properties and the refinement | |
| `BusConnection` | `class Bus`, the startup and the supervisor's reconnection | what the node believes and what the client has are separate variables |
| `SensorTasking` | `task_sensor`, the lease table, its expiry | EXTENDS `BusConnection`: a task is sent, refused or ambiguous as the connection has it |
| `SensorTaskingProofs` | theorems | |
| `ExerciseRoom` | every transaction of `store.py` on one room, the page's correction dialog, the room clock | one action each |
| `TakTransfer` | the composition of a room with `tak_send`, its socket and crashes | EXTENDS `ExerciseRoom`; states the properties of both |
| `TakTransferProofs` | theorems | |
| `CopStore` | `cop.py` behind the handler's timestamp check | any report may be offered at any time: the picture's promise by itself |
| `TrackSource` | what dates, numbers, publishes and drops a simulated track | EXTENDS `CopStore` for reports and the clock |
| `TrackFeed` | source, bus and picture | implements `CopStore` |
| `ReleaseGates` | `authority.py`, `pairing.py` and the order the handler asks them in | pure |
| `Materiel` | the registry, its expiry and every writer of the magazine count | EXTENDS `ReleaseGates`; `request_engagement` as far as stock depends on it |
| `AuditChain` | `State.record`, the probe, the replay in `State.__init__` | the file is state of its own |
| `RoomMC` | values for TLC | one behaviour has room for the script, the corrections or the clock |
| `NodeStoresMC` | values for TLC | one behaviour follows the picture, the materiel's silences, the stock or the file; symmetry of the requests |
| `TrackFeedProofs` (with the picture's), `MaterielProofs`, `AuditChainProofs`, `ReleaseGatesProofs` | theorems | |

The compositions share no state in the code beyond what is said here: fire control
(`FireControl`), sensor tasking over the bus connection (`SensorTasking`), the
exercise service (`TakTransfer`), the picture with its feed (`TrackFeed`), the
materiel with requests and effectors (`Materiel`), and the audit file
(`AuditChain`). The last three meet only inside a request handler, which takes
each as it finds it. In fire control the
outcome of a publication is a choice of the sending action, which over-approximates
what `BusConnection` can answer.

### State and code

`calls[c].pc` is where an execution of `request_engagement` is suspended:
`waiting` for the effector's `asyncio.Lock`, `publishing` in `flush()` of the
order, `auditing` in the publication of the audit copy. `aborts[a]` is an
`abort_engagement` suspended in `flush()` of the control. Between two of these
the code runs without interruption, so `Open ... Release` is one action although
it writes PROPOSED, evaluates the gates, writes AUTHORIZED, reserves and hands
the order to the client library. A lock is not a variable: it is held exactly by
the handler past `waiting` (`LockFree`), and an abort lock by the suspended abort
(`MayAbort`).

`publish_outcome` has three results. NOT_SENT returns without suspending
(`FailUnsent`, `AbortUnsent`). Otherwise the message may be on its way from the
first instant (`Release`, `SendAbort` add it to the bus) and the handler learns
ACCEPTED or DELIVERY_UNKNOWN later, whatever became of the message
(`FinishRequest`, `FinishAbort`). A status can therefore overtake either.

Time is an input. A deadline may have passed whenever the supervisor looks, for
any subset of the commands (`ExpireStaleCommands`); a gate may refuse; `record()`
may raise where `AuditMayFail` says so. Requests differ by ID and effector, a
fingerprint conflict is an early return that changes nothing.

`execution[e]` is what really happened at the effector and is compared with the
ledger; it is state of the simulator (its emitted phase and sequence), not a
ghost. `evidence` is the audit file's AUTHORIZED records, `used` the drawn IDs.

**Sensor tasking.** `taskCalls[c]` is an execution of `task_sensor` suspended in
its only await; what precedes it is one action per way out (`DenyTask`,
`GrantUnrecorded`, `TaskNotSent`, `PublishTask`), what follows it is `FinishTask`.
`leases[s].live` becomes FALSE when the lease's expiry passes (`Lapse`); the entry
goes when somebody looks (`Held`, `ExpireSensorTaskLeases`). `sent[r]` is a
history variable. A repeat of a request may name other data as long as nothing
is stored for it, as in the code; `taskResults[r]` keeps the data it answered.

**Bus connection.** `client` and `onClient` are the library's, `connected` and
`subscribed` the node's; `news` is the callback still to run. The lifespan
coroutine is `supervisor`: `connecting` in `nats.connect`, `subscribing` feed number
`feed`, `asleep` between two turns, `ended` by an exception. `SubscribeAfter` is the
stretch of `subscribe_operational_feeds` from one await to the next.

**Exercise room.** Each operation runs in one SQLite transaction under the
store's lock, so it is one action with the checks of `_authorize`, the effect and
the append to the event table, limits included (`May`, `Append`).

A correction starts on a page. `view[p]` is the version of each report that
participant `p`'s page shows, refreshed at any time (`Read`); `draft[p]` the open
dialog, which starts from what the page shows and keeps its `baseline` however often
the page refreshes behind it (`expectedVersion` in `revisionDialog`); `posts` the
submissions on their way, which the service may handle long after the page gave up
waiting (it then submits again), and whose answer may be lost (`Accepted`,
`RefuseRevision`). After a conflict the dialog shows the version the page knows by
then, and only the author's button makes it the baseline (`Rebase`). `lineage` is a
history variable: of which version a revision's author worked. A dialog whose
answer was lost can submit the same correction again after it was accepted; the
version check is what refuses it.

The clock of a room runs on the wall clock `now` (`Tick`), which may also be set,
forward or back (`SetClock`). `Tenth` and `Millisecond` say how many ticks 0.1 s
and 1 ms have (3 and 2 in the run: scaled, so that both roundings lose something;
any in the proofs). The service shows the
elapsed time rounded to 0.1 s (`Rounded`; the saved value is one of the nearest, either
when two are equally near, as Python's floats make it), counts nothing while the clock
is behind the start (the clamp in `Elapsed`), saves the rounded value at every
transition and dates a start in whole milliseconds (`Truncated`). `ran`, `runs` and
`adjusted` are history variables: the time the room was running, its starts, and by
how much the clock was set meanwhile.

In `TakTransfer`, `send[t]` is the handler between `reserve_tak` and `finish_tak`, and
`socket[t]` what the TLS socket took, which is what the record is compared with.
A crash ends the handlers and leaves room and socket. Sessions, stored texts and
the size of the JSON state are abstracted.

**Picture and feed.** `picture[t]` is the entry of `_tracks`, `shown[t]` remembers it
after eviction. A report carries its observation time, the time it was processed,
and the optional observation sequence; times are whole units of a clock. In
`TrackFeed` the simulator's clock lags the node's, a track is observed with some
latency at a tick or coasts, and `reports` keeps everything ever published: each
may be delivered at any later time, any number of times, which is what a bounded
memory of message IDs comes to.

**Materiel.** `registry[c]` is the content of the registered status object. A handler
that looked its effector up holds that object; `calls[e].captured` is `Attached` while
it is still the registered one and a copy of its content once another was installed
(`Detached`), so a count taken down on it is lost exactly where the code loses it.
`posts` are registrations under way: the body is the component's status when the
client made it (`Post`), and is installed as it is whenever the request is handled,
and again if the client repeats it (`Register`); the code never compares its date.
`delivered` are statuses a copy of which may come again (`Redeliver`), as the memory
of message IDs is bounded. `backdated` is a history variable: the components whose
registered status came from a registration that was outdated when it was handled.
`uplink` is the effector's connection, in order. `lapseRecords[c]` counts the
MATERIEL_STATUS_EXPIRED records of the registered status, `flagged` is
`materiel_stale`, `sinkWorks` whether the audit file can be written. `ledger` keeps of
an engagement's state what decides whether a report is accepted.

**Gates.** `Decision` gives the reason code of the first closed gate, as
`request_engagement` asks them. Geometry enters as a range, an altitude and whether
the track is over a no-fire zone.

**Audit file.** A hash is the sequence of contents it covers. `Write` replaces the file
and then enters the record in memory, in one action because the code does not
await between; `Crash` may fall before or after the rename, and leaves nothing in
memory. `PlainBodies` are the records that `str.splitlines` reads back as one line.

Definitions called "faulty variant" are not part of any specification: each is
the change a plausible bug would make to the definition that follows it, kept to
show that the property watching that code can fail.

## Runs

Every run leaves deadlock unchecked: identifiers are finite sets, so a behaviour
ends when they are used up, and a node with nothing to do may stop.

| Run | Module | Question | Instance |
|---|---|---|---|
| fire_safety | `FireControlMC` | under races, loss, reordering and audit failures, does a reservation cover every order and the ledger tell what the effector did, and do node, bus and effectors implement `EffectInterlock`; does an abort win over the next phase | 2 calls, 2 engagements, 1 effector, 1 abort, 1 restart of the effector |
| fire_restarts | `FireControlMC` | what do the ledger, the reservations and the evidence still say after a restart of the node and one of the effector at any point, with skewed clocks and tokens consumed over REST; is the inductive invariant an invariant | 2 calls, 2 engagements, 1 restart each |
| fire_reliable | `FireControlMC` | with a lossless ordered bus, does every release end as the effector decided; do receipts settle once and truthfully | 1 engagement, 2 aborts of it, audit failures, fairness |
| fire_silence | `FireControlMC` | with a bus that may lose, reorder and repeat everything, and clocks that differ, is a silent command or abort always flagged, and an order executed once | 1 engagement, 1 abort, fairness |
| fire_marker | `FireControlMC` | is a live abort's pending marker retained (violated: see findings) | 1 abort |
| fire_consume_then_refuse | `FireControlMC` | is the effector's refusal final when it consumes its token first (violated) | 1 engagement |
| sensor_tasking | `SensorTasking` | is a task sent and answered once, do leases yield only upwards, do the node's connection and subscriptions agree with the client's and recover | 2 requests, 2 calls, 2 priorities, 2 feeds, 1 lost and 1 closed connection, 1 audit failure, fairness |
| tasking_preempt | `SensorTasking` | does a sensor that has a task keep it against lower priorities (violated) | 2 requests, 1 lost connection |
| room_record | `TakTransfer` | does the room keep a controller and its workers; is one transfer under way at a time, and does its record never claim more than the socket took | 2 participants, 2 handovers, 2 transfers, 8 events, 1 crash, fairness |
| room_parts | `RoomMC` | does the script keep its checkpoints up to every limit; does every revision replace the version its author's dialog worked from; how far is the elapsed time from the time the room ran, with rounding, clamp and adjustments | 8 events, and in behaviours of their own: 1 participant, 5 reports, 2 revisions; 2 participants and their pages, 1 report with 4 revisions, 2 submissions under way; 6 ticks of a third of 0.1 s, clock set by up to 2 while running |
| node_stores | `NodeStoresMC` | does the picture only advance, whatever the feed delivers; does the registry record each silence once; is a free effector never thought to hold more than it does, unless a registration was outdated when it was handled; is the audit file intact at every instant | in behaviours of their own: 1 track, clock to 8, 3 reports, 2 starts of the simulator; 1 sensor, 1 effector, 1 registration under way, failing audit file; 1 effector with 1 round, 2 requests, 1 registration under way, 1 status that may come again, loss; 3 records |
| materiel_hold | `Materiel` | does an effector's own WEAPONS_HOLD close the feasibility gate (violated) | 1 effector, no loss |

The inductive strengthenings (`OutcomeInv`, `ReportsInStep`, `FeedInv`, `MaterielInv`,
`RoomInv`) passed in these same instances, as invariants of the run of their module,
before they were proved. The runs do not repeat them: the proofs hold for every
value of the constants. After a change of the model, add the one concerned to its `.cfg`
first: TLC says sooner than the prover that it no longer holds.

Bounds, and why they are enough:

* Two engagements of one effector are enough for every conflict over it: a
  reservation, a lock and an active execution each relate two engagements. Two
  abort requests are enough for the pending marker to change hands.
* One restart at every possible point covers forgetting; a second one starts from
  a state that a first one reaches as well.
* A lease relates two requests: a holder and one that wants the sensor, with the
  same or the other priority; sensors do not interact. Two feeds have a first, a
  last and a gap between them. One loss and one closing can each meet every state
  of the supervisor, and each other.
* Two participants are enough for handovers to cross and for a correction to be
  made from a superseded version; two submissions under way may be of two authors, or
  one author's before and after a rebase, and four versions let each author be
  overtaken and go on. Eight events let the room fill while a transfer
  is pending; the script has eight events for five reports, so that the event,
  report and revision limits each cut it short in some behaviour; its author alone is
  there, may end the room, corrects the first two reports of the list and gives a
  draft up after a conflict. Three ticks
  to 0.1 s let a rounding go either way, and six ticks and eight events start the clock
  four times; what accumulates over more is proved. Where the clock is not looked at, time stands still.
* A clock of 8 with a time to live of 3 and ticks of 2 lets a track be observed twice,
  coast between, expire on the picture, and come back, with a report from before the
  restart of the simulator still on its way. One round is the boundary of the
  count, and two requests for one effector are what can race for it; `MaxUplink`
  (4 messages) holds a terminal report, its status and a status sent before them. By
  the bounds a periodic status is only sent while there is room for a report
  after it, and a sensor's status, or a hold, only when nothing else is on the way. Three records give a
  chain a first, a middle and a last link.
* `MaxLosses`, `MaxCloses`, `MaxAuditFaults`, `MaxCrashes`, `MaxC2Restarts`,
  `MaxEffectorRestarts`, `MaxSessions`, `MaxAdjusted`, `MaxDelivered` bound faults, `MaxPosts` and
  `Editors` what is submitted and by whom; `MaxEvents`, `MaxReports`, `MaxRevisions` are
  limits the code has (2000, 100, 200), made small; `MaxNow` and `MaxReportTime` bound
  the clocks, `MaxReports` of `TrackFeed` and `MaxRecords` what is published and recorded.

### Fairness

`Fairness` asks only for what runs by itself: the event loop resumes a handler
whose await completed, delivers a status that is not lost, the supervisor keeps
looking every two seconds and a deadline that passed stays passed; the effector's
sleeps end. No fairness is asked of clients, of losing messages or of restarts.
In `fire_reliable` the bus keeps messages (`Lossy = FALSE`); in `fire_silence` it
need not deliver any.

In `sensor_tasking` the library reconnects and runs its callbacks, the lifespan
coroutine is resumed and the supervisor takes its turns; the broker need not come
back, so `ConnectionRecovers` assumes that it finally stays. In `room_record` only
the handler of a transfer is fair (the socket has a timeout), so
`TransferConcludes` holds for every transfer the service survives. The runs of the
stores ask for safety only and assume no fairness.

## Findings

* `fire_marker`: the supervisor drops the pending marker of an abort whose
  publication is still awaited, because it takes "no stored receipt" for
  "orphaned" (`main.py:558-562`) and the receipt is stored only after the await.
  The receipt then claims that the marker is retained.
* `fire_consume_then_refuse`: consuming the token moves the ledger to ACCEPTED
  with the sequence number the effector's own first report uses; a refusal
  reported after it is an invalid transition, and the reservation stays.

* `tasking_preempt`: a task that overrides a lease overwrites it; if it then is not
  sent (or its grant cannot be recorded) its lease is removed and the overridden
  one does not come back, although the sensor still has that task. The sensor is
  then free for any priority (`main.py:1400-1421`, `1497-1498`).

* `materiel_hold`: the validator `sensor_readiness_is_not_a_weapons_state`
  (`models.py:270`) sits in `EffectorStatus` instead of `SensorStatus`, so the node drops
  an effector's status that says WEAPONS_HOLD, which `effector.schema.json:17` allows,
  and goes on taking the effector for READY until its status expires.

Seen while modelling, without a run:

* a disconnect between two of the four subscriptions makes `Bus.subscribe` skip the
  rest, and after the library's own reconnection the supervisor finds a connection
  and does not subscribe them (`bus.py:134`; a hazard);
* the audit file is read back with `str.splitlines`, which also ends a line at U+0085,
  U+2028 and U+2029, and these stay as they are in the JSON: a record with one of
  them in a free text, such as an abort's reason, keeps the node from starting
  (`main.py:313`; a hazard, and the condition of `PlainEvidenceReplays`);
* registration over REST installs a status without asking whether it is later than
  the registered one (`main.py:1254`), unlike the feed. A registration that is delayed,
  or repeated after its answer was lost, past the end of an engagement makes the node count the
  rounds fired since again, until a later status or an up-to-date registration
  is received; `NeverOverstatesStock` therefore leaves out the components in
  `backdated`, and fails without the exemption. Nothing in the repository says what
  a registration's date means, so this is a hazard and no finding;
* `_project_state` rounds the elapsed time to 0.1 s and `clock` saves it so at every
  transition (`store.py:363`): up to half of it is gained or lost each time, as
  `ElapsedTracksRunningTime` allows;
* `docs/04` and the head of `authority.py` list track quality before the other gates;
  the code asks it later, which changes the reason of a denial and nothing else
  (`PermitIsWarranted`).

Not findings, because the documentation says so: core NATS is at most once, and a
restarted node does not know its reservations (`docs/09`).

## Proofs

`FireControlProofs` proves, for any finite or infinite sets of effectors,
engagements, requests and calls, and any of the flags:

* `FireInvariant`: `Spec => []FireInv`,
* `TypeCorrect`, `ReservationsAreExact`, `EvidencePrecedesOrder` and
  `InhibitHolds`, its consequences.

`FireInv` is inductive. `ReservationExact` and `InhibitCoversOrders` are not so by
themselves: a terminal status frees an effector, so one must know that such a
report is the effector's last word (`ReportsAreLastWords`), that an order is
taken once (`OrderTakenOnce`), that what executes was authorized to this effector
(`ActiveEvidenced`, `EvidenceUnique`), and that a suspended handler still knows
its engagement (`CallsWellFormed`, `LedgerKnown`). The proof runs in three
layers: typing and bookkeeping (`TypeInvStep`), the reservation table
(`ReservationStep`), then the effect (`EffectStep`), each with one step per
action. `InhibitCoversOrders` assumes no restart of the node and no redelivery,
as its statement says.

`FireOutcomeProofs` goes on from `FireInv` for the same constants. `OutcomeInvariant`:
`Spec => []OutcomeInv`, and from it, with nothing assumed of bus, clocks or restarts:

* `NothingStale`, `ReceiptsTruthful`, `AuthorizedOnce`;
* the action properties `SettledForGood` (`ReceiptsSettle`) and `AbortsPreempt`
  (`AbortPreemptsEffect`).

`OutcomeInv` has a part per question. A request is authorized once because a waiting
handler has claimed it alone and the request table leads to the engagement its evidence
names (`RequestsClaimed`). An annotation cannot outlive its engagement because a handler
that is still publishing finds its engagement as released, or answered by a higher
sequence number (`PublishingIsCurrent`). Receipts stay truthful, and settled ones are out
of reach, because a pending marker belongs to a directive being published or to a
receipt that is not settled (`MarkersBacked`). An abort goes first because it is queued
only for what is being executed (`AbortsQueuedInTime`).

The other theorems assume of the constants what their properties need:

* `OutcomesTruthful` (`TerminalIsTruthful`): no redelivery. An order that comes twice may
  be refused unverified once and executed the other time, and the ledger then says
  DENIED. Inductive with it: a known or reported outcome stands because the order is
  spent (`OutcomesStand`).
* `NothingExecutedTwice`: no redelivery, or no restart of an effector (`TokensSpent`). With
  both, a replay cache that was lost lets the order through again.
* `InterlockImplemented` (`Spec => ImplementsInterlock`): no redelivery and no restart of the
  node. Step by step: a refused request is withheld, a release commands, an
  acceptance begins, a refusal, a loss, an end, an abort or a restart of the effector ends, a
  reported outcome frees; everything else stutters. The invariant needed is `FireInv` alone.
* `ReportsKeepStep` (`ReportsInStep`) and `VerdictFinal` (`EffectorVerdictIsFinal`): the constants
  of `fire_reliable` (`Reliable`: nothing lost, reordered or repeated, no skew, no REST consumption),
  the latter without restart of the node. `History` says of one engagement that every
  report on its way is the next of the ledger's state or of another report; three lemmas
  about constants show that receiving, opening and continuing preserve it, and each
  step of the system changes one engagement's.

`SensorTaskingProofs` proves, for any sensors, requests and concurrent handlers, any
number of feeds, and any bounds on losses and faults:

* `TaskingInvariant`: `Spec => []TaskingInv`, and from it `TaskingTypeCorrect`,
  `RequestsSentOnce` and `SubscriptionsInstalled`;
* the action properties `AnswersAreFinal` and `LeasesYieldUpward`.

`SentOnce` and `AnswersStand` are not inductive: one must know that a suspended
execution holds its request and no other does (`CallsHoldRequests`), that nothing
is stored for a request under way (`NoAnswerInFlight`), and that a request which may
be tasked again has paid for each publication with a failed record
(`OpenRequestsCost`). The connection's part (`ConnectionInv`) adds that an awaited
subscription is already on the client, and that the node is not connected before it
has one. Assumed of the constants: there is at least one feed, the bounds are
naturals, and `None` is neither a lease nor a result.

`TrackFeedProofs` proves the picture, for any set of tracks, any
time to live and skew, any latencies closer together than a tick, and any bounds:

* `PictureInvariant` and `PictureOnlyAdvances`: what the picture shows of a track only
  advances, whatever is offered to it. The invariant needed is that a report no longer
  held has expired (`ShownIsHeldOrExpired`): a report that was overtaken before
  an eviction is then older than one that is stale, hence stale itself;
* `FeedInvariant` and `FeedIsOrdered` (`NewsIsTaken`): reports of one start of the simulator are ordered by the
  picture's own rule. The inductive `FeedInv` dates every report of a start by the
  scenario clock and bounds observation and sequence by those of the target it was
  made from; that the latency is less than a tick is what makes the next
  observation a later one;
* `FeedImplementsCop`: the feed refines `CopStore`.

`MaterielProofs` proves, for any sensors, effectors and requests, any capacity, and
connections that may lose messages:

* `MaterielInvariant`: `MaterielSpec => []MaterielInv`, and from it `StockNeverOverstated`
  and `LapsesEvidenced`.

`NeverOverstatesStock` is about free effectors and says nothing of what is on its way,
so it is not inductive. `MaterielInv` adds that an effector with an order in flight or
an execution under way is reserved by it (`CommandsReserved`, `OrdersReserved`), that
its last word of an execution comes while it is still reserved, and is followed by
nothing that tells of more rounds than it holds (`LastWordsHonest`), and that the same
holds of everything known or on its way about an effector nobody commands
(`QuietIsHonest`), which includes one whose order was never sent. A handler can then
do no harm: it takes the registered count down or, on a detached object, leaves it.
What is registered is exempt while it is `backdated`: a late registration may say
anything its component once said. A status that was delivered before cannot do that
when a copy of it comes, because something as late is registered (`CopiesAreOld`),
unless such a registration replaced it; the copy is then taken for news, and may
itself be outdated (`Outdated`), in which case the exemption stays.
Assumed of the constants: sensors and effectors are different, the capacity is a
natural, and `None` is no component, engagement or status.

`AuditChainProofs` proves, for any contents and any bound on their number,
`AuditInvariant`, `EvidenceIsKept` and `PlainEvidenceReplays`. `MemoryIsDisk` is what makes
`Verifies` inductive: the new file is built from memory, not from the old one.

`TakTransferProofs` proves, for any participants, invitations, tasks, handovers, reports and
transfers, any limits on events, revisions, submissions and crashes, and any length of the clock's ticks:

* `RoomInvariant`: `Spec => []RoomInv`, and from it `ControllerRemains`, `HandoverAcceptable`,
  `WorkAssigned`, `OutcomeRecordable`, `SingleTransfer`, `RecordTruthful`, `ScriptOnRecord`,
  `ClockTracksTime` (`ElapsedTracksRunningTime`) and `CorrectionsInLine` (`CorrectionsFollowOn`);
* the action property `NothingResent` (`NeverResent`).

An accepted handover demotes its giver, so it could strand work, another offer of the same giver
or a transfer, and leave the room without a controller: `OneOfferEach` and `NamesKnown`, which
speak of people who do not change roles otherwise, are what excludes it. The outcome of a
transfer can always be recorded because the event table keeps a row for each
pending one (`SpaceKept`, `OnePending`). `HandlersKnow` ties what a handler will report to
what the socket took, over every error exit; `CheckpointsDistinct` gives each step of the script
its own report, so that the correction finds the one it means. A correction is in line
because what a dialog posts as expected is what it was based on (`PostsHonest`), however
the page was refreshed meanwhile, and the service compares that with the version it
replaces. The clock's bound is inductive in `ClockAccounts`: a stopped clock holds whole
tenths, so that showing it rounds nothing a second time, and a running one has not spent
the rounding of its own run yet; setting the wall clock moves both sides by at most
what `adjusted` counts, the clamp included. The proof groups the
conjuncts by the variables they read, and each transaction is shown to leave the other
groups alone.

`ReleaseGatesProofs` proves of all requests, effectors and policies `PermitIsWarranted`
(the code's sequence of early returns permits exactly what satisfies every gate),
`TighteningNeverReleases`, `HoldMeansPolicy` and `BestEffectorIsUnique`.

Only model-checked: the liveness properties (`ReleasedEventuallyTerminal`, `SilenceIsFlagged`,
`AbortEventuallyAnswered`, `TransferConcludes` and `ConnectionRecovers`), because fairness and
ENABLED are outside this proof system's reach. Every invariant and every action
property of the passing runs, and the refinement, is a theorem. No module declares a
recursive operator.

## Not modelled, and why

Kinematics, detection and kill probabilities are floating-point physics; pages
and scripts render or build, except for the correction dialog; specs describe. Fire control takes the answer of the
gates as an input, and its ledger accepts any reported count up to capacity: both
are in `ReleaseGates` and `Materiel`. Fingerprints, signatures and subjects of messages
and scopes of tokens are equalities of a value with itself; what the bounded memory
of message IDs lets through is modelled as redelivery. A token is inspected and
consumed without an await between, so its expiry is one more closed gate. The
exercise service's HTTP layer (cookies, CSRF, shapes) refuses or calls the store.
A restart of the simulator refills the magazines it simulates, which no code
handles; `Materiel` leaves it out, `SimEffector` and `TrackSource` restart. SQLite, TLS and
the broker are outside the repository.

## Plan

Modelled and checked: every component that keeps state others act on, except the
memory of message IDs, whose limit is modelled as redelivery. Proved: every safety property the passing runs check. What is left:

1. The steps that the liveness properties rest on, as action properties: that a deadline which
   passed is not withdrawn (`Expire`), that the handler of a transfer has an exit from
   every state.
2. A refinement of the room by an abstract record of transfers, and of the tasking
   table by a lease that only its holder or a higher priority moves.
