# A2A broker: TLA+ models, checks and proofs

This directory holds TLA+ models of the A2A broker, the TLC configurations that
check them on small instances, and TLAPS proofs of the properties that matter
most. The repository's code is the reference: a definition follows the lines that
`PROJECT.json` names for it under `map`.

```
tlc -workers 2 -config MCBroker_lifecycle.cfg MCBroker     # one run
tlapm BrokerProofs.tla                                     # the proofs of a module
```

## 1. The system

The broker is a single Node process. Requesters create tasks and exchanges over
HTTP or JSON-RPC; worker processes poll for the tasks assigned to them and start a
handler for each; operators approve, reassign, cancel, requeue and clean up; a timer
sweeps stale tasks; GitHub webhooks and a poller turn issues into tasks; other
brokers hand tasks over and report on theirs; a notifier outside the repository polls
the outbox of finished tasks. State lives in Maps and is saved through a state store
(a JSON file, or SQLite with "hot" rows beside a snapshot row).

| Component | State | Operations | Talks to |
|---|---|---|---|
| Task lifecycle (`core/broker.ts`) | `tasks`, `tombstones` | create, update payload, wake plan and decision, reassign, approve, reject, claim, start, heartbeat, complete, fail, cancel with fan-out, requeue, dead-letter | exchanges, proposals, audit pipeline, store |
| Policy (`core/policy.ts`) | none | is approval required; who may apply a proposal | tasks, proposals |
| Workers registry | `workers` | register, heartbeat, go stale | tasks (routing), reaper |
| Exchanges, proposals | `exchanges`, `proposals` | messages with decisions; attach, validate, approve, reject, apply | tasks write back to both |
| Stale reaper (`server.ts`) | a timer | sweep | tasks |
| Terminal event outbox, cross-broker briefs | `events`, ids seen, numerators; `records` | enqueue, poll, acknowledge, record a receipt, restore; ingest | audit pipeline, notifier, other brokers |
| SQLite store (`core/store.ts`) | hot tables, snapshot row, save hints | hot save, full save, load, prune | broker, cleanup |
| Operator cleanup (`core/broker-cleanup.ts`) | none | discover, plan, execute a reviewed plan | hot rows |
| Worker client (`worker.ts`), task handler (`scripts/`) | poll loop, one attempt | poll, claim, start, run, report; choose an executor and judge its answer | broker over HTTP, docker runner, OpenClaw session |
| HTTP server, request security, JSON-RPC | rate buckets | identify the requester, route | broker |
| Event streams (`server.ts`, `core/task-event-stream.ts`) | bounded buffers, subscribers | push, replay after an id | audit pipeline, HTTP clients |
| Peer status (`a2a/peer-status.ts`) | cache, buckets | answer, recompute | broker, other brokers |
| GitHub ingestion, recovery, poller, handoff receiver, round closeout (`github/`) | delivery ids, watermarks, recovery records | ingest, backfill, project, poll, receive, reconcile | broker, GitHub, other brokers |
| Conference rooms and fan-in, lifecycle managers, delegated runs (`core/`) | maps of records with a transition table, event buffers | transition, retry, time out, settle | brokers and callers that embed them |
| Decision dialectic | a round in a task's payload | advance, patch | tasks of the agents |
| Terminal-brief closeout and sidecar chains (`core/terminal-brief-*.ts`) | packets (JSON files) | one pure decision per stage | operator, one script per stage |

What is hard here: handlers of independent actors interleave at every request, and
some wait for a body between a check and its use; several handlers save more than
once, and one save writes several tables, so a crash may fall between any two writes;
retention runs inside every full save and must not drop what a retained record needs;
late, lost or repeated calls of a worker meet a task that the reaper or an operator
has moved on; webhooks are redelivered and arrive out of order; the outbox, the event
buffers and the caches are bounded; a packet of the gate chains may be edited on its
way to the next stage. `PROJECT.json` lists each of these hazards at its line with the
properties that would catch it.

## 2. Modules

| Module | Models |
|---|---|
| `BrokerRecords` | records, status sets, policy functions, retention predicates; the constants and their assumptions |
| `Broker`, `MCBroker` | the broker: one action per handler, the reaper, the clock, restart, a crash inside a cancel |
| `BrokerProofs` | theorems about single task records: gate, holder, budget, finality |
| `BrokerLinksProofs` | theorems about what records say of each other: references, lives, tombstones, lineage, exchanges |
| `TerminalOutbox`, `MCTerminalOutbox` | outbox, store of cross-broker briefs, external notifier |
| `BrokerStore`, `MCBrokerStore` | the broker's saves and loads on the SQLite store, a crash at every write |
| `DurableRecords` | what a durable store promises; `BrokerStore` implements it |
| `WorkerClient`, `MCWorkerClient` | worker processes against the broker's task API, over unreliable calls |
| `CloseoutGates`, `SidecarGates`, `MCSidecarGates` | the two terminal-brief chains, one after the other |
| `Components`, `MCComponents` | the fifteen modules of the next table, side by side |
| `Limiters` | the sliding and the fixed-window limiter side by side, for their common property |
| `BrokerStoreProofs`, `TerminalOutboxProofs`, `SidecarGatesProofs` | the inductive invariants and theorems of those modules |
| `IntakeProofs` | theorems about the worker client, and about poller, recovery, handoff receiver and ingestion |
| `LifecycleProofs` | theorems about the six lifecycle managers and their event buffer |
| `ComponentProofs` | theorems about the other parts of `Components` |

| Part of `Components` | Code | What is in it |
|---|---|---|
| `LifecycleManagers` | `execution-`, `delivery-`, `proposal-lifecycle.ts`, `wake-audit.ts`, `conference-room.ts`, `handoff-scenarios.ts`, `event-buffer.ts` | six managers against their transition tables, with retries, revivals, loop guards, sealing, and a reader of the cursor buffer |
| `ConferenceFanIn` | `conference-fan-in.ts` | join, contribute, idle, leave, block, time out, reset; quorum verdict |
| `DelegatedRun` | `delegated-runtime.ts` | start across an await, updates, timeout, abort, cancel, settle; the broker behind the bridge is external |
| `EventStreams` | `broker.ts`, `server.ts`, `task-event-stream.ts` | task, operator and assignment streams with reconnects and restarts |
| `GitHubIngestion` | `github/ingestion.ts`, `webhook-parser.ts` | webhooks, polled batches, backfill, watermarks, parent and child tasks, crash inside a delivery |
| `GitHubRecovery` | `github/recovery-state.ts` | events, checks, reviews and task states in any order, folded into a bucket |
| `BoundedPoller` | `github/bounded-poller.ts` | start, stop and replacement while a fetch is under way, backoff, slices |
| `PeerStatus` | `a2a/peer-status.ts` | cache, fixed-window limit, recompute cap |
| `RateLimiter` | `request-security.ts` | sliding window, trimmed by snapshots |
| `HandoffReceiver` | `github/handoff-receiver.ts` | repeated and half-failed receptions |
| `DecisionDialectic` | `decision-dialectic/` and its routes | advance, patch at a revision, veto policy, read model |
| `Gateway` | `server.ts`, `request-security.ts`, `a2a/json-rpc.ts` | who may ask for which change, with slow bodies |
| `OperatorCleanup` | `broker-cleanup.ts`, `store.ts`, cleanup routes | discovery, plans, execution of a reviewed plan against rows that move |
| `RoundCloseout` | `github/round-closeout-reconcile.ts` | selection, newest observation, classification |
| `TaskHandler` | `scripts/openclaw-a2a-task-handler.mjs` | choice of executor, its ends, fallback, links |

These classes share no state with each other. A behavior of `Components` is about one
of them, chosen in `Init`, and leaves the others as they are: their state spaces add
instead of multiplying, and one run checks the properties of all.

An operator under a comment "Mutant: ..." is a faulty variant of the
definition that follows it. No specification uses it; it shows that a property
notices that fault.

### Broker

`tasks`, `workers`, `exchanges`, `proposals` and `tombstones` are the broker's Maps;
the status `"none"` is "no such record". `outbox` is, per task id, the list of
terminal statuses that the audit pipeline handed to the terminal outbox. `disk` is
the saved snapshot where it can differ from memory: exchanges (a message handler
that throws leaves its change unsaved) and tombstones. All other Maps are saved by
the handler that changes them.

Node runs a handler to completion, so a handler is one action, its saves included.
A request that is answered with an error and no change is no action. `Persist` is
`persistState`: `applyRetentionPolicy` in its four passes, then the save.

Abstractions:

* **Time.** A timestamp is kept as the answer to the one comparison made with it:
  `fresh` of a held task (stale threshold), of a terminal record (retention), and
  the worker's `seen`, `stale`, `expired`. `WorkerAges`, `TaskAges`, `ExchangeAges`
  and `ProposalAges` let the clock pass. Retention keeps the newest records up to a
  limit; which are newest depends on timestamps, so any choice of that many is allowed.
* **Map order.** When one sweep or cancel writes an exchange from several tasks, the
  last one wins; `LastWritten` allows every task to be last that the iteration order permits.
  For a cancel tree this is slightly wider than a depth-first walk.
* **Roles.** A request carries the role its node registered with, and some privileged
  actor exists for every operator action; `Gateway` is about who that may be.
  `brokerOfRecord` and `teamId` are this broker's.
* **Data.** Payloads, message texts and counts, artifacts, validation records, GitHub
  evidence and audit records other than terminal announcements are left out.
  `partially_accepted` behaves like `accepted`.
* **Store.** The whole-snapshot store; `BrokerStore` has SQLite.
* **Crashes.** `Restart` is a crash between handlers. `CrashDuringCancel` is a crash
  inside the one handler whose partial saves no other actions produce. A crash inside
  `completeTask` (proposal saved, task not) equals a direct apply or validation
  followed by `Restart`; one inside `addExchangeMessage` equals a task action followed by `Restart`.

### TerminalOutbox

`events`, `seenOrder` and `counted` are the fields of `TerminalTaskEventOutbox`,
`records` those of `CrossBrokerTerminalBriefProjectionStore`. `cursor` and `held`
belong to the external notifier, which saves the cursor of each reply (as
`docs/operator-terminal-outbox.md` asks) before it delivers. `handed`, `log` and
`boot` are history. What a poll returns is a set of places of `events`, cut at the limit.
All handlers save before they answer, so `Restart` keeps
`events` and `records` and rebuilds the ids seen, the numerators and the audit.

A *lane* is a child that another broker reports on; its packets name the child.
Packets name this broker as broker of record; rejected packets change nothing and are
no action. The model's acknowledgements carry evidence: the route rejects any other.
Legacy `deliveredAt` records and payload texts are left out.

### BrokerStore and DurableRecords

A record is its version; the last version is terminal. `mem` are the Maps, `rows` the
hot tables, `snapshot` the row of `broker_snapshots`, `pending` the ids hinted for the
next save, `recent` whether the next save may be a hot one. A request is several steps
(`step`): the row of a task is upserted first, then `persistState` takes either path,
then the tombstone is written, and `Restart` may come between any two. `old` says which
terminal tasks are past the retention window. Which of them a capped read or a
retention pass keeps depends on timestamps; any choice of that many is allowed.

`DurableRecords` is what a user of a durable broker expects: a record moves forward one
version at a time and only a terminal one may disappear; no cache, save path, crash or
restart is visible. `BrokerStore` maps to it by `records <- Visible`, where
`Visible[t]` is what `getTask` answers. The property `RecordsDurable` is that
refinement. It holds for the load source `hot-tables` when every active row fits the
load cap, and fails for `snapshot` (run `snapshotload`).

### WorkerClient

`status`, `assigned`, `requeues`, `silent` are the broker's, `pc`, `batch`, `call`,
`stopping` a worker's; `late` holds requests that arrive after their caller gave up.
`pc` names the await in which `processTask` stands. A call is answered, refused, or
broken: the request never left, is still under way, or was answered and the answer
lost. What a handler returns is chosen from the outcomes the code distinguishes
(`ExternalOutcome`, the proposal handlers, an intent without a handler); the evidence
of a result is whether it links a pull request or a comment and whether its receipt
is well formed.

### The gate chains

Every stage is a pure builder that its own script runs on the packet of the stage
before. A packet is its state, whether it has blockers, the facts it asserts and the
no-live flags that are set. The actions run the next stage, keep or rebuild a packet,
bring evidence to an ingestor, and set a flag (`Edit`) or a state (`Relabel`) by
hand. `past` is history: what the inputs behind the packet really showed. The
properties compare the last packet with `past`, over all stages in between.

### Conventions of the parts of Components

Each part has a prefix for its variables, an `...Init`, a `...Next` and its own
properties. Clocks are small numbers. A route handler that waits for its body is two
actions, since other requests run meanwhile; everything else between two awaits is one
action. Variables commented as history record what happened and guard nothing.
A selection from a list (what a replay sends, the observations of a round) is a set
of places in it, which keeps order and duplicates. The history of a limiter is the log
of the times at which it let a request through; "at most n in a window" says that any
n + 1 entries in a row span at least the window. `hrMade` counts the tasks made per
command of a handoff comment. A polled batch of `GitHubIngestion` has up to two events,
the least of which one is behind the other's watermark.

## 3. Runs

Properties of one concern are checked as one: a property named here with parts in
parentheses is the conjunction of definitions of those names, each with its own
comment.

| Run | Instance | Shows |
|---|---|---|
| `lifecycle` | 1 task id with 2 lives, 2 workers, 4 policy inputs, all ages, limits of 0 | `ApprovalGate`, `HeldByAssignee`, `RequeueBudget`, `LifeIsConsistent` (`AnnouncedOnce`, `ReferencesResolve`), `TerminalIsFinal`, `TypeOK`; with a reaper that keeps running, `StaleClaimsReleased` |
| `tree` | 3 tasks under every parent relation, cycles included, crashes inside cancels | `CanceledTreeAgrees` (`AnnouncedOnce`, `TombstonesAgree`, `FanOutLineage`: what a cascade canceled is below a task whose cancel was announced) |
| `exchange` | 2 tasks, 2 workers, 1 exchange, all decisions | `ExchangeFollowsTask` (`RoutesToActiveTask`, `CompletedExchange`) |
| `proposal` | 2 tasks, 1 exchange, 1 proposal, direct requests, limits of 0 | `ReferencesResolve`, `ApplyTaskApplies` |
| `outbox` | 2 tasks, 1 lane, 2 timestamps, 2 kinds of evidence, late receipts, outbox of 2 | `OutboxInv` (`DedupeWindow`, `ProgressWhileRetained`, `TypeOK`), `AckSticky` |
| `delivery` | 2 tasks, 1 lane, outbox of 2, limits 1 and none, notifier crashes | `CursorCovers` (while no event that was handed out is announced anew), `EveryBriefConfirmed` |
| `store` | 2 tasks and a brief, 2 versions, crash at every write | `RecordsDurable` (the refinement), `StoreInv` (`MemoryNotStale`, `EventsSaved`, `TypeOK`), `TombstonesKept` |
| `worker` | 2 workers; a validation lane with 2 faults and a reassignment, or a batch of 2 tasks with 1 fault; 1 requeue | `SuccessIsEarned` (`SuccessWasProduced`, `SuccessHasEvidence`, `AckedStays`, `TypeOK`), `RunsBounded`, `EveryTaskSettles`, no deadlock |
| `gates` | 2 workers, 2 events, 2 pieces of evidence, all flags | `ReadyIsProven` (`FinalizerReadyIsProven`, `SealIsApproved`, `TypeOK`), `ForgedNeverReady` |
| `components` | one small instance per part (`MCComponents`) | the properties of the next table |
| `fanout` | as `tree` | violated: a cancel misses live tasks below a terminal child |
| `snapshotload` | 2 tasks, load source `snapshot` | violated: an active task saved with hints is lost by a restart |

| Part of `components` | Properties |
|---|---|
| Lifecycle managers | `EffectsBounded` (`EffectsGranted`: a run delivers its payload once, a proposal is applied once per approval, ...; `SendsBounded`, `LineageSimple`), `RecordsTell` (`LastEventTellsStatus`, `ReadOnceOrEvicted`, `SealAgrees`, `LifecycleTypeOK`) |
| Fan-in | `PreviewAgrees` (two implementations of the idle timeout) |
| Delegated run | `RunSettles` (`SettledOnce`, `OutcomeIsTheTasks`, `UnsettledHasTimer`): the task may end between createTask's answer and the subscription |
| Streams | `SubscribersMissNothing` (`SubscribersInSync`, `NothingRetainedIsMissed`, `OperatorReplayHasNoGap`, `QueuedWorkIsAnnounced`, `StreamsTypeOK`) |
| GitHub ingestion | `IngestionInv` (`ChildHasParent`, `GitHubTypeOK`), `IssueEndsTasks` (`LifecycleInOrder`, `CloseSettlesTree`) |
| GitHub recovery | `BucketTells` (`BucketCurrent`, `ReadyIsOfTheHead`) |
| Poller | `PollingBounded` (`OneChain`, `CycleBounded`) |
| Peer status, limiter | `AnswersWithinCap` (`AnswerTellsThePeer`, `RecomputesCapped`), `LimitersHold` (`RequestsInWindow`, `PeerLimitTwice`) |
| Handoff receiver | `HandoffsIdempotent` (`CommandsRunOnce`, `AnswerNamesEachCommand`) |
| Dialectic | `PhasesInTurn` (`SawEarlierPhases`, `ChildCanAnswer`, `ReadModelNamesNextPhase`) |
| Gateway | `RequestsSound` (`ChangesAreEntitled`, `ContextHasTask`) |
| Cleanup | `CleanupIsSafe` (`PrunedWasReviewed`, `HeldWorkersStay`, `RetainedHasAudit`, `PlansAgreeWithDiscovery`) |
| Round closeout | `CloseoutTells` (`ReadyIsEarned`, `ViewAgrees`) |
| Task handler | `LinksAreEarned` (`SuccessHasExecutorLink`, `BadRunReportsNothing`) |

The two violated properties each state what a document says; the findings in
`PROJECT.json` quote the lines.

**Bounds.**

* *Broker.* `MaxLives` bounds how often one task id is created, finished and dropped
  by retention; two lives show that nothing of the first leaks into the second. Two
  workers are enough for a task to be held by one and reassigned to the other; three
  tasks are the least with a grandchild, a cycle below a root, and siblings; two tasks
  of one exchange or proposal are the least that compete. `MaxRequeueAttempts` is 1 or
  2, so a budget can be used up, reset by a reassignment and used up again; 0 (no
  limit) is covered by the proofs only. Retention limits are 0 where retention is the
  question (everything expired goes at once) and larger than the instance where it is
  not. `Ages` selects what may age in a run.
* *Outbox.* Two events are retained and four ids remembered: an event can be evicted
  while its id is still remembered, and a restart forgets it. `Times` allows a child to
  be corrected once. `ProgressWhileRetained` speaks of retained events only: a restart
  after an eviction counts fewer successes than before, since
  `rebuildSucceededChildren` sees only what retention kept.
* *Store.* Two tasks are the least of which one is terminal and pruned while the other
  is active and hinted; two versions are created and terminal.
* *Worker.* Two faults allow a lost answer to be followed by a crash or a late
  request. The two initial conditions of `MCInit` separate faults from batches.
* *Gates.* Two events allow a conflict of one worker or an answer of each; two pieces
  of evidence allow one that contradicts the other.
* *Components.* `MaxEventId`, `MaxSeq`, `MaxUpdates`, `MaxDeliveries`, `MaxClock`,
  `MaxReceivedAt`, `MaxNow`, `MaxRateNow`, `MaxCuNow`, `MaxSightings` end a behavior;
  each is larger than the limit it has to outrun (buffers of 2, windows of 2 or 3
  ticks, retention of 0), so evictions, expired windows and late events all occur. Two
  processes of a stream, two pollers, two deliveries and one crash are the least in
  which the old meets the new. Three handoffs are the least in which a task comes back
  to its origin over another node and may be refused there.

Ids are model values or small strings; runs with safety properties only use symmetry
where it is declared. `exchange` and `proposal` use the view `MCView`, which leaves out
the tombstones and counts the announcements: no guard and none of their properties
reads more of them. Deadlock is checked for `store` and `worker`; elsewhere the
system may stop (a broker without requests is idle, bounded behaviors end).

**Fairness.** `FairSpec` of `Broker` assumes weak fairness of `StaleReaperSweep` and of
nothing else: the sweep is a `setInterval` timer whose callback catches errors
(`server.ts` 800-837 and 971). `Fairness` of `WorkerClient` assumes the same reaper,
that time passes for a task nobody reports on, and that a worker's event loop runs,
its calls are answered or fail, its handler ends (`runExternalHandler` kills it after
its timeout) and its process is started again by its supervisor; no fairness is assumed
of lost calls, late requests or operators. `FairSpec` of `TerminalOutbox` is an
assumption about the notifier, which is not in the repository: it keeps polling with
`reconcile_unacked` and, if it is handed an event again and again, at last confirms it.

## 4. Proofs

Every safety property that a run checks is also a theorem, for any sets of ids and
any value of the limits, except the two that the code violates.

| Module | Theorem | States |
|---|---|---|
| `BrokerProofs` | `IInvHolds`, `TypeCorrect` | the inductive invariant `IInv`; `TypeOK` |
| | `ApprovalGateHolds` | no gated task is attempted without approval; a refused one is canceled |
| | `HeldByAssigneeHolds` | a held task is held by its assignee; a waiting one has no trace of a holder |
| | `RequeueBudgetHolds` | requeues stay within the limit and only a spent budget dead-letters |
| | `TerminalIsFinalHolds` | no step changes how a finished task ended |
| `BrokerLinksProofs` | `LInvHolds` | the inductive invariant `LInv` |
| | `ReferencesResolveHolds` | what a retained task refers to is retained |
| | `LifeIsConsistentHolds` | one announcement for each end of a life, and the references |
| | `CanceledTreeAgreesHolds` | outbox, tombstones and lineage agree, crashes inside a cancel included |
| | `ExchangeFollowsTaskHolds` | an exchange follows its active task (`MaxLives = 1`) |
| | `ApplyTaskAppliesHolds` | an apply task succeeds only with its proposal applied |
| `BrokerStoreProofs` | `StoreInvHolds`, `TombstonesKeptHolds` | memory is not behind its rows, events have rows; no tombstone is lost (`LoadSource = "hot-tables"`) |
| | `RecordsDurableHolds` | `BrokerStore` implements `DurableRecords` (the same, and `Cardinality(TaskIds) <= LoadActive`) |
| `TerminalOutboxProofs` | `OutboxInvHolds`, `AckStickyHolds`, `CursorCoversHolds` | dedupe window, round numerators, bounds; acknowledgements stay; nothing before a cursor is skipped |
| `IntakeProofs` | `WInvHolds`, `SuccessIsEarnedHolds`, `RunsBoundedHolds` | successes are produced, have evidence and stay; executions are paid for by requeues and reassignments |
| | `PollingBoundedHolds`, `BucketTellsHolds`, `HandoffsIdempotentHolds`, `IngestionInvHolds`, `IssueEndsTasksHolds` | the properties of the four GitHub parts |
| `SidecarGatesProofs` | `GatesInvHolds`, `ReadyIsProvenHolds`, `ForgedNeverReadyHolds` | a ready packet or a seal has everything behind it, and no forgery |
| `LifecycleProofs` | `EffectsBoundedHolds` | every effect of a manager has a permission of its own, sends are within the retries, a handed-on task visits no node twice |
| | `RecordsTellHolds` | newest event and status agree, a reader gets each event once or it was evicted, the ledger agrees |
| `ComponentProofs` | `RunSettlesHolds`, `RequestsSoundHolds`, `CleanupIsSafeHolds`, `PhasesInTurnHolds`, `PreviewAgreesHolds`, `LinksAreEarnedHolds`, `AnswersWithinCapHolds`, `LimitersHoldAlways`, `SubscribersMissNothingHolds`, `CloseoutTellsHolds` | the properties of the other parts (`CleanupIsSafe` for `Cardinality(CuTasks) <= CuMaxRows`) |

**Hypotheses of single theorems.** Each is a limit of the code, not of the proof.
`hot-tables`: with the source `snapshot` a restart really loses saved tasks (run
`snapshotload`). `Cardinality(TaskIds) <= LoadActive`: the load reads at most
`LoadActive` active rows, and the next full save prunes the rows that are not in memory,
a row beyond the cap among them. `MaxLives = 1`: where a task id is used again after
retention dropped it, an exchange may still name the id, and then speaks of another
task. `Cardinality(CuTasks) <= CuMaxRows`: discovery scans at most that many rows, so
with more it may overlook the active task of a worker. `CursorCovers` has its own
condition, `HandedOnce`: an event that was handed out, evicted and announced anew is in
the outbox a second time, behind the cursor that its first copy set.

**Assumptions on constants**, each named in the module that declares them and
evaluated by TLC in a run: `NoneAssumption` and `MarkAssumption` (`None` and the mark of
a direct cancel are no ids), `RoleAssumption`, `LimitAssumption`, `InputAssumption`
(requests use known intents and flags); `LastAssumption`, `SourceKnown`, `CapsNatural`,
`IdsAssumption` (a terminal version after the first, known sources, natural caps,
finitely many tasks); `OutboxAssumption`, `NamesAssumption` (an outbox of at least one
event, known evidence, finitely many children); `ModeTyped`, `FiniteParties`,
`BoundsNatural` (finitely many workers and tasks); `GateBounds`; `PollerAssumption`,
`ShaAssumption`, `HandoffAssumption`; `HasTimeoutTyped`, `CleanupAssumption`,
`HandlerAssumption`, `RecomputeCapAssumption`, `PeerLimitAssumption`, `RateAssumption`
(limits of at least one), `StreamsAssumption`, `SightingsAssumption` (an observation is
not the mark for none); `LifecycleAssumption` (known managers, and a buffer of at least
one event, since each manager replaces a `maxEvents` that is not positive by its
default).

**The invariants and why they are needed.**

* *`IInv == MapsOK /\ LogsOK`* has the types of all Maps, `TaskOK` of every task and
  `ExchangeOK` of every exchange in memory and on disk. `TaskOK` is the conjunction of
  the three published record predicates and `Routed`: an existing task has a target and
  an assignee. The holder is compared with the assignee, so `HeldByAssignee` needs
  `Routed`; a task that a message creates takes its route from the exchange, so `Routed`
  needs that an existing exchange has a target; and because a restart brings back the
  exchange on disk, the same of the disk. Every handler ends in `Persist`, which keeps a
  record or replaces it by `NoTask`. So one lemma reduces each handler to the record it
  writes, and one lemma per record constructor shows that it preserves `TaskOK`. For
  finality the same lemma shows that a handler must write a terminal record to change
  it, which each guard excludes.
* *`LInv == IInv /\ RefsInv /\ LifeInv /\ FollowInv`.* `RefsInv` states the references
  for the saved exchanges too. `LifeInv`: a terminal task's last announcement is its
  status, and a live task has room for one more; tombstones, in memory and on disk, are
  of announced tasks; what a cascade canceled has a parent whose cancel was announced
  (the parent's record may be gone or used again, its announcement is not). `FollowInv`
  says the same of an exchange's active task for both copies. A cancel tree is one step,
  so its lemmas say what one step makes of any one task: it keeps what the invariants
  read, is worked on, ends or begins.
* *`SInv`* relates memory, rows and hints at each point of a save. A task in memory is
  as in its row (the row is upserted first), or terminal with its row cleaned up
  (`TasksAgree`); a hinted task's row is written (`HintsAgree`); an event without its
  row is hinted and being saved (`EventsHinted`); tombstones are in both places or
  neither. `RInv` adds `LoadedInv`: memory lacks only terminal rows. The refinement is
  then a case per step: `Visible` advances by one version in the step that upserts the
  row, loses terminal records in a retention pass, a cleanup or a restart, and is
  unchanged by every other step.
* *`OInv`*: outbox and ids seen are the two ends of the log that their limits leave
  (`EventsMirror`, `SeenMirror`), everything in the outbox was told (`AllTold`),
  numerators are between the successes retained and the successes logged (`CountedInv`),
  and the cursor was handed out (`HandedWereSent`).
* *`WInv`*: what a worker's `pc` says of its task and call (`Local`), that a late
  completion is of a good result (`LateProduced`, `ProducedGood`), and the account
  `Paid`: executions begun, about to begin and still admitted by the status are at most
  one more than the requeues and reassignments.
* *`GatesInv == CloseoutInv /\ SidecarInv`*: a packet is of its stage's type, what it
  says was shown is in `past`, and a met one has all its stage needs and nothing
  contrary or forged behind it. Each stage is one lemma from its rules.
* *GitHub.* `PollerInv`: only the newest poller runs, so the late end of a stopped one's
  cycle schedules nothing; slices add up (`SlicesFit`). `RecordInv`: the checks on
  record are of the present head. `HandoffInv`: a command was given at most one task,
  which is on record, and an id of the receiver's own is of its command.
  `IngestedInOrder`: lifecycle time, watermark and clock are in this order.
* *`ManagersInv == BufferInv /\ RecordsInv /\ ChainInv`.* `BufferInv`: the buffer is the
  end of the events numbered so far, the newest event about a record tells its status,
  and what was read and what was lost add up to the cursor or to the first number still
  buffered, whichever is greater. That last equation makes "each event once, or it was
  evicted" inductive: a page moves the cursor by as many numbers as it holds places,
  and an event that falls out moves the other bound. `RecordsInv`: a record that may
  still set off work has a permission it has not used, so one case per transition
  suffices; a delivery's counter of retries bounds its sends. `ChainInv`: a handoff's
  path is the path of the handoff it continues, with that one's receiver at the end.
  `LineageSimple` speaks of a lineage, the least set of handoffs closed under `prev`,
  and needs no induction: the handoffs whose path and receiver begin the route of the
  last one are such a closed set, and so are those of the lineage that no other shares
  the number of hops with. So the lineage is among both: its handoffs are at different
  places of a route that visits no node twice.
* *Parts.* `DelegatedInv` (an end on its way is the task's), `GatewayInv`,
  `CleanupTyped`, `DialecticInv` (phases are filled from the first on), `HandlerInv`,
  `PeerInv`. `RateInv`: the bucket holds every stamp that is still in the window.
  `WindowInv`: the bucket counts the newest requests, and those a limit's worth before
  them came a window earlier. `StreamsInv`: what a client's last id means, that is,
  everything buffered up to it was seen or excused; operator ids are consecutive; a
  connected worker knows its queue. `CloseoutTells` needs no invariant but types: its
  proof is that the loop over the observations ends at the newest of each worker.

**Only model-checked.** The liveness properties `StaleClaimsReleased`,
`EveryBriefConfirmed` and `EveryTaskSettles`, since liveness under fairness and ENABLED
are out of the prover's reach, and the two violated properties. Induction theorems that
take an operator cannot be used by the installed provers. Where a proof needs induction
(the greatest place of a set, the closeout loop) it takes a least counterexample from
the well-foundedness of the naturals (`WFMin`); where it needs a transitive closure
(the lineage of a handoff) it exhibits a closed set.

## 5. Observations

Where the code and a comment or document differ, or where the code's behaviour is
easily misread, and no run is about it:

* An explicit `requiresApproval: false` lets a live-impact task through
  (`core/policy.ts:120`), which `docs/a2a-protocol.md:97` does not mention.
* A late receipt turns the audit of a confirmed outbox event back to pending
  (`core/terminal-event-outbox.ts:450`, comment at 117); the confirmation itself stands
  (`AckSticky`).
* Lanes told apart only by `parentRoundOrder` have two records and one outbox key
  (`core/terminal-event-outbox.ts:291`, `core/cross-broker-terminal-brief.ts:191`): the
  second is stored and not announced.
* A client that reconnects without an event id may be sent buffered events again
  (`server.ts:4530`, `docs/a2a-protocol.md:352`).
* The recovery projection drops a close that arrives behind its watermark, so an issue
  may stay open in the projection until the next event.
* All events of a polled batch share one delivery context, so those after the first are
  deduplicated (`github/bounded-poller.ts:215`). The fetcher is the
  embedding program's, and the server starts no poller by itself.
* A round worker that succeeded with only a Block link is listed as completed without an
  outcome class (`github/round-closeout-reconcile.ts`).
* A read-only GitHub evidence task that is also marked as source-only analysis goes to
  the analysis bridge and succeeds without a link
  (`scripts/openclaw-a2a-task-handler.mjs:242`); `SuccessHasExecutorLink` leaves it out.
* Grant evidence that names no reference is accepted by the sidecar's activation
  receipt ingestor.
* `terminal-brief-state-machine.ts` calls `failed` and `timed_out` absorbing, though its
  table lets them go on. Only tests use it.
* A late validation turns an applied or rejected proposal back into a validated one
  (`core/broker.ts:1169`): `submitValidationResult` looks at no status.

## 6. Not modelled

* *Formatting and projection*: A2A task projection and agent card, terminal-brief query,
  routing and metadata helpers, operator reports, alerts, proof matrices, dashboards.
  They read records and change none.
* *The terminal-brief state machine*, which only tests use.
* *Trading dialectic*: schemas and read models that no operation of the broker writes.
* *Release and operations scripts*: command-line tooling that reads files and health
  endpoints.
* *Left out of modelled parts*: exchange, proposal, audit and worker tables of the
  SQLite store (same writers as the task table), schema migrations; the validation of
  cross-broker packets and the sending broker; the edge secret and its rotation;
  read-only routes; the worker's home-broker lease check and session isolation; audit,
  message and artifact retention.

`PROJECT.json` gives the status of every component, and under `hazards` what can go
wrong at which line and the properties that would notice, or why none does.
