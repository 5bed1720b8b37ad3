--------------------------- MODULE OperatorCleanup ---------------------------
(***************************************************************************)
(* The operator's cleanup of the hot tables (core/broker-cleanup.ts, the   *)
(* retention plans of core/store.ts, the cleanup routes of server.ts): an  *)
(* operator reads a dry-run plan, decides, and asks for its execution with *)
(* the plan's id as approval token; the broker goes on writing rows        *)
(* meanwhile.  The execution builds the plan again from the rows as they   *)
(* then are.  A plan id is a hash of the plan: here the plan itself.       *)
(***************************************************************************)
EXTENDS Naturals, FiniteSets

CONSTANTS CuTasks, CuWorkers,  \* ids, as numbers: ties of age go to the smaller id
          CuRetention,         \* one retention for all tables, in ticks
          CuCaps,              \* maxTerminalTasks, maxInactiveWorkers, ... of a request
          CuMaxRows,           \* rows read to find the workers of active tasks (2000)
          MaxCuNow             \* bound: the clock

VARIABLES cuTasks,    \* task id -> its row: state, worker and updatedAt
          cuSeen,     \* worker id -> lastSeenAt of its row, or NoTime
          cuAudit,    \* <<table, id>> -> createdAt of the audit row about it, or NoTime
          cuEvent,    \* the time the outbox row was acknowledged, or Unacked, or NoEvent
          cuNow,
          cuPlan      \* the plan the operator has reviewed

cuVars == <<cuTasks, cuSeen, cuAudit, cuEvent, cuNow, cuPlan>>

NoTime == 99
Unacked == 98
NoEvent == 99
NoRow == [state |-> "absent", worker |-> 0, at |-> 0]
NoPlan == [opts |-> "none"]

\* A row's time is never one of the marks for "no time".
ASSUME CleanupAssumption ==
  /\ CuTasks \subseteq Nat /\ IsFiniteSet(CuTasks) /\ CuWorkers \subseteq Nat
  /\ CuRetention \in Nat /\ CuMaxRows \in Nat /\ MaxCuNow \in 0..(Unacked - 1)

Subjects == ({"task"} \X CuTasks) \cup ({"worker"} \X CuWorkers)

TaskRows == {t \in CuTasks : cuTasks[t] # NoRow}
WorkerRows == {w \in CuWorkers : cuSeen[w] # NoTime}
AuditRows == {s \in Subjects : cuAudit[s] # NoTime}

\* sort by age, newest first, then slice(0, n); before, the order of ids, breaks ties.
Newest(ids, at, before, n) ==
  {i \in ids : Cardinality({j \in ids : at[j] > at[i] \/ (at[j] = at[i] /\ <<j, i>> \in before)}) < n}

Smaller == {p \in (CuTasks \cup CuWorkers) \X (CuTasks \cup CuWorkers) : p[1] < p[2]}
SmallerSubject ==
  {p \in Subjects \X Subjects :
     IF p[1][1] = p[2][1] THEN p[1][2] < p[2][2] ELSE p[1][1] = "task"}

Expired(at, now) == at + CuRetention < now

----------------------------------------------------------------------------
(* buildBrokerCleanupPlan *)

\* readHotTasks with maxRows: the rows updated last.
ActiveWorkerIds ==
  {cuTasks[t].worker :
     t \in {u \in Newest(TaskRows, [v \in CuTasks |-> cuTasks[v].at], Smaller, CuMaxRows) :
              cuTasks[u].state = "active"}}

\* planTaskRetentionFromRecords
PruneTasks(o) ==
  LET old == {t \in TaskRows : /\ cuTasks[t].state = "terminal" /\ t \notin o.protected
                               /\ Expired(cuTasks[t].at, o.now)}
  IN old \ Newest(old, [t \in CuTasks |-> cuTasks[t].at], Smaller, o.cap)

\* planWorkerRetentionFromRecords
PruneWorkers(o) ==
  LET old == {w \in WorkerRows : w \notin ActiveWorkerIds /\ Expired(cuSeen[w], o.now)}
  IN old \ Newest(old, cuSeen, Smaller, o.cap)

\* isAuditEventProtected; rows about heartbeats are not modelled.
AuditProtected(s, prunedTasks, prunedWorkers) ==
  IF s[1] = "task" THEN s[2] \in TaskRows \ prunedTasks ELSE s[2] \in WorkerRows \ prunedWorkers

\* planAuditRetentionFromRecords: the cap holds for what is not expired.
PruneAudit(o) ==
  LET others == {s \in AuditRows : ~AuditProtected(s, PruneTasks(o), PruneWorkers(o))}
  IN others \ {s \in Newest(others, cuAudit, SmallerSubject, o.cap) : ~Expired(cuAudit[s], o.now)}

\* planTerminalOutboxRetentionFromRecords
PruneOutbox(o) == cuEvent < Unacked /\ Expired(cuEvent, o.now) /\ o.cap = 0

BuildPlan(o) ==
  [opts |-> o, tasks |-> PruneTasks(o), workers |-> PruneWorkers(o), audit |-> PruneAudit(o),
   outbox |-> PruneOutbox(o), kept |-> <<TaskRows, WorkerRows, AuditRows, cuEvent # NoEvent>>]

----------------------------------------------------------------------------
(* discoverCleanupCandidates: another look at the same records, which only *)
(* advises.  A candidate is its class, its subject and its risk; a         *)
(* threshold is the retention, and queued tasks are never malformed.       *)

HasActiveTasks(w) ==
  \E t \in TaskRows : cuTasks[t].worker = w /\ cuTasks[t].state = "active"

StaleWorkerCandidates(now) ==
  {<<"stale_worker", w, IF HasActiveTasks(w) THEN "high_risk" ELSE "caution">> :
     w \in {v \in WorkerRows : Expired(cuSeen[v], now)}}

\* An active task here may be claimed or running.
OrphanedClaims(now) ==
  {<<"orphaned_claim", t, "high_risk">> :
     t \in {u \in TaskRows : /\ cuTasks[u].state = "active"
                              /\ cuTasks[u].worker \in WorkerRows
                              /\ Expired(cuSeen[cuTasks[u].worker], now)}}

OutboxBacklog == IF cuEvent = Unacked THEN {<<"terminal_outbox_backlog", 0, "caution">>} ELSE {}

\* The cleanup writes no tombstones: the broker has, for each terminal task.
HistoricalTasks(now) ==
  {<<"historical_terminal_task", t, "safe">> :
     t \in {u \in TaskRows : cuTasks[u].state = "terminal" /\ cuTasks[u].at + CuRetention <= now}}

DiscoverCleanupCandidates(now) ==
  StaleWorkerCandidates(now) \cup OrphanedClaims(now) \cup OutboxBacklog \cup HistoricalTasks(now)

----------------------------------------------------------------------------
(* The routes.                                                             *)

Options == [now : {cuNow}, cap : CuCaps, protected : {{}, {CHOOSE t \in CuTasks : TRUE}}]

ReadPlan(o) ==
  /\ cuPlan' = BuildPlan(o)
  /\ UNCHANGED <<cuTasks, cuSeen, cuAudit, cuEvent, cuNow>>

\* Mutant: the token is not compared with the plan built for the execution.
ValidateAnyToken(plan, allowWorkerPrune) ==
  /\ plan.workers # {} => allowWorkerPrune
  /\ ~plan.outbox

\* validateCleanupExecution; confirmation and backupProof are given.
ValidateCleanupExecution(plan, allowWorkerPrune) ==
  /\ plan = cuPlan
  /\ plan.workers # {} => allowWorkerPrune
  /\ ~plan.outbox

\* Only the options of the reviewed plan can give its id again.  The rows go in
\* one transaction; the broker.cleanup.applied row is about no subject here.
Execute(allowWorkerPrune) ==
  /\ cuPlan # NoPlan
  /\ LET plan == BuildPlan(cuPlan.opts)
     IN /\ ValidateCleanupExecution(plan, allowWorkerPrune)
        /\ cuTasks' = [t \in CuTasks |-> IF t \in plan.tasks THEN NoRow ELSE cuTasks[t]]
        /\ cuSeen' = [w \in CuWorkers |-> IF w \in plan.workers THEN NoTime ELSE cuSeen[w]]
        /\ cuAudit' = [s \in Subjects |-> IF s \in plan.audit THEN NoTime ELSE cuAudit[s]]
  /\ UNCHANGED <<cuEvent, cuNow, cuPlan>>

----------------------------------------------------------------------------
(* What the broker writes from its memory, which a cleanup does not touch. *)

WriteNewTask(t, w) ==
  /\ cuTasks[t] = NoRow /\ cuAudit[<<"task", t>>] = NoTime
  /\ cuTasks' = [cuTasks EXCEPT ![t] = [state |-> "active", worker |-> w, at |-> cuNow]]
  /\ cuAudit' = [cuAudit EXCEPT ![<<"task", t>>] = cuNow]
  /\ UNCHANGED <<cuSeen, cuEvent, cuNow, cuPlan>>

WriteTerminalTask(t) ==
  /\ cuTasks[t].state = "active"
  /\ cuTasks' = [cuTasks EXCEPT ![t].state = "terminal", ![t].at = cuNow]
  /\ cuEvent' = IF cuEvent = NoEvent THEN Unacked ELSE cuEvent
  /\ UNCHANGED <<cuSeen, cuAudit, cuNow, cuPlan>>

WriteHeartbeat(w) ==
  /\ cuSeen[w] # cuNow
  /\ cuSeen' = [cuSeen EXCEPT ![w] = cuNow]
  /\ UNCHANGED <<cuTasks, cuAudit, cuEvent, cuNow, cuPlan>>

WriteAck ==
  /\ cuEvent = Unacked
  /\ cuEvent' = cuNow
  /\ UNCHANGED <<cuTasks, cuSeen, cuAudit, cuNow, cuPlan>>

CleanupTick ==
  /\ cuNow < MaxCuNow
  /\ cuNow' = cuNow + 1
  /\ UNCHANGED <<cuTasks, cuSeen, cuAudit, cuEvent, cuPlan>>

CleanupInit ==
  /\ cuTasks = [t \in CuTasks |-> NoRow]
  /\ cuSeen = [w \in CuWorkers |-> 0]
  /\ cuAudit = [s \in Subjects |-> IF s[1] = "worker" THEN 0 ELSE NoTime]
  /\ cuEvent = NoEvent /\ cuNow = 0 /\ cuPlan = NoPlan

CleanupNext ==
  \/ \E o \in Options : ReadPlan(o)
  \/ \E allow \in BOOLEAN : Execute(allow)
  \/ \E t \in CuTasks : WriteTerminalTask(t) \/ \E w \in CuWorkers : WriteNewTask(t, w)
  \/ \E w \in CuWorkers : WriteHeartbeat(w)
  \/ WriteAck \/ CleanupTick

CleanupSpec == CleanupInit /\ [][CleanupNext]_cuVars

----------------------------------------------------------------------------
\* What a cleanup removes is what the operator has read in the plan it
\* approved, although rows were written between the reading and the
\* execution: a row that has come back to life since, or one that has only
\* now expired, is not among them (the approval token).
PrunedWasReviewed ==
  /\ \A t \in TaskRows : cuTasks'[t] = NoRow => t \in cuPlan.tasks
  /\ \A w \in WorkerRows : cuSeen'[w] = NoTime => w \in cuPlan.workers
  /\ \A s \in AuditRows : cuAudit'[s] = NoTime => s \in cuPlan.audit

\* A cleanup never takes the worker of a task that is still active, however
\* long that worker has been silent (protectedWorkerIds).
HeldWorkersStay ==
  \A t \in TaskRows :
       cuTasks[t].state = "active" /\ cuTasks[t].worker \in WorkerRows
       => cuSeen'[cuTasks[t].worker] # NoTime

\* The two views an operator has agree: whatever a plan would prune, the
\* discovery reports too, and never as high risk; a worker it calls high risk
\* and a task it calls an orphaned claim are in no plan
\* (discoverCleanupCandidates, buildBrokerCleanupPlan).
PlansAgreeWithDiscovery ==
  \A o \in Options :
     LET found == DiscoverCleanupCandidates(o.now)
     IN /\ \A w \in PruneWorkers(o) : <<"stale_worker", w, "caution">> \in found
        /\ \A t \in PruneTasks(o) : <<"historical_terminal_task", t, "safe">> \in found
        /\ PruneOutbox(o) => OutboxBacklog = {}

\* No cleanup takes the audit row about a task or a worker that it leaves in
\* its table (protectedIds: the audit plan is made from the other plans).
RetainedHasAudit ==
  \A s \in AuditRows :
       cuAudit'[s] = NoTime => IF s[1] = "task" THEN cuTasks'[s[2]] = NoRow
                               ELSE cuSeen'[s[2]] = NoTime

\* An executed cleanup is the one the operator reviewed, takes nothing an active
\* task or a retained record needs, and nothing the discovery warns of.
CleanupIsSafe ==
  [][/\ cuVars' # cuVars => PrunedWasReviewed /\ HeldWorkersStay /\ RetainedHasAudit
     /\ cuPlan' # cuPlan => PlansAgreeWithDiscovery]_cuVars
=============================================================================
