------------------------------- MODULE Broker -------------------------------
(***************************************************************************)
(* The in-memory A2A broker (class InMemoryA2ABroker, src/core/broker.ts)  *)
(* over a state store that saves the whole snapshot (the JSON file store). *)
(* Node runs a handler to completion, so every handler is one action; the  *)
(* processes that interleave are the requesters, the workers, the          *)
(* operators, the stale reaper's timer, the clock and crashes.  A request  *)
(* the code answers with an error and no change is not an action.          *)
(***************************************************************************)
EXTENDS BrokerRecords, Sequences

CONSTANTS
    Intents,      \* intents that requests use
    Asks,         \* policyContext.requiresApproval values that requests use
    Flags,        \* whether requests set liveImpact / targetEnvironment = "live"
    Parents,      \* parentTaskId values that requests use
    Wakes,        \* wake requests in use: subset of {"plan"}
    Decisions,    \* decisions that exchange messages carry ("none" for no decision)
    Ages,         \* which ages elapse: subset of {"worker", "held", "retention"}
    MaxLives      \* bound: how often one task id goes through a whole life

ASSUME InputAssumption ==
    /\ Intents \subseteq Intent
    /\ Asks \subseteq Ask
    /\ Flags \subseteq BOOLEAN
    /\ Parents \subseteq Opt(Tasks)
    /\ MaxLives \in Nat

VARIABLES
    tasks, workers, exchanges, proposals,   \* the broker's Maps
    tombstones,   \* task id -> reason of its tombstone
    outbox,       \* task id -> terminal statuses announced to the terminal outbox
    disk          \* the saved snapshot, where it can differ from memory

vars == <<tasks, workers, exchanges, proposals, tombstones, outbox, disk>>

(* The records are of their types, and only a terminal status is ever      *)
(* announced (appendAuditEvent).                                           *)
TypeOK ==
    /\ tasks \in [Tasks -> Task]
    /\ workers \in [Workers -> WorkerStatus]
    /\ exchanges \in [Exchanges -> Exchange]
    /\ proposals \in [Proposals -> Proposal]
    /\ tombstones \in [Tasks -> Tombstone]
    /\ outbox \in [Tasks -> Seq(TerminalStatus)]
    /\ disk \in [exchanges: [Exchanges -> Exchange], tombstones: [Tasks -> Tombstone]]

Init ==
    /\ tasks = [t \in Tasks |-> NoTask]
    /\ workers = [w \in Workers |-> "none"]
    /\ exchanges = [e \in Exchanges |-> NoExchange]
    /\ proposals = [p \in Proposals |-> NoProposal]
    /\ tombstones = [t \in Tasks |-> "none"]
    /\ outbox = [t \in Tasks |-> <<>>]
    /\ disk = [exchanges |-> exchanges, tombstones |-> tombstones]

Registered(w) == workers[w] # "none"

-----------------------------------------------------------------------------
(* persistState: retention over the Maps a handler has just written, then  *)
(* the snapshot is saved with the tombstones that exist at that moment.    *)

Retained(S, expired, kept) == {x \in S : x \notin expired \/ x \in kept}

SaveRetained(T, E, P, W, tombs, retT, retE, retP, retW) ==
    /\ tasks' = [t \in Tasks |-> IF t \in retT THEN T[t] ELSE NoTask]
    /\ exchanges' = [e \in Exchanges |-> IF e \in retE THEN E[e] ELSE NoExchange]
    /\ proposals' = [p \in Proposals |-> IF p \in retP THEN P[p] ELSE NoProposal]
    /\ workers' = [w \in Workers |-> IF w \in retW THEN W[w] ELSE "none"]
    /\ disk' = [exchanges |-> exchanges', tombstones |-> tombs]

RetainWorkers(T, E, P, W, tombs, retT, retE, retP) ==
    LET expired == ExpiredWorkers(W, ProtectedWorkers(T, E, P, retT, retE, retP))
    IN \E kept \in KeptOf(expired, MaxInactiveWorkers) :
          SaveRetained(T, E, P, W, tombs, retT, retE, retP, Retained(Workers, expired, kept))

RetainProposals(T, E, P, W, tombs, retT, retE) ==
    LET expired == ExpiredProposals(T, P, retT)
    IN \E kept \in KeptOf(expired, MaxTerminalProposals) :
          RetainWorkers(T, E, P, W, tombs, retT, retE, Retained(Proposals, expired, kept))

(* A retained task retains its exchange.                                   *)
RetainTasks(T, E, P, W, tombs, ownE) ==
    LET expired == ExpiredTasks(T, E, ownE)
    IN \E kept \in KeptOf(expired, MaxTerminalTasks) :
          LET retT == Retained(Tasks, expired, kept)
          IN RetainProposals(T, E, P, W, tombs, retT,
                 ownE \cup {e \in Exchanges : \E t \in retT : T[t].exchange = e})

Persist(T, E, P, W, tombs) ==
    LET expired == ExpiredExchanges(E)
    IN \E kept \in KeptOf(expired, MaxTerminalExchanges) :
          RetainTasks(T, E, P, W, tombs, Retained(Exchanges, expired, kept))

(* A handler that changes only tasks and exchanges.                        *)
PersistTasks(T, E) == Persist(T, E, proposals, workers, tombstones)

(* Mutant: the assigned worker is not written to the exchange.            *)
SyncedTargetOnly(x, t, r, status) ==
    [x EXCEPT !.active = t, !.target = r.target, !.status = status, !.fresh = TRUE]

(* syncExchangeStateFromTask, on the exchange record x of task t.          *)
Synced(x, t, r, status) ==
    [x EXCEPT !.active = t, !.target = r.target, !.assigned = Assignee(r),
              !.status = status, !.fresh = TRUE]

(* linkTaskToExchange: the same without the status.                        *)
Linked(x, t, r) == Synced(x, t, r, x.status)

SyncExchange(t, r, status) ==
    [e \in Exchanges |->
        IF r.exchange = e /\ exchanges[e].status # "none"
        THEN Synced(exchanges[e], t, r, status) ELSE exchanges[e]]

(* One task t takes the value r, its exchange the given status.            *)
UpdateTask(t, r, status) ==
    PersistTasks([tasks EXCEPT ![t] = r], SyncExchange(t, r, status))

(* Mutant: failures are not announced.                                    *)
AnnounceUnlessFailed(S, status) ==
    outbox' = [t \in Tasks |-> IF t \in S /\ status # "failed"
                               THEN Append(outbox[t], status) ELSE outbox[t]]

(* appendAuditEvent, for the audit kinds the terminal outbox takes.        *)
Announce(S, status) ==
    outbox' = [t \in Tasks |-> IF t \in S THEN Append(outbox[t], status) ELSE outbox[t]]

WriteTombstones(S, reason) ==
    [t \in Tasks |-> IF t \in S THEN reason ELSE tombstones[t]]

-----------------------------------------------------------------------------
(* Workers.                                                                *)

RegisterWorker(w) ==
    /\ Persist(tasks, exchanges, proposals, [workers EXCEPT ![w] = "seen"], tombstones)
    /\ UNCHANGED <<tombstones, outbox>>

(* heartbeatWorker: unless workerHeartbeatPersistIntervalMs has passed     *)
(* since the last saved one, the heartbeat stays in memory.                *)
HeartbeatWorker(w) ==
    /\ Registered(w)
    /\ LET W == [workers EXCEPT ![w] = "seen"]
       IN \/ Persist(tasks, exchanges, proposals, W, tombstones)
          \/ workers' = W /\ UNCHANGED <<tasks, exchanges, proposals, disk>>
    /\ UNCHANGED <<tombstones, outbox>>

-----------------------------------------------------------------------------
(* Tasks: creation, payload, wake.                                         *)

(* assertTaskProposalLink.                                                 *)
ProposalLinkOK(p, intent, target) ==
    p # None =>
        /\ proposals[p].status # "none"
        /\ proposals[p].target = target
        /\ intent = "validate_change" => proposals[p].status \in {"submitted", "validated"}
        /\ intent = "apply_local_change" => proposals[p].status = "approved"

NewTask(parent, e, intent, p, target, assigned, flagged, ask) ==
    LET gated == RequiresApproval(intent, flagged, target, ask)
    IN [NoTask EXCEPT
          !.status = IF gated THEN "blocked" ELSE "queued",
          !.parent = parent, !.exchange = e, !.intent = intent, !.proposal = p,
          !.target = target, !.assigned = assigned,
          !.live = LiveImpact(intent, flagged, target), !.gated = gated]

LinkExchange(t, r) ==
    [e \in Exchanges |-> IF r.exchange = e THEN Linked(exchanges[e], t, r) ELSE exchanges[e]]

(* createTask.  An id that exists already is answered with its record; the *)
(* parent is not looked up.                                                *)
CreateTask(t) ==
    /\ tasks[t].status = "none"
    /\ Len(outbox[t]) < MaxLives
    /\ \E parent \in Parents, e \in Opt(Exchanges), intent \in Intents,
          p \in Opt(Proposals), target, assigned \in Workers,
          flagged \in Flags, ask \in Asks :
          LET r == NewTask(parent, e, intent, p, target, assigned, flagged, ask)
          IN /\ e # None => exchanges[e].status # "none"
             /\ Registered(target) /\ Registered(assigned)
             /\ ProposalLinkOK(p, intent, target)
             /\ PersistTasks([tasks EXCEPT ![t] = r], LinkExchange(t, r))
    /\ UNCHANGED <<tombstones, outbox>>

(* Touch: updatedAt moves; completedAt, which is what counts for a         *)
(* terminal task, does not.                                                *)
Touched(r) == IF IsTerminal(r) THEN r ELSE [r EXCEPT !.fresh = TRUE]

(* updateTaskPayload has no status guard.                                  *)
UpdateTaskPayload(t) ==
    /\ tasks[t].status # "none"
    /\ PersistTasks([tasks EXCEPT ![t] = Touched(@)], exchanges)
    /\ UNCHANGED <<tombstones, outbox>>

(* planAcceptedTaskWake: a replay with the same key only counts.           *)
PlanAcceptedTaskWake(t) ==
    /\ Wakes # {}
    /\ IsLive(tasks[t])
    /\ PersistTasks([tasks EXCEPT ![t] =
            IF @.wake = "none" THEN [Touched(@) EXCEPT !.wake = "planned"] ELSE @], exchanges)
    /\ UNCHANGED <<tombstones, outbox>>

RecordTaskWakeDecision(t) ==
    /\ tasks[t].wake = "planned"
    /\ PersistTasks([tasks EXCEPT ![t] = [Touched(@) EXCEPT !.wake = "decided"]], exchanges)
    /\ UNCHANGED <<tombstones, outbox>>

-----------------------------------------------------------------------------
(* Tasks: operators.                                                       *)

(* Mutant: a reassigned task is queued without its approval.              *)
ReassignedQueued(r, target, assigned) ==
    [r EXCEPT !.target = target, !.assigned = assigned, !.status = "queued",
              !.claimedBy = None, !.attempt = FALSE, !.requeues = 0,
              !.result = FALSE, !.error = "none", !.fresh = TRUE]

(* The record reassignTask writes; requeueCount starts again from 0.       *)
Reassigned(r, target, assigned) ==
    [r EXCEPT !.target = target, !.assigned = assigned,
              !.status = IF r.gated /\ ~r.approved THEN "blocked" ELSE "queued",
              !.claimedBy = None, !.attempt = FALSE, !.requeues = 0,
              !.result = FALSE, !.error = "none", !.fresh = TRUE]

ReassignTask(t) ==
    /\ IsLive(tasks[t])
    /\ \E target, assigned \in Workers :
          /\ Registered(target) /\ Registered(assigned)
          /\ UpdateTask(t, Reassigned(tasks[t], target, assigned), "queued")
    /\ UNCHANGED <<tombstones, outbox>>

ApproveTask(t) ==
    /\ tasks[t].gated /\ ~tasks[t].approved
    /\ tasks[t].status \in {"blocked", "queued"}
    /\ UpdateTask(t, [tasks[t] EXCEPT !.approved = TRUE, !.outcome = "approved",
                                      !.status = "queued", !.fresh = TRUE], "queued")
    /\ UNCHANGED <<tombstones, outbox>>

(* Mutant: terminal children are not skipped.                             *)
AllChildren(t) == {c \in Tasks : tasks[c].parent = t /\ tasks[c].status # "none"}

(* listChildTasks, without the ones cancelTaskTree skips.                  *)
LiveChildren(t) == {c \in Tasks : tasks[c].parent = t /\ IsLive(tasks[c])}

(* The tasks cancelTaskTree(t) reaches: the smallest set with t that is    *)
(* closed under live children.  A terminal child is not descended into.    *)
CancelTree(t) ==
    {c \in Tasks : \A S \in SUBSET Tasks :
        (t \in S /\ \A s \in S : LiveChildren(s) \subseteq S) => c \in S}

(* cancelTaskRecord; attemptId stays.                                      *)
Canceled(r, from) ==
    [r EXCEPT !.status = "canceled", !.claimedBy = None, !.result = FALSE,
              !.error = "none", !.canceledFrom = from, !.fresh = TRUE]

(* T after the records of the tree members S were canceled.                *)
CancelRecords(T, root, S) ==
    [c \in Tasks |-> IF c \in S
                     THEN Canceled(T[c], IF c = root THEN "request" ELSE T[c].parent)
                     ELSE T[c]]

(* Exchanges when the tasks S are synchronised one after the other: the    *)
(* last one written wins.                                                  *)
LastWritten(T, S) ==
    {last \in [Exchanges -> Opt(S)] : \A e \in Exchanges :
        LET mine == {t \in S : T[t].exchange = e}
        IN IF mine = {} THEN last[e] = None ELSE last[e] \in mine}

SyncLast(T, last, status) ==
    [e \in Exchanges |->
        IF last[e] = None \/ exchanges[e].status = "none" THEN exchanges[e]
        ELSE Synced(exchanges[e], last[e], T[last[e]], status[last[e]])]

(* cancelTaskTree writes a child after its parent.                         *)
ParentsFirst(T, root, S, last) ==
    \A e \in Exchanges, c \in S \ {root} :
        T[c].exchange = e => T[c].parent # last[e]

(* The Maps after the tree members S of root were canceled, saved with the *)
(* given tombstones.                                                       *)
CancelMembers(root, T, S, tombs) ==
    LET C == CancelRecords(T, root, S)
    IN \E last \in LastWritten(C, S) :
          /\ ParentsFirst(C, root, S, last)
          /\ Persist(C, SyncLast(C, last, [c \in Tasks |-> "queued"]),
                     proposals, workers, tombs)

(* Each record's tombstone is written after the save of that record, so    *)
(* the last tombstone of the tree waits for the next save.                 *)
CancelTask(t) ==
    /\ IsLive(tasks[t])
    /\ \E final \in CancelTree(t) :
          /\ LiveChildren(final) \subseteq {t}
          /\ CancelMembers(t, tasks, CancelTree(t),
                           WriteTombstones(CancelTree(t) \ {final}, "canceled"))
    /\ tombstones' = WriteTombstones(CancelTree(t), "canceled")
    /\ Announce(CancelTree(t), "canceled")

(* rejectTaskApproval: the outcome is set, the tree canceled, and the      *)
(* state saved once more, the last tombstone included.                     *)
RejectTaskApproval(t) ==
    /\ tasks[t].gated /\ ~tasks[t].approved /\ tasks[t].outcome = "none"
    /\ tasks[t].status \in {"blocked", "queued"}
    /\ LET T == [tasks EXCEPT ![t].outcome = "refused"]
       IN CancelMembers(t, T, CancelTree(t), WriteTombstones(CancelTree(t), "canceled"))
    /\ tombstones' = WriteTombstones(CancelTree(t), "canceled")
    /\ Announce(CancelTree(t), "canceled")

-----------------------------------------------------------------------------
(* Tasks: workers.  brokerOfRecord and teamId are those of this broker.    *)

AssertTaskWorker(r, w) ==
    /\ Registered(w)
    /\ w = Assignee(r)
    /\ r.claimedBy \in {None, w}

(* requiresApproval === true && !approval denies a claim.                  *)
ApprovalSatisfied(r) == r.gated => r.approved

ClaimTask(t, w) ==
    /\ AssertTaskWorker(tasks[t], w)
    /\ ApprovalSatisfied(tasks[t])
    /\ tasks[t].status = "queued"
    /\ UpdateTask(t, [tasks[t] EXCEPT !.status = "claimed", !.attempt = TRUE,
                                      !.claimedBy = w, !.fresh = TRUE], "running")
    /\ UNCHANGED <<tombstones, outbox>>

StartTask(t, w) ==
    /\ AssertTaskWorker(tasks[t], w)
    /\ tasks[t].status = "claimed"
    /\ UpdateTask(t, [tasks[t] EXCEPT !.status = "running", !.fresh = TRUE], "running")
    /\ UNCHANGED <<tombstones, outbox>>

HeartbeatTask(t, w) ==
    /\ AssertTaskWorker(tasks[t], w)
    /\ IsHeld(tasks[t])
    /\ PersistTasks([tasks EXCEPT ![t].fresh = TRUE], exchanges)
    /\ UNCHANGED <<tombstones, outbox>>

(* assertProposalApplyAllowed for the actor id w with the given role.      *)
ApplyAllowed(p, w, role) ==
    \/ role = "operator"
    \/ /\ w = proposals[p].target
       /\ ~(role = "researcher" /\ Role[proposals[p].target] = "live-trader")

(* Mutant: the status of the proposal is not looked at.                   *)
CompletionAllowedAnyStatus(r, w) ==
    r.proposal # None =>
        /\ r.intent = "validate_change" => proposals[r.proposal].status # "none"
        /\ r.intent = "apply_local_change" => ApplyAllowed(r.proposal, w, Role[r.target])

(* applyTaskCompletion: what submitValidationResult and                    *)
(* applyProposalLocally demand of worker w, and the proposals afterwards.  *)
(* The proposal is saved before the task changes: a crash in between       *)
(* leaves the state of a direct apply or validation followed by a restart. *)
CompletionAllowed(r, w) ==
    r.proposal # None =>
        /\ r.intent = "validate_change" => proposals[r.proposal].status # "none"
        /\ r.intent = "apply_local_change" =>
              /\ proposals[r.proposal].status = "approved"
              /\ ApplyAllowed(r.proposal, w, Role[r.target])

CompletedProposals(r) ==
    IF r.proposal # None /\ r.intent = "validate_change"
    THEN [proposals EXCEPT ![r.proposal].status = "validated", ![r.proposal].fresh = TRUE]
    ELSE IF r.proposal # None /\ r.intent = "apply_local_change"
    THEN [proposals EXCEPT ![r.proposal].status = "applied", ![r.proposal].fresh = TRUE]
    ELSE proposals

(* A completion of a terminal task is answered with its record.            *)
CompleteTask(t, w) ==
    /\ AssertTaskWorker(tasks[t], w)
    /\ IsHeld(tasks[t])
    /\ CompletionAllowed(tasks[t], w)
    /\ LET r == [tasks[t] EXCEPT !.status = "succeeded", !.claimedBy = w, !.result = TRUE,
                                 !.error = "none", !.fresh = TRUE]
       IN Persist([tasks EXCEPT ![t] = r], SyncExchange(t, r, "completed"),
                  CompletedProposals(r), workers, tombstones)
    /\ Announce({t}, "succeeded")
    /\ UNCHANGED tombstones

(* Mutant: a late failure overrides a success.                            *)
FailTaskLate(t, w) ==
    /\ AssertTaskWorker(tasks[t], w)
    /\ tasks[t].status \in HeldStatus \cup {"succeeded"}
    /\ UpdateTask(t, [tasks[t] EXCEPT !.status = "failed", !.claimedBy = w,
                                      !.error = "worker", !.fresh = TRUE], "failed")
    /\ tombstones' = WriteTombstones({t}, "failed")
    /\ Announce({t}, "failed")

(* The tombstone is written after the save.                                *)
FailTask(t, w) ==
    /\ AssertTaskWorker(tasks[t], w)
    /\ IsHeld(tasks[t])
    /\ UpdateTask(t, [tasks[t] EXCEPT !.status = "failed", !.claimedBy = w,
                                      !.error = "worker", !.fresh = TRUE], "failed")
    /\ tombstones' = WriteTombstones({t}, "failed")
    /\ Announce({t}, "failed")

-----------------------------------------------------------------------------
(* requeueStaleTasksDetailed: one sweep over all tasks, one save at the    *)
(* end.  The reaper's timer uses the configured threshold; an operator's   *)
(* POST /tasks/requeue_stale may pass any, 0 included.                     *)

StaleWorkers == {w \in Workers : workers[w] \in {"stale", "expired"}}

(* Mutant: the worker's own heartbeat is not looked at.                   *)
RequeueReasonSilentOnly(r, threshold) == IsHeld(r) /\ (~r.fresh \/ threshold = "zero")

RequeueReason(r, threshold) ==
    /\ IsHeld(r)
    /\ \/ r.claimedBy \in StaleWorkers
       \/ ~r.fresh
       \/ threshold = "zero"

(* Mutant: off by one.                                                    *)
ExhaustedLate(r) == MaxRequeueAttempts > 0 /\ r.requeues > MaxRequeueAttempts

Exhausted(r) == MaxRequeueAttempts > 0 /\ r.requeues >= MaxRequeueAttempts

(* Mutant: a status of its own for dead letters.                          *)
DeadLetteredStatus(r) ==
    [r EXCEPT !.status = "dead_lettered", !.error = "exceeded_requeue_limit", !.fresh = TRUE]

(* The dead-lettered record keeps claimedBy and attemptId.                 *)
DeadLettered(r) ==
    [r EXCEPT !.status = "failed", !.error = "exceeded_requeue_limit", !.fresh = TRUE]

(* Mutant: the last holder stays in claimedBy.                            *)
RequeuedStillClaimed(r) ==
    [r EXCEPT !.status = "queued", !.attempt = FALSE, !.requeues = @ + 1, !.fresh = TRUE]

Requeued(r) ==
    [r EXCEPT !.status = "queued", !.claimedBy = None, !.attempt = FALSE,
              !.requeues = @ + 1, !.fresh = TRUE]

Swept(r) == IF Exhausted(r) THEN DeadLettered(r) ELSE Requeued(r)

RequeueStaleTasks(threshold) ==
    LET S == {t \in Tasks : RequeueReason(tasks[t], threshold)}
        D == {t \in S : Exhausted(tasks[t])}
        T == [t \in Tasks |-> IF t \in S THEN Swept(tasks[t]) ELSE tasks[t]]
        status == [t \in Tasks |-> IF t \in D THEN "failed" ELSE "queued"]
    IN /\ S # {}
       /\ \E last \in LastWritten(T, S) :
             Persist(T, SyncLast(T, last, status), proposals, workers,
                     WriteTombstones(D, "dead_lettered"))
       /\ tombstones' = WriteTombstones(D, "dead_lettered")
       /\ Announce(D, "failed")

StaleReaperSweep == RequeueStaleTasks("configured")

-----------------------------------------------------------------------------
(* Exchanges.                                                              *)

(* startExchange does not look the target up.                              *)
StartExchange(e) ==
    /\ exchanges[e].status = "none"
    /\ \E target \in Workers, intent \in Intents :
          Persist(tasks, [exchanges EXCEPT ![e] = [NoExchange EXCEPT
                    !.status = "queued", !.target = target, !.intent = intent]],
                  proposals, workers, tombstones)
    /\ UNCHANGED <<tombstones, outbox>>

(* ensureExchangeTask on the message's working copy x of exchange e, ending *)
(* in the given status.  privileged: the actor is a hub or an operator.    *)
ReusesTask(x) == x.active # None /\ IsLive(tasks[x.active])

Reroutes(x) == \/ tasks[x.active].target # x.target
               \/ tasks[x.active].assigned # Assignee(x)

EnsureExchangeTask(e, x, status) ==
    IF ReusesTask(x)
    THEN LET r == IF Reroutes(x)
                  THEN Reassigned(tasks[x.active], x.target, Assignee(x))
                  ELSE tasks[x.active]
         IN PersistTasks([tasks EXCEPT ![x.active] = r],
                         [exchanges EXCEPT ![e] = [x EXCEPT !.status = status,
                             !.assigned = IF Reroutes(x) THEN Assignee(x) ELSE @]])
    ELSE \E t \in Tasks :
            LET r == NewTask(None, e, x.intent, None, x.target, Assignee(x), FALSE, "unset")
            IN /\ tasks[t].status = "none" /\ Len(outbox[t]) < MaxLives
               /\ PersistTasks([tasks EXCEPT ![t] = r],
                      [exchanges EXCEPT ![e] = [Linked(x, t, r) EXCEPT !.status = status]])

(* cancelActiveExchangeTask: the record alone, without its descendants;    *)
(* the message's own save covers the tombstone.                            *)
CancelActiveExchangeTask(e, x, status) ==
    LET S == IF ReusesTask(x) THEN {x.active} ELSE {}
        C == CancelRecords(tasks, x.active, S)
        y == IF S # {} THEN Synced(x, x.active, C[x.active], status) ELSE [x EXCEPT !.status = status]
    IN /\ Persist(C, [exchanges EXCEPT ![e] = y], proposals, workers,
                  WriteTombstones(S, "canceled"))
       /\ tombstones' = WriteTombstones(S, "canceled")
       /\ Announce(S, "canceled")

(* The exchange with the target and assignee a message names, and what     *)
(* applyExchangeMessageDecision makes of it before it ensures a task.      *)
Addressed(x, target, assigned) ==
    [x EXCEPT !.target = IF target # None THEN target ELSE @,
              !.assigned = IF assigned # None THEN assigned ELSE @, !.fresh = TRUE]

Accepted(x) == [x EXCEPT !.assigned = Assignee(x), !.status = "running"]

(* addExchangeMessage.  A message that names no target carries the target  *)
(* of the exchange, so even one without a decision ensures a task.  When   *)
(* ensureExchangeTask throws, the exchange in memory has been written and  *)
(* nothing is saved.                                                       *)
AddExchangeMessage(e) ==
    /\ exchanges[e].status # "none"
    /\ \E privileged \in BOOLEAN, target, assigned \in Opt(Workers), decision \in Decisions :
          LET x == Addressed(exchanges[e], target, assigned)
              y == IF decision = "accepted" THEN Accepted(x) ELSE x
              ensured == /\ Registered(Assignee(x)) /\ Registered(x.target)
                         /\ ReusesTask(x) /\ Reroutes(x) => privileged
          IN /\ ~privileged => target = None /\ assigned = None
             /\ target # None => Registered(target)
             /\ assigned # None => Registered(assigned)
             /\ \/ /\ decision \in {"none", "accepted"} /\ ensured
                   /\ EnsureExchangeTask(e, y, IF decision = "none" THEN "queued" ELSE "running")
                   /\ UNCHANGED <<tombstones, outbox>>
                \/ /\ decision \in {"none", "accepted"} /\ ~ensured
                   /\ exchanges' = [exchanges EXCEPT ![e] = y]
                   /\ UNCHANGED <<tasks, workers, proposals, tombstones, outbox, disk>>
                \/ /\ decision = "needs_clarification"
                   /\ CancelActiveExchangeTask(e, x, "queued")
                \/ /\ decision = "declined"
                   /\ CancelActiveExchangeTask(e, x, "failed")

-----------------------------------------------------------------------------
(* Proposals.  For every status change some actor is allowed: the target   *)
(* node or an operator.                                                    *)

SetProposal(p, status) ==
    /\ Persist(tasks, exchanges,
               [proposals EXCEPT ![p].status = status, ![p].fresh = TRUE], workers, tombstones)
    /\ UNCHANGED <<tombstones, outbox>>

CreateProposal(p) ==
    /\ proposals[p].status = "none"
    /\ \E source, target \in Workers :
          Persist(tasks, exchanges,
                  [proposals EXCEPT ![p] = [NoProposal EXCEPT
                      !.status = "submitted", !.source = source, !.target = target]],
                  workers, tombstones)
    /\ UNCHANGED <<tombstones, outbox>>

AttachArtifact(p) ==
    proposals[p].status # "none" /\ SetProposal(p, proposals[p].status)

(* submitValidationResult looks at the node, not at the status.            *)
SubmitValidationResult(p) ==
    proposals[p].status # "none" /\ SetProposal(p, "validated")

ApproveProposal(p) ==
    proposals[p].status \in {"submitted", "validated"} /\ SetProposal(p, "approved")

RejectProposal(p) ==
    proposals[p].status \in {"submitted", "validated"} /\ SetProposal(p, "rejected")

ApplyProposalLocally(p) ==
    proposals[p].status = "approved" /\ SetProposal(p, "applied")

-----------------------------------------------------------------------------
(* The clock, and crashes.                                                 *)

WorkerAges(w) ==
    /\ \/ workers[w] = "seen" /\ "worker" \in Ages
       \/ workers[w] = "stale" /\ "retention" \in Ages
    /\ workers' = [workers EXCEPT ![w] = IF @ = "seen" THEN "stale" ELSE "expired"]
    /\ UNCHANGED <<tasks, exchanges, proposals, tombstones, outbox, disk>>

(* Only a held or terminal task's age is ever looked at.                   *)
TaskAges(t) ==
    /\ \/ IsHeld(tasks[t]) /\ "held" \in Ages
       \/ IsTerminal(tasks[t]) /\ "retention" \in Ages
    /\ tasks[t].fresh
    /\ tasks' = [tasks EXCEPT ![t].fresh = FALSE]
    /\ UNCHANGED <<workers, exchanges, proposals, tombstones, outbox, disk>>

ExchangeAges(e) ==
    /\ "retention" \in Ages
    /\ exchanges[e].status \in TerminalExchangeStatus /\ exchanges[e].fresh
    /\ exchanges' = [exchanges EXCEPT ![e].fresh = FALSE]
    /\ disk' = [disk EXCEPT !.exchanges[e].fresh = FALSE]
    /\ UNCHANGED <<tasks, workers, proposals, tombstones, outbox>>

ProposalAges(p) ==
    /\ "retention" \in Ages
    /\ proposals[p].status \in TerminalProposalStatus /\ proposals[p].fresh
    /\ proposals' = [proposals EXCEPT ![p].fresh = FALSE]
    /\ UNCHANGED <<tasks, workers, exchanges, tombstones, outbox, disk>>

(* Crash between handlers, then loadSnapshot with its retention pass.      *)
(* Heartbeats that were not saved are lost; WorkerAges covers that.        *)
Restart ==
    /\ Persist(tasks, disk.exchanges, proposals, workers, disk.tombstones)
    /\ tombstones' = disk.tombstones
    /\ UNCHANGED outbox

(* A depth-first walk of the tree of t that stopped after the members S.   *)
CancelPrefix(t, S) ==
    /\ t \in S
    /\ \A c \in S \ {t} : tasks[c].parent \in S
    /\ \A c, d \in S \ {t} : c # d /\ tasks[c].parent = tasks[d].parent =>
          CancelTree(c) \subseteq S \/ CancelTree(d) \subseteq S

(* Crash inside cancelTaskTree: some of the tree is saved as canceled, the *)
(* rest is not, and the tombstone of the last member saved is lost.        *)
CrashDuringCancel(t) ==
    /\ IsLive(tasks[t])
    /\ \E S \in SUBSET CancelTree(t), final \in CancelTree(t) :
          /\ CancelPrefix(t, S) /\ final \in S
          /\ \A c \in S \ {t} : tasks[c].parent # final
          /\ CancelMembers(t, tasks, S, WriteTombstones(S \ {final}, "canceled"))
          /\ tombstones' = WriteTombstones(S \ {final}, "canceled")
          /\ Announce(S, "canceled")

-----------------------------------------------------------------------------
WorkerNext == \E w \in Workers :
    \/ RegisterWorker(w) \/ HeartbeatWorker(w)
    \/ \E t \in Tasks : \/ ClaimTask(t, w) \/ StartTask(t, w) \/ HeartbeatTask(t, w)
                        \/ CompleteTask(t, w) \/ FailTask(t, w)

RequestNext == \E t \in Tasks :
    \/ CreateTask(t) \/ UpdateTaskPayload(t) \/ PlanAcceptedTaskWake(t)
    \/ RecordTaskWakeDecision(t) \/ CancelTask(t)

OperatorNext ==
    \/ \E t \in Tasks : ReassignTask(t) \/ ApproveTask(t) \/ RejectTaskApproval(t)
    \/ RequeueStaleTasks("zero")

ExchangeNext == \E e \in Exchanges : StartExchange(e) \/ AddExchangeMessage(e)

ProposalNext == \E p \in Proposals :
    \/ CreateProposal(p) \/ AttachArtifact(p) \/ SubmitValidationResult(p)
    \/ ApproveProposal(p) \/ RejectProposal(p) \/ ApplyProposalLocally(p)

ClockNext ==
    \/ \E w \in Workers : WorkerAges(w)
    \/ \E t \in Tasks : TaskAges(t)
    \/ \E e \in Exchanges : ExchangeAges(e)
    \/ \E p \in Proposals : ProposalAges(p)

CrashNext == Restart \/ \E t \in Tasks : CrashDuringCancel(t)

Next == \/ WorkerNext \/ RequestNext \/ OperatorNext \/ ExchangeNext \/ ProposalNext
        \/ StaleReaperSweep \/ ClockNext \/ CrashNext

Spec == Init /\ [][Next]_vars

(* The reaper is a setInterval timer that survives a failing sweep.        *)
FairSpec == Spec /\ WF_vars(StaleReaperSweep)

-----------------------------------------------------------------------------
(* Safety.                                                                 *)

(* A task that requires approval and has none was never attempted: it sits *)
(* in "blocked" or was canceled; and a task whose approval was refused is  *)
(* canceled for good (createTask, reassignTask, approveTask,               *)
(* rejectTaskApproval, claimTask and the reaper together).                 *)
GateOK(r) ==
    /\ r.gated /\ ~r.approved => r.status \in {"blocked", "canceled"} /\ ~r.attempt
    /\ r.approved <=> r.outcome = "approved"
    /\ r.outcome = "refused" => r.status = "canceled"
ApprovalGate == \A t \in Tasks : GateOK(tasks[t])

(* Whatever reassignments, requeues and cancels came before, a held task is *)
(* held by the worker it is now assigned to, under an attempt of its own; a *)
(* task waiting for a claim has no trace of the last holder                 *)
(* (assertTaskWorker would lock the next one out).                          *)
HolderOK(r) ==
    /\ IsHeld(r) => r.claimedBy = r.assigned /\ r.attempt
    /\ r.status \in {"blocked", "queued"} => r.claimedBy = None /\ ~r.attempt
HeldByAssignee == \A t \in Tasks : HolderOK(tasks[t])

(* Automatic requeues are bounded by maxRequeueAttempts, and a task is      *)
(* dead-lettered exactly when the whole budget is spent.                    *)
BudgetOK(r) ==
    MaxRequeueAttempts > 0 =>
        /\ r.requeues <= MaxRequeueAttempts
        /\ r.error = "exceeded_requeue_limit" =>
              r.status = "failed" /\ r.requeues = MaxRequeueAttempts
RequeueBudget == \A t \in Tasks : BudgetOK(tasks[t])

(* The terminal outbox was told how every finished task ended, once, and    *)
(* nothing about a task that has not finished: no event is lost or doubled  *)
(* when a completion, a failure, a cancel and the reaper race, or when the  *)
(* broker restarts.                                                         *)
AnnouncedOnce ==
    \A t \in Tasks : LET r == tasks[t] IN
        /\ IsTerminal(r) => outbox[t] # <<>> /\ outbox[t][Len(outbox[t])] = r.status
        /\ MaxLives = 1 => Len(outbox[t]) = (IF IsLive(r) \/ outbox[t] = <<>> THEN 0 ELSE 1)

(* Every reference from a retained record resolves: retention never drops   *)
(* the exchange, the proposal or, while the task is live, the workers a     *)
(* retained task needs.                                                     *)
ReferencesResolve ==
    \A t \in Tasks : LET r == tasks[t] IN
        /\ r.exchange # None => exchanges[r.exchange].status # "none"
        /\ r.proposal # None => proposals[r.proposal].status # "none"
        /\ IsLive(r) => /\ r.target # None /\ Registered(r.target)
                        /\ r.assigned # None /\ Registered(r.assigned)

(* What the rest of the broker holds about a task agrees with its record,   *)
(* also when its id is used again: its end was announced once, and the      *)
(* records it refers to exist.                                              *)
LifeIsConsistent == AnnouncedOnce /\ ReferencesResolve

(* While the active task of an exchange is live, the exchange routes to the *)
(* worker the task is assigned to, although both task handlers and messages *)
(* write both records.                                                      *)
RoutesToActiveTask ==
    \A e \in Exchanges : LET x == exchanges[e] IN
        x.active # None /\ tasks[x.active].exchange = e /\ IsLive(tasks[x.active]) =>
            /\ x.target = tasks[x.active].target
            /\ x.assigned = tasks[x.active].assigned

(* An exchange that reports "completed" does not hide a failure: if its     *)
(* active task has finished, it succeeded.                                  *)
CompletedExchange ==
    \A e \in Exchanges : LET x == exchanges[e] IN
        x.status = "completed" /\ x.active # None /\ IsTerminal(tasks[x.active])
            => tasks[x.active].status = "succeeded"

(* An exchange follows its active task, in route and in outcome, although   *)
(* every task of the exchange and every message writes it                   *)
(* (syncExchangeFromTask, addExchangeMessage).                              *)
ExchangeFollowsTask == RoutesToActiveTask /\ CompletedExchange

(* A tombstone tells how its task ended, and the tombstone of a dead letter *)
(* survives every crash (it is written before the save, the others after).  *)
TombstonesAgree ==
    \A t \in Tasks : LET r == tasks[t] IN
        MaxLives = 1 /\ r.status # "none" =>
        /\ tombstones[t] = "canceled" => r.status = "canceled"
        /\ tombstones[t] = "failed" => r.status = "failed" /\ r.error = "worker"
        /\ (tombstones[t] = "dead_lettered") <=> (r.error = "exceeded_requeue_limit")

(* cancellation.sourceTaskId names the immediate parent, the cancel of that *)
(* parent was announced, and while its id is not used again the parent is   *)
(* canceled or dropped: also when the fan-out was cut short by a crash.     *)
FanOutLineage ==
    \A t \in Tasks : LET r == tasks[t] IN
        r.canceledFrom \in Tasks =>
            /\ r.parent = r.canceledFrom
            /\ \E i \in DOMAIN outbox[r.parent] : outbox[r.parent][i] = "canceled"
            /\ MaxLives = 1 => tasks[r.parent].status \in {"canceled", "none"}

(* After any cancels of trees, cut short by crashes or not, the outbox, the *)
(* tombstones and the lineage of the records tell the same story of how     *)
(* each task ended (cancelTaskTree, writeTombstone, appendAuditEvent).      *)
CanceledTreeAgrees == AnnouncedOnce /\ TombstonesAgree /\ FanOutLineage

-----------------------------------------------------------------------------
(* Action properties.                                                      *)

(* A terminal task is immutable: no handler changes anything but its wake   *)
(* record until retention drops it.                                         *)
Outcome(r) == [r EXCEPT !.fresh = TRUE, !.wake = "none"]
TerminalIsFinal ==
    [][\A t \in Tasks : IsTerminal(tasks[t]) =>
          tasks'[t] = NoTask \/ Outcome(tasks'[t]) = Outcome(tasks[t])]_vars

(* An apply task succeeds only in the step that moves its proposal from     *)
(* "approved" to "applied": the two never drift apart by a completion.      *)
ApplyTaskApplies ==
    [][\A t \in Tasks :
          /\ IsHeld(tasks[t]) /\ tasks'[t].status = "succeeded"
          /\ tasks[t].intent = "apply_local_change" /\ tasks[t].proposal # None
          => /\ proposals[tasks[t].proposal].status = "approved"
             /\ proposals'[tasks[t].proposal].status = "applied"]_vars

-----------------------------------------------------------------------------
(* Liveness.                                                               *)

(* Under a reaper that keeps running, a task does not stay with a worker    *)
(* that is not heard of again, and a silent task does not stay held.        *)
StaleClaimsReleased ==
    /\ \A t \in Tasks, w \in Workers :
          (IsHeld(tasks[t]) /\ tasks[t].claimedBy = w /\ w \in StaleWorkers)
              ~> (w \notin StaleWorkers \/ ~(IsHeld(tasks[t]) /\ tasks[t].claimedBy = w))
    /\ \A t \in Tasks :
          (IsHeld(tasks[t]) /\ ~tasks[t].fresh) ~> (~IsHeld(tasks[t]) \/ tasks[t].fresh)

-----------------------------------------------------------------------------
(* What the documentation says and the code does not do.                   *)

(* docs/a2a-protocol.md: a cancel "recursively walks parentTaskId lineage   *)
(* and cancels every non-terminal descendant".                              *)
Descendants(t) ==
    {d \in Tasks : \A S \in SUBSET Tasks :
        (\A c \in Tasks : tasks[c].parent \in S \cup {t} => c \in S) => d \in S}
CancelReachesDescendants ==
    [][\A t \in Tasks : CancelTask(t) =>
          \A d \in Descendants(t) : ~IsLive(tasks'[d])]_vars
=============================================================================
