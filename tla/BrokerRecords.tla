---------------------------- MODULE BrokerRecords ----------------------------
(***************************************************************************)
(* The records the broker keeps (src/core/types.ts), the status predicates *)
(* and policy functions its handlers share (src/core/broker.ts,            *)
(* src/core/policy.ts).  Identifiers, texts and timestamps are data: a     *)
(* timestamp is kept only as the answer to the one comparison the code     *)
(* makes with it.                                                          *)
(***************************************************************************)
EXTENDS Naturals, FiniteSets

CONSTANTS
    Tasks,                 \* task ids a request may name or the broker may draw
    Workers,               \* node ids
    Exchanges, Proposals,  \* exchange and proposal ids
    None,                  \* an optional field that is not set
    Role,                  \* role a node registers with
    MaxRequeueAttempts,    \* maxRequeueAttempts; 0 means no limit
    MaxTerminalTasks, MaxTerminalExchanges,      \* BrokerRetentionPolicy: how many
    MaxTerminalProposals, MaxInactiveWorkers     \*   expired records are kept

ASSUME NoneAssumption == None \notin Tasks \cup Workers \cup Exchanges \cup Proposals
ASSUME MarkAssumption == "request" \notin Tasks    \* see canceledFrom
ASSUME RoleAssumption == Role \in [Workers -> {"researcher", "live-trader", "operator", "worker"}]
ASSUME LimitAssumption ==
    {MaxRequeueAttempts, MaxTerminalTasks, MaxTerminalExchanges,
     MaxTerminalProposals, MaxInactiveWorkers} \subseteq Nat

Opt(S) == S \cup {None}

-----------------------------------------------------------------------------
(* Status sets.  "none" stands for "no such record in the broker's Map".   *)

HeldStatus     == {"claimed", "running"}
TerminalStatus == {"succeeded", "failed", "canceled"}
TaskStatus     == {"none", "blocked", "queued"} \cup HeldStatus \cup TerminalStatus
LiveStatus     == {"blocked", "queued"} \cup HeldStatus

ExchangeStatus         == {"none", "queued", "running", "completed", "failed"}
TerminalExchangeStatus == {"completed", "failed"}

ProposalStatus         == {"none", "submitted", "validated", "approved", "rejected", "applied"}
TerminalProposalStatus == {"rejected", "applied"}

(* lastSeenAt of a worker: within workerOfflineAfterMs, older, or older    *)
(* than inactiveWorkerRetentionMs.                                         *)
WorkerStatus == {"none", "seen", "stale", "expired"}

-----------------------------------------------------------------------------
(* Policy (src/core/policy.ts).  Every other intent behaves like "chat",   *)
(* and rollback_live like "promote_to_live".                               *)

Intent         == {"chat", "validate_change", "apply_local_change", "promote_to_live"}
DangerousIntents  == {"apply_local_change", "promote_to_live"}
LiveImpactIntents == {"promote_to_live"}

(* policyContext.requiresApproval as the requester sent it.                *)
Ask == {"unset", "true", "false"}

(* isLiveImpactTask, where flagged says that the request set liveImpact or *)
(* targetEnvironment = "live".                                             *)
LiveImpact(intent, flagged, w) ==
    \/ intent \in LiveImpactIntents
    \/ flagged
    \/ intent = "apply_local_change" /\ Role[w] = "live-trader"

IsTaskApprovalRequired(intent, flagged, w, ask) ==
    \/ intent \in DangerousIntents
    \/ ask = "true"
    \/ LiveImpact(intent, flagged, w)

(* requiresApproval after normalizeTaskPolicyContext: the gate is inferred *)
(* only where the requester left the field out.                            *)
RequiresApproval(intent, flagged, w, ask) ==
    \/ ask = "true"
    \/ ask = "unset" /\ IsTaskApprovalRequired(intent, flagged, w, ask)

-----------------------------------------------------------------------------
(* Task records.                                                           *)
(*   live    policyContext.liveImpact / targetEnvironment as stored        *)
(*   gated   policyContext.requiresApproval === true                       *)
(*   approved, outcome   approval and approvalOutcome.status               *)
(*   attempt an attemptId is set                                           *)
(*   canceledFrom  cancellation: "request" for the task a cancel names,    *)
(*           the parent's id for a descendant (sourceTaskId)               *)
(*   fresh   held: updatedAt is within the stale threshold;                *)
(*           terminal: completedAt is within terminalRetentionMs           *)
Task == [status: TaskStatus, parent: Opt(Tasks), exchange: Opt(Exchanges),
         intent: Intent, proposal: Opt(Proposals), target: Opt(Workers),
         assigned: Opt(Workers), live: BOOLEAN, gated: BOOLEAN,
         approved: BOOLEAN, outcome: {"none", "approved", "refused"},
         claimedBy: Opt(Workers), attempt: BOOLEAN, requeues: Nat,
         error: {"none", "worker", "exceeded_requeue_limit"}, result: BOOLEAN,
         canceledFrom: Opt(Tasks) \cup {"request"},
         wake: {"none", "planned", "decided"}, fresh: BOOLEAN]

NoTask == [status |-> "none", parent |-> None, exchange |-> None,
           intent |-> "chat", proposal |-> None, target |-> None,
           assigned |-> None, live |-> FALSE, gated |-> FALSE,
           approved |-> FALSE, outcome |-> "none", claimedBy |-> None,
           attempt |-> FALSE, requeues |-> 0, error |-> "none",
           result |-> FALSE, canceledFrom |-> None, wake |-> "none",
           fresh |-> TRUE]

(* Exchange records: exchange.target.id and exchange.targetNodeId are      *)
(* written together and are one field; fresh is updatedAt against          *)
(* terminalRetentionMs.                                                    *)
Exchange == [status: ExchangeStatus, intent: Intent, active: Opt(Tasks),
             target: Opt(Workers), assigned: Opt(Workers), fresh: BOOLEAN]

NoExchange == [status |-> "none", intent |-> "chat", active |-> None,
               target |-> None, assigned |-> None, fresh |-> TRUE]

Proposal == [status: ProposalStatus, source: Opt(Workers), target: Opt(Workers),
             fresh: BOOLEAN]

NoProposal == [status |-> "none", source |-> None, target |-> None, fresh |-> TRUE]

Tombstone == {"none", "failed", "dead_lettered", "canceled"}

(* isTerminalTaskStatus and its complement among existing records.         *)
IsTerminal(r) == r.status \in TerminalStatus
IsLive(r)     == r.status \in LiveStatus
IsHeld(r)     == r.status \in HeldStatus

(* task.assignedWorkerId ?? task.targetNodeId, also used for exchanges.    *)
Assignee(r) == IF r.assigned # None THEN r.assigned ELSE r.target

-----------------------------------------------------------------------------
(* Retention (applyRetentionPolicy).  Of the expired records that nothing  *)
(* protects, the newest Max are kept; which ones those are is a matter of  *)
(* timestamps, so any choice of that many is possible.                     *)

KeptOf(expired, max) ==
    {k \in SUBSET expired :
        Cardinality(k) = IF Cardinality(expired) < max THEN Cardinality(expired) ELSE max}

ExpiredExchanges(E) ==
    {e \in Exchanges : E[e].status \in TerminalExchangeStatus /\ ~E[e].fresh}

(* The active task of an exchange that is retained in its own right is     *)
(* protected.                                                              *)
ExpiredTasks(T, E, retainedE) ==
    {t \in Tasks : /\ IsTerminal(T[t]) /\ ~T[t].fresh
                   /\ \A e \in retainedE : E[e].active # t}

(* Mutant: a retained task does not protect its proposal.                 *)
ExpiredProposalsUnprotected(T, P, retainedT) ==
    {p \in Proposals : P[p].status \in TerminalProposalStatus /\ ~P[p].fresh}

ExpiredProposals(T, P, retainedT) ==
    {p \in Proposals : /\ P[p].status \in TerminalProposalStatus /\ ~P[p].fresh
                       /\ \A t \in retainedT : T[t].proposal # p}

(* collectProtectedWorkerIds.                                              *)
NamedBy(r) == {r.target, r.assigned}

ProtectedWorkers(T, E, P, retainedT, retainedE, retainedP) ==
    (UNION {NamedBy(E[e]) : e \in retainedE})
      \cup (UNION {NamedBy(T[t]) \cup {T[t].claimedBy} : t \in retainedT})
      \cup (UNION {{P[p].source, P[p].target} : p \in retainedP})

ExpiredWorkers(W, protected) == {w \in Workers : W[w] = "expired"} \ protected
=============================================================================
