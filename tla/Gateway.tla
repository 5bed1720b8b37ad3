------------------------------- MODULE Gateway -------------------------------
(***************************************************************************)
(* The HTTP server in front of the broker (server.ts, request-security.ts, *)
(* a2a/json-rpc.ts): a request names its requester in headers, waits for   *)
(* its body, is matched against the party the body speaks for, and is then *)
(* handled by the broker in the same turn of the event loop.  One task or  *)
(* one proposal stands for the records; what a handler does to them beyond *)
(* who may ask for it is in Broker.  Identities are enforced               *)
(* (enforceRequesterIdentity), and the edge secret and the rate limiter    *)
(* have let the request in.                                                *)
(***************************************************************************)
EXTENDS Naturals, FiniteSets

CONSTANTS People,       \* requester ids, also the ids of nodes
          SlowRoutes    \* bound: routes whose body may arrive after other requests

NoRole == "none"
GwRoles == {NoRole, "analyst", "operator"}   \* "hub" is checked like "operator", but in proposals
Parties == [id : People, role : GwRoles]
Privileged(role) == role \in {"hub", "operator"}

VARIABLES gwWorkers,   \* the registered nodes
          gwTask,      \* status, requester, assigned worker
          gwProposal,  \* status, source, target
          gwContext,   \* contexts started by SendMessage: "none", "alone", "with task"
          gwSlow,      \* a request whose body is still arriving
          gwEntitled   \* history: the last change was asked by someone entitled to it

gwVars == <<gwWorkers, gwTask, gwProposal, gwContext, gwSlow, gwEntitled>>

NoTask == [status |-> "none", requester |-> "", assigned |-> ""]
NoProposal == [status |-> "none", source |-> "", target |-> ""]
NoRequest == [route |-> "none"]

----------------------------------------------------------------------------
(* The routes, by what they assert of the requester.                       *)

OutboxRoutes == {"cross-broker/terminal-briefs", "terminal-outbox/receipt", "terminal-outbox/ack"}
CloseoutRoutes == {"closeout/gate", "closeout/approval-request", "closeout/approval-executor",
                   "closeout/approval-dispatch", "closeout/approval-receipt",
                   "closeout/finalizer-approval-status"}
SidecarApprovalRoutes == {"sidecar/dry-run-gate", "sidecar/activation-approval",
                          "sidecar/activation-receipt", "sidecar/start-executor-gate",
                          "sidecar/executor-invocation-rehearsal",
                          "sidecar/runtime-preflight-approval", "sidecar/adapter-handoff-approval"}
SidecarReviewRoutes == {"sidecar/operator-review-table", "sidecar/review-decision",
                        "sidecar/approval-grant-proposal", "sidecar/approval-grant-evidence",
                        "sidecar/execution-gate-final-review",
                        "sidecar/executor-dispatch-request-draft",
                        "sidecar/dispatcher-preflight-seal"}
SidecarStartRoutes == {"sidecar/dry-run-start-canary-plan", "sidecar/preflight-evidence-collector",
                       "sidecar/preflight-chain-review", "sidecar/dry-run-start-approval-request",
                       "sidecar/dry-run-start-approval-receipt"}
CleanupRoutes == {"operator/cleanup/execute"}
WakeRoutes == {"tasks/wake/plan", "tasks/wake/decision"}
SweepRoutes == {"tasks/requeue_stale"}

SubscribeRoutes == {"tasks/events"}

\* assertRequesterHasRole(hub, operator) and nothing else.
OperatorRoutes == OutboxRoutes \cup CloseoutRoutes \cup SidecarApprovalRoutes
                  \cup SidecarReviewRoutes \cup SidecarStartRoutes \cup CleanupRoutes
                  \cup WakeRoutes \cup SweepRoutes

WorkerRoutes == {"workers/register", "workers/heartbeat"}
ExchangeRoutes == {"exchanges", "exchanges/messages"}
ReviewRoutes == {"proposals/approve", "proposals/reject", "proposals/apply"}
TaskWorkerRoutes == {"tasks/claim", "tasks/start", "tasks/heartbeat", "tasks/complete",
                     "tasks/evidence", "tasks/fail"}
ApprovalRoutes == {"tasks/approve", "tasks/reject-approval", "tasks/reassign"}

\* assertRequesterMatchesParty with the id and the role the body gives.
PartyRoutes == WorkerRoutes \cup ExchangeRoutes \cup ReviewRoutes \cup ApprovalRoutes
               \cup {"tasks", "tasks/cancel", "proposals"}
\* ... with the id only.
PartyIdRoutes == TaskWorkerRoutes \cup {"proposals/validate"}

----------------------------------------------------------------------------
(* request-security.ts *)

\* Mutant: a privileged role in the body is compared only when the headers
\* give a role.
MatchesPartyIfRoleGiven(who, party) ==
  /\ who.id = party.id
  /\ who.role # NoRole /\ party.role # NoRole => who.role = party.role

MatchesParty(who, party) ==
  /\ who.id = party.id
  /\ Privileged(party.role) => who.role = party.role
  /\ who.role # NoRole /\ party.role # NoRole => who.role = party.role

CanTouchArtifacts(who) ==
  who.role = "operator" \/ who.id \in {gwProposal.source, gwProposal.target}

CanSubscribe(who) ==
  Privileged(who.role) \/ who.id \in {gwTask.requester, gwTask.assigned}

PartyOf(route, actor) ==
  IF route \in PartyIdRoutes THEN [actor EXCEPT !.role = NoRole] ELSE actor

Asserted(r) ==
  CASE r.route \in OperatorRoutes -> Privileged(r.who.role)
    [] r.route = "proposals/artifacts" -> gwProposal.status # "none" /\ CanTouchArtifacts(r.who)
    [] r.route \in SubscribeRoutes -> gwTask # NoTask /\ CanSubscribe(r.who)
    [] r.route \in PartyRoutes \cup PartyIdRoutes ->
         /\ MatchesParty(r.who, PartyOf(r.route, r.actor))
         /\ r.route \in ApprovalRoutes => Privileged(r.who.role)

----------------------------------------------------------------------------
(* What the broker asks of the actor it is given (broker.ts, policy.ts).   *)

\* The worker the task is assigned to, and no other (assertTaskWorker).
AssignedWorker(actor) == actor.id \in gwWorkers /\ actor.id = gwTask.assigned

\* assertProposalReviewAllowed, assertProposalApplyAllowed.
MayReview(actor) == actor.role = "operator" \/ actor.id = gwProposal.target

MayCancel(actor) ==
  Privileged(actor.role) \/ actor.id \in {gwTask.requester, gwTask.assigned}

\* Bound: one record, of either kind.
NoneYet == gwTask = NoTask /\ gwProposal = NoProposal

LiveTask == gwTask.status \in {"blocked", "queued", "claimed"}

\* The change a handler makes, when it makes one.
HandleTask(r) ==
  \/ /\ r.route = "tasks" /\ NoneYet /\ r.for \in gwWorkers
     /\ \E s \in {"blocked", "queued"} :
          gwTask' = [status |-> s, requester |-> r.actor.id, assigned |-> r.for]
  \/ /\ r.route = "tasks/claim" /\ gwTask.status = "queued" /\ AssignedWorker(r.actor)
     /\ gwTask' = [gwTask EXCEPT !.status = "claimed"]
  \/ /\ r.route = "tasks/complete" /\ gwTask.status = "claimed" /\ AssignedWorker(r.actor)
     /\ gwTask' = [gwTask EXCEPT !.status = "done"]
  \/ /\ r.route = "tasks/approve" /\ gwTask.status = "blocked" /\ Privileged(r.actor.role)
     /\ gwTask' = [gwTask EXCEPT !.status = "queued"]
  \/ /\ r.route = "tasks/reassign" /\ LiveTask /\ Privileged(r.actor.role)
     /\ r.for \in gwWorkers
     /\ gwTask' = [gwTask EXCEPT !.assigned = r.for,
                                 !.status = IF @ = "claimed" THEN "queued" ELSE @]
  \/ /\ r.route = "tasks/cancel" /\ LiveTask /\ MayCancel(r.actor)
     /\ gwTask' = [gwTask EXCEPT !.status = "canceled"]
  \/ /\ r.route = "tasks/requeue_stale" /\ gwTask.status = "claimed"
     /\ gwTask' = [gwTask EXCEPT !.status = "queued"]

HandleProposal(r) ==
  \/ /\ r.route = "proposals" /\ NoneYet
     /\ gwProposal' = [status |-> "submitted", source |-> r.actor.id, target |-> r.for]
  \/ /\ r.route = "proposals/validate" /\ gwProposal.status = "submitted"
     /\ r.actor.id \in {gwProposal.source, gwProposal.target}
     /\ gwProposal' = [gwProposal EXCEPT !.status = "validated"]
  \/ /\ r.route = "proposals/approve" /\ gwProposal.status \in {"submitted", "validated"}
     /\ MayReview(r.actor)
     /\ gwProposal' = [gwProposal EXCEPT !.status = "approved"]
  \/ /\ r.route = "proposals/artifacts" /\ gwProposal.status = "submitted"
     /\ gwProposal' = [gwProposal EXCEPT !.status = "validated"]

Register(r) ==
  /\ r.route = "workers/register" /\ r.actor.id \notin gwWorkers
  /\ gwWorkers' = gwWorkers \cup {r.actor.id}

\* Who is entitled, told by the headers and the records alone.
Entitled(r) ==
  CASE r.route \in OperatorRoutes \cup ApprovalRoutes -> Privileged(r.who.role)
    [] r.route \in TaskWorkerRoutes -> r.who.id = gwTask.assigned
    [] r.route \in {"tasks/cancel", "tasks/events"} ->
         Privileged(r.who.role) \/ r.who.id \in {gwTask.requester, gwTask.assigned}
    [] r.route \in ReviewRoutes -> r.who.role = "operator" \/ r.who.id = gwProposal.target
    [] r.route = "proposals/artifacts" ->
         r.who.role = "operator" \/ r.who.id \in {gwProposal.source, gwProposal.target}
    [] r.route = "proposals/validate" -> r.who.id \in {gwProposal.source, gwProposal.target}
    [] OTHER -> r.who.id = r.actor.id

----------------------------------------------------------------------------
(* The requests.  for: the worker or target a body names.                  *)

Routes == {"tasks", "tasks/claim", "tasks/complete", "tasks/approve", "tasks/reassign",
           "tasks/cancel", "tasks/requeue_stale", "proposals", "proposals/validate",
           "proposals/approve", "proposals/artifacts", "workers/register"}

NamingRoutes == {"tasks", "tasks/reassign", "proposals"}

Requests ==
  [route : Routes \ NamingRoutes, who : Parties, actor : Parties, for : {""}]
  \cup [route : NamingRoutes, who : Parties, actor : Parties, for : People]

AnswerRequests ==
  [route : OperatorRoutes \cup SubscribeRoutes, who : Parties,
   actor : {[id |-> "", role |-> NoRole]}, for : {""}]

\* The rest of the handler, once the body has been read.
Handle(r) ==
  /\ Asserted(r)
  /\ gwEntitled' = Entitled(r)
  /\ \/ HandleTask(r) /\ UNCHANGED <<gwProposal, gwWorkers>>
     \/ HandleProposal(r) /\ UNCHANGED <<gwTask, gwWorkers>>
     \/ Register(r) /\ UNCHANGED <<gwTask, gwProposal>>

\* A request whose body is there at once.
Serve(r) == Handle(r) /\ UNCHANGED <<gwContext, gwSlow>>

\* A request that only reads, or whose effect is another module's: the packets
\* of the terminal-brief gates, the outbox, the cleanup, a task's event stream.
Answer(r) ==
  /\ r.route \in OperatorRoutes \cup SubscribeRoutes
  /\ Asserted(r)
  /\ gwEntitled' = Entitled(r)
  /\ UNCHANGED <<gwWorkers, gwTask, gwProposal, gwContext, gwSlow>>

\* A request whose body takes its time: its headers are read, then others are served.
Arrive(r) ==
  /\ gwSlow = NoRequest /\ r.route \in SlowRoutes
  /\ gwSlow' = r
  /\ UNCHANGED <<gwWorkers, gwTask, gwProposal, gwContext, gwEntitled>>

Finish ==
  /\ gwSlow # NoRequest
  /\ Handle(gwSlow)
  /\ gwSlow' = NoRequest /\ UNCHANGED gwContext

\* An error answer leaves the records alone.
Refuse ==
  /\ gwSlow # NoRequest
  /\ gwSlow' = NoRequest
  /\ UNCHANGED <<gwWorkers, gwTask, gwProposal, gwContext, gwEntitled>>

\* deriveActor of the JSON-RPC methods: the actor of the params when its id is
\* the requester's, or the requester itself.
DeriveActor(who, actor) ==
  who.id = actor.id /\ (actor.role # NoRole /\ who.role # NoRole => who.role = actor.role)

\* SendMessage without a context: both workers are looked up, then startExchange
\* and createTask.
SendMessage(who, actor, target, assigned) ==
  /\ DeriveActor(who, actor) /\ gwContext = "none"
  /\ {target, assigned} \subseteq gwWorkers
  /\ gwContext' = "with task"
  /\ UNCHANGED <<gwWorkers, gwTask, gwProposal, gwSlow, gwEntitled>>

\* CancelTask of the JSON-RPC endpoint.
RpcCancelTask(who, actor) ==
  /\ DeriveActor(who, actor) /\ LiveTask /\ MayCancel(actor)
  /\ gwTask' = [gwTask EXCEPT !.status = "canceled"]
  /\ UNCHANGED <<gwWorkers, gwProposal, gwContext, gwSlow, gwEntitled>>

GatewayInit ==
  /\ gwWorkers = {}
  /\ gwTask = NoTask /\ gwProposal = NoProposal /\ gwContext = "none"
  /\ gwSlow = NoRequest /\ gwEntitled = TRUE

GatewayNext ==
  \/ \E r \in Requests : Serve(r) \/ Arrive(r)
  \/ \E r \in AnswerRequests : Answer(r)
  \/ Finish \/ Refuse
  \/ \E who, actor \in Parties : RpcCancelTask(who, actor)
                                 \/ \E t, w \in People : SendMessage(who, actor, t, w)

GatewaySpec == GatewayInit /\ [][GatewayNext]_gwVars

----------------------------------------------------------------------------
\* Every change and every answer of an HTTP route was asked for by someone
\* entitled to it at that moment: a party of the record as it then stands,
\* or a requester whose own headers carry the privileged role, never one
\* that only claims it in the body, and never on the word of a check made
\* before the body arrived (assertRequesterMatchesParty and the broker's own
\* checks of the actor together).
ChangesAreEntitled == gwEntitled

\* A context that SendMessage started has its task: nothing fails between
\* startExchange, which is saved at once, and createTask.
ContextHasTask == gwContext # "alone"

\* Every change a request makes is one its requester was entitled to, and whole.
RequestsSound == ChangesAreEntitled /\ ContextHasTask
=============================================================================
