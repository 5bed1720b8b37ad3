-------------------------- MODULE ComponentProofs ---------------------------
(***************************************************************************)
(* Proofs about classes that keep their own state: the delegated run, the  *)
(* HTTP gateway, the operator's cleanup, the decision rounds, the          *)
(* conference fan-in, the task handler, the peer status, the limiters, the *)
(* event streams and the closeout view of a round.                         *)
(***************************************************************************)
EXTENDS DelegatedRun, Gateway, OperatorCleanup, DecisionDialectic, ConferenceFanIn, TaskHandler,
        Limiters, EventStreams, RoundCloseout, FiniteSetTheorems, SequenceTheorems, WellFoundedInduction, TLAPS

-----------------------------------------------------------------------------
(* DelegatedRun *)

TaskStatuses == {"none", "queued", "claimed", "running"} \cup TaskEnds
RunStates == {"none", "waiting", "running", "completed", "canceled", "timed_out", "failed"}

(* An end that is on its way, or was in createTask's answer, is the end of *)
(* the task; what has not been constructed holds nothing.                  *)
DelegatedInv ==
    /\ task \in TaskStatuses /\ given \in TaskStatuses /\ run \in RunStates
    /\ updates \in Seq(TaskStatuses)
    /\ subscribed \in BOOLEAN /\ timer \in BOOLEAN
    /\ \A i \in 1..Len(updates) : updates[i] \in TaskEnds => task = updates[i]
    /\ given \in TaskEnds => task = given
    /\ task = "none" => given = "none"
    /\ run # "none" => given # "none"
    /\ run = "none" => ~cancelling /\ ~subscribed /\ ~timer
    /\ cancelling => task # "none"
    /\ RunSettles

(* A settlement that tells the truth about the task leaves a settled run.  *)
LEMMA SettleStep ==
    ASSUME DelegatedInv, NEW how, IsTerminal(how), Settle(how), run # "none",
           how = "completed" => task' = "succeeded", how = "failed" => task' = "failed",
           task \in TaskEnds => task' = task
    PROVE  /\ run' \in RunStates \ {"none"} /\ subscribed' \in BOOLEAN /\ timer' \in BOOLEAN
           /\ RunSettles'
  <1>1. CASE IsTerminal(run)
    <2>1. UNCHANGED <<run, subscribed, timer, resolved>>
      BY <1>1 DEF Settle
    <2>2. SettledOnce' /\ UnsettledHasTimer'
      BY <2>1 DEF DelegatedInv, RunSettles, SettledOnce, UnsettledHasTimer, IsTerminal
    <2>3. OutcomeIsTheTasks'
      BY <2>1 DEF DelegatedInv, RunSettles, OutcomeIsTheTasks, TaskEnds
    <2> QED BY <2>1, <2>2, <2>3 DEF DelegatedInv, RunSettles
  <1>2. CASE ~IsTerminal(run)
    <2>1. run' = how /\ resolved' = resolved + 1 /\ ~subscribed' /\ ~timer'
      BY <1>2 DEF Settle
    <2>2. resolved = 0
      BY <1>2 DEF DelegatedInv, RunSettles, SettledOnce
    <2>3. subscribed' \in BOOLEAN /\ timer' \in BOOLEAN
      BY <1>2 DEF Settle
    <2>4. run' \in RunStates \ {"none"} /\ IsTerminal(run')
      BY <2>1 DEF IsTerminal, RunStates
    <2>5. RunSettles'
      BY <2>1, <2>2, <2>4 DEF RunSettles, SettledOnce, OutcomeIsTheTasks, UnsettledHasTimer, IsTerminal
    <2> QED BY <2>3, <2>4, <2>5
  <1> QED BY <1>1, <1>2

(* The queue of updates after one more, or one less.                       *)
LEMMA UpdatesAfter ==
    ASSUME DelegatedInv, NEW s \in TaskStatuses, NEW u,
           u = IF subscribed THEN Append(updates, s) ELSE updates, task \notin TaskEnds
    PROVE  u \in Seq(TaskStatuses) /\ \A i \in 1..Len(u) : u[i] \in TaskEnds => u[i] = s
  <1>1. updates \in Seq(TaskStatuses) /\ \A i \in 1..Len(updates) : updates[i] \notin TaskEnds
    BY DEF DelegatedInv
  <1>2. CASE subscribed
    <2>1. u = Append(updates, s)
      BY <1>2
    <2>2. /\ u \in Seq(TaskStatuses) /\ Len(u) = Len(updates) + 1 /\ Len(updates) \in Nat
          /\ u[Len(updates) + 1] = s /\ \A i \in 1..Len(updates) : u[i] = updates[i]
      BY <1>1, <2>1
    <2>3. ASSUME NEW i \in 1..Len(u), u[i] \in TaskEnds PROVE u[i] = s
      <3>1. CASE i = Len(updates) + 1
        BY <2>2, <3>1
      <3>2. CASE i # Len(updates) + 1
        <4>1. i \in 1..Len(updates)
          BY <2>2, <3>2
        <4> QED BY <1>1, <2>2, <2>3, <4>1
      <3> QED BY <3>1, <3>2
    <2> QED BY <2>2, <2>3
  <1>3. CASE ~subscribed
    BY <1>1, <1>3
  <1> QED BY <1>2, <1>3

LEMMA BrokerMovesTaskStep ==
    ASSUME DelegatedInv, NEW s \in {"claimed", "running"} \cup TaskEnds, BrokerMovesTask(s)
    PROVE  DelegatedInv'
  <1>1. /\ task \in {"queued", "claimed", "running"} /\ task' = s /\ task \notin TaskEnds
        /\ updates' = (IF subscribed THEN Append(updates, s) ELSE updates)
        /\ UNCHANGED <<given, run, subscribed, timer, aborted, cancelling, resolved>>
    BY DEF BrokerMovesTask, TaskEnds
  <1>2. updates' \in Seq(TaskStatuses) /\ \A i \in 1..Len(updates') : updates'[i] \in TaskEnds => updates'[i] = s
    BY <1>1, UpdatesAfter DEF TaskStatuses
  <1>3. RunSettles'
    BY <1>1 DEF DelegatedInv, RunSettles, SettledOnce, OutcomeIsTheTasks, UnsettledHasTimer
  <1> QED BY <1>1, <1>2, <1>3 DEF DelegatedInv, TaskStatuses, TaskEnds

LEMMA CancelArrivesStep ==
    ASSUME DelegatedInv, CancelArrives
    PROVE  DelegatedInv'
  <1>0. run # "none" /\ task # "none" /\ cancelling' = FALSE /\ UNCHANGED <<given, aborted>>
    BY DEF DelegatedInv, CancelArrives
  <1>1. CASE task \in TaskEnds
    <2>1. Settle("canceled") /\ UNCHANGED <<task, updates>>
      BY <1>1 DEF CancelArrives
    <2>2. /\ run' \in RunStates \ {"none"} /\ subscribed' \in BOOLEAN /\ timer' \in BOOLEAN
          /\ RunSettles'
      BY <1>0, <2>1, SettleStep DEF IsTerminal
    <2> QED BY <1>0, <2>1, <2>2 DEF DelegatedInv
  <1>2. CASE task \notin TaskEnds
    <2>1. /\ task' = "canceled" /\ updates' = (IF subscribed THEN Append(updates, "canceled") ELSE updates)
          /\ UNCHANGED <<run, subscribed, timer, resolved>>
      BY <1>2 DEF CancelArrives
    <2>2. updates' \in Seq(TaskStatuses)
          /\ \A i \in 1..Len(updates') : updates'[i] \in TaskEnds => updates'[i] = "canceled"
      BY <1>2, <2>1, UpdatesAfter DEF TaskStatuses, TaskEnds
    <2>3. RunSettles'
      BY <1>2, <2>1 DEF DelegatedInv, RunSettles, SettledOnce, OutcomeIsTheTasks, UnsettledHasTimer, TaskEnds
    <2> QED BY <1>0, <1>2, <2>1, <2>2, <2>3 DEF DelegatedInv, TaskStatuses, TaskEnds
  <1> QED BY <1>1, <1>2

LEMMA ConstructStep ==
    ASSUME DelegatedInv, Construct
    PROVE  DelegatedInv'
  <1>1. /\ run = "none" /\ given # "none" /\ ~subscribed /\ ~timer /\ resolved = 0
        /\ UNCHANGED <<task, given, aborted, updates, cancelling>>
    BY DEF Construct, DelegatedInv, RunSettles, SettledOnce, IsTerminal
  <1>2. CASE given \in TaskEnds
    <2>1. /\ run' = RunStateOf(given) /\ resolved' = 1 /\ subscribed' = subscribed /\ timer' = timer
          /\ task = given
      BY <1>2 DEF Construct, DelegatedInv
    <2>2. /\ run' \in RunStates \ {"none"} /\ IsTerminal(run')
          /\ (run' = "completed" => given = "succeeded") /\ (run' = "failed" => given = "failed")
      BY <1>2, <2>1 DEF RunStateOf, TaskEnds, RunStates, IsTerminal
    <2>3. RunSettles'
      BY <1>1, <2>1, <2>2 DEF RunSettles, SettledOnce, OutcomeIsTheTasks, UnsettledHasTimer, IsTerminal
    <2> QED BY <1>1, <2>1, <2>2, <2>3 DEF DelegatedInv
  <1>3. CASE given \notin TaskEnds
    <2>1. \/ run' = "canceled" /\ resolved' = 1 /\ ~subscribed' /\ ~timer'
          \/ run' = "waiting" /\ resolved' = 0 /\ (timer' <=> HasTimeout)
      BY <1>1, <1>3 DEF Construct
    <2>2. subscribed' \in BOOLEAN /\ timer' \in BOOLEAN
      BY <1>3, HasTimeoutTyped DEF Construct, DelegatedInv
    <2>3. RunSettles' /\ run' \in RunStates \ {"none"}
      BY <2>1 DEF RunSettles, SettledOnce, OutcomeIsTheTasks, UnsettledHasTimer, IsTerminal, RunStates
    <2> QED BY <1>1, <2>2, <2>3 DEF DelegatedInv
  <1> QED BY <1>2, <1>3

LEMMA OnTaskUpdateStep ==
    ASSUME DelegatedInv, OnTaskUpdate
    PROVE  DelegatedInv'
  <1> DEFINE s == Head(updates)
             to == RunStateOf(s)
  <1>1. /\ updates # <<>> /\ updates' = Tail(updates) /\ run # "none"
        /\ UNCHANGED <<task, given, aborted, cancelling>> /\ updates \in Seq(TaskStatuses)
    BY DEF OnTaskUpdate, DelegatedInv
  <1>2. s = updates[1] /\ 1 \in 1..Len(updates) /\ s \in TaskStatuses
    BY <1>1
  <1>3. /\ updates' \in Seq(TaskStatuses)
        /\ \A i \in 1..Len(updates') : updates'[i] \in TaskEnds => task = updates'[i]
    <2>1. /\ updates' \in Seq(TaskStatuses) /\ Len(updates') = Len(updates) - 1 /\ Len(updates) \in Nat
          /\ \A i \in 1..Len(updates') : updates'[i] = updates[i + 1]
      BY <1>1
    <2>2. \A i \in 1..Len(updates') : i + 1 \in 1..Len(updates)
      BY <2>1
    <2> QED BY <2>1, <2>2 DEF DelegatedInv
  <1>4. s \in TaskEnds => task = s
    BY <1>2 DEF DelegatedInv
  <1>5. /\ (to = "completed" => s = "succeeded") /\ (to = "failed" => s = "failed")
        /\ to \in {"running", "waiting"} \/ IsTerminal(to)
        /\ ~(IsTerminal(to) /\ to \in {"running", "waiting"})
    BY <1>2 DEF RunStateOf, TaskStatuses, TaskEnds, IsTerminal
  <1>6. CASE IsTerminal(to)
    <2>1. Settle(to)
      BY <1>6 DEF OnTaskUpdate
    <2>2. (to = "completed" => task' = "succeeded") /\ (to = "failed" => task' = "failed")
      BY <1>1, <1>4, <1>5 DEF TaskEnds
    <2> HIDE DEF to
    <2>3. /\ run' \in RunStates \ {"none"} /\ subscribed' \in BOOLEAN /\ timer' \in BOOLEAN
          /\ RunSettles'
      BY <1>1, <1>6, <2>1, <2>2, SettleStep
    <2> QED BY <1>1, <1>3, <2>3 DEF DelegatedInv
  <1>7. CASE ~IsTerminal(to)
    <2>1. /\ run' = (IF IsTerminal(run) \/ to = "waiting" THEN run ELSE to)
          /\ UNCHANGED <<subscribed, timer, resolved>>
      BY <1>7 DEF OnTaskUpdate
    <2>2. run' = run \/ (~IsTerminal(run) /\ run' = "running")
      BY <1>5, <1>7, <2>1
    <2> HIDE DEF to
    <2>3. RunSettles' /\ run' \in RunStates \ {"none"}
      BY <1>1, <2>1, <2>2 DEF DelegatedInv, RunSettles, SettledOnce, OutcomeIsTheTasks,
         UnsettledHasTimer, IsTerminal, RunStates
    <2> QED BY <1>1, <1>3, <2>1, <2>3 DEF DelegatedInv
  <1> QED BY <1>6, <1>7

(* The timeout, the abort signal and the two ways a cancel ends the run.   *)
LEMMA EndsStep ==
    ASSUME DelegatedInv, RunTimesOut \/ Abort \/ CancelFails \/ \E throws \in BOOLEAN : RequestCancel(throws)
    PROVE  DelegatedInv'
  <1>1. /\ UNCHANGED <<task, given, updates>> /\ (cancelling' => run # "none")
        /\ \/ run # "none" /\ \E f \in {"timed_out", "canceled"} : Settle(f)
           \/ UNCHANGED <<run, subscribed, timer, resolved>>
        /\ cancelling' => run # "none"
    BY DEF RunTimesOut, Abort, CancelFails, RequestCancel, DelegatedInv
  <1>2. CASE UNCHANGED <<run, subscribed, timer, resolved>>
    BY <1>1, <1>2 DEF DelegatedInv, RunSettles, SettledOnce, OutcomeIsTheTasks, UnsettledHasTimer
  <1>3. ASSUME run # "none", NEW f \in {"timed_out", "canceled"}, Settle(f)
        PROVE  DelegatedInv'
    <2>1. /\ run' \in RunStates \ {"none"} /\ subscribed' \in BOOLEAN /\ timer' \in BOOLEAN
          /\ RunSettles'
      BY <1>1, <1>3, SettleStep DEF IsTerminal
    <2> QED BY <1>1, <1>3, <2>1 DEF DelegatedInv
  <1> QED BY <1>1, <1>2, <1>3

(* DelegatedRunRuntime: the promise behind wait() is resolved exactly when *)
(* the run is terminal, once, with what became of the task, and a run that *)
(* has not settled holds its timer, in every interleaving of the task's    *)
(* updates, the timeout, an abort, cancel requests and the gap between     *)
(* createTask's answer and the constructor.                                *)
THEOREM RunSettlesHolds == DelegatedSpec => []RunSettles
  <1>1. DelegatedInit => DelegatedInv
    <2> SUFFICES ASSUME DelegatedInit PROVE DelegatedInv
      OBVIOUS
    <2>1. ~subscribed /\ ~timer /\ ~cancelling /\ subscribed \in BOOLEAN /\ timer \in BOOLEAN
      BY DEF DelegatedInit
    <2>2. RunSettles
      BY <2>1 DEF DelegatedInit, RunSettles, SettledOnce, OutcomeIsTheTasks, UnsettledHasTimer, IsTerminal
    <2> QED BY <2>1, <2>2 DEF DelegatedInit, DelegatedInv, TaskStatuses, TaskEnds, RunStates
  <1>2. DelegatedInv /\ [DelegatedNext]_drVars => DelegatedInv'
    <2> SUFFICES ASSUME DelegatedInv, [DelegatedNext]_drVars PROVE DelegatedInv'
      OBVIOUS
    <2>1. ASSUME NEW s \in {"queued", "claimed", "running"} \cup TaskEnds, CreateDelegatedTask(s)
          PROVE  DelegatedInv'
      BY <2>1 DEF CreateDelegatedTask, DelegatedInv, TaskStatuses, TaskEnds, RunSettles, SettledOnce,
         OutcomeIsTheTasks, UnsettledHasTimer
    <2>2. CASE UNCHANGED drVars
      BY <2>2 DEF drVars, DelegatedInv, RunSettles, SettledOnce, OutcomeIsTheTasks, UnsettledHasTimer
    <2> QED BY <2>1, <2>2, BrokerMovesTaskStep, ConstructStep, OnTaskUpdateStep, EndsStep,
               CancelArrivesStep DEF DelegatedNext
  <1>3. DelegatedInv => RunSettles
    BY DEF DelegatedInv
  <1> QED BY <1>1, <1>2, <1>3, PTL DEF DelegatedSpec

-----------------------------------------------------------------------------
(* Gateway *)

GatewayInv == RequestsSound /\ (gwSlow = NoRequest \/ gwSlow \in Requests)

(* What each kind of route asserts of the requester.                       *)
LEMMA OperatorAsserts ==
    ASSUME NEW r, r.route \in OperatorRoutes, Asserted(r)
    PROVE  Entitled(r)
  <1>1. r.route \notin {"proposals/artifacts", "proposals/validate", "tasks/cancel", "tasks/events"}
                       \cup SubscribeRoutes \cup PartyRoutes \cup PartyIdRoutes \cup TaskWorkerRoutes
                       \cup ReviewRoutes
    BY DEF OperatorRoutes, OutboxRoutes, CloseoutRoutes, SidecarApprovalRoutes, SidecarReviewRoutes,
           SidecarStartRoutes, CleanupRoutes, WakeRoutes, SweepRoutes, SubscribeRoutes, PartyRoutes,
           WorkerRoutes, ExchangeRoutes, ReviewRoutes, ApprovalRoutes, PartyIdRoutes, TaskWorkerRoutes
  <1>2. Privileged(r.who.role)
    BY <1>1 DEF Asserted
  <1> QED BY <1>1, <1>2 DEF Entitled

LEMMA PartyAsserts ==
    ASSUME NEW r, r.route \in {"tasks", "tasks/approve", "tasks/reassign", "tasks/cancel",
                               "proposals", "proposals/approve", "workers/register"},
           Asserted(r)
    PROVE  /\ r.who.id = r.actor.id
           /\ Privileged(r.actor.role) => r.who.role = r.actor.role
           /\ r.route \in ApprovalRoutes => Privileged(r.who.role)
  <1>1. r.route \notin OperatorRoutes \cup SubscribeRoutes \cup PartyIdRoutes
    BY DEF OperatorRoutes, OutboxRoutes, CloseoutRoutes, SidecarApprovalRoutes, SidecarReviewRoutes,
           SidecarStartRoutes, CleanupRoutes, WakeRoutes, SweepRoutes, SubscribeRoutes, PartyIdRoutes,
           TaskWorkerRoutes
  <1>2. r.route \in PartyRoutes /\ r.route # "proposals/artifacts"
    BY DEF PartyRoutes, WorkerRoutes, ExchangeRoutes, ReviewRoutes, ApprovalRoutes
  <1>3. /\ MatchesParty(r.who, PartyOf(r.route, r.actor))
        /\ r.route \in ApprovalRoutes => Privileged(r.who.role)
    BY <1>1, <1>2 DEF Asserted
  <1> QED BY <1>1, <1>3 DEF MatchesParty, PartyOf

LEMMA PartyIdAsserts ==
    ASSUME NEW r \in Requests, r.route \in {"tasks/claim", "tasks/complete", "proposals/validate"},
           Asserted(r)
    PROVE  r.who.id = r.actor.id
  <1>1. r.route \notin OperatorRoutes \cup SubscribeRoutes
    BY DEF OperatorRoutes, OutboxRoutes, CloseoutRoutes, SidecarApprovalRoutes, SidecarReviewRoutes,
           SidecarStartRoutes, CleanupRoutes, WakeRoutes, SweepRoutes, SubscribeRoutes
  <1>2. r.route \in PartyIdRoutes /\ r.route # "proposals/artifacts"
    BY DEF PartyIdRoutes, TaskWorkerRoutes
  <1>3. MatchesParty(r.who, PartyOf(r.route, r.actor))
    BY <1>1, <1>2 DEF Asserted
  <1>4. r.actor \in Parties
    BY DEF Requests
  <1>5. [r.actor EXCEPT !.role = NoRole].id = r.actor.id
    BY <1>4 DEF Parties
  <1> QED BY <1>2, <1>3, <1>5 DEF MatchesParty, PartyOf

(* Whom each route entitles, told route by route.                          *)
LEMMA Entitlements ==
    ASSUME NEW r
    PROVE  /\ r.route \in {"tasks/approve", "tasks/reassign"} => (Entitled(r) <=> Privileged(r.who.role))
           /\ r.route \in {"tasks/claim", "tasks/complete"} => (Entitled(r) <=> r.who.id = gwTask.assigned)
           /\ r.route \in {"tasks/cancel", "tasks/events"} =>
                 (Entitled(r) <=> Privileged(r.who.role) \/ r.who.id \in {gwTask.requester, gwTask.assigned})
           /\ r.route = "proposals/approve" =>
                 (Entitled(r) <=> r.who.role = "operator" \/ r.who.id = gwProposal.target)
           /\ r.route = "proposals/artifacts" =>
                 (Entitled(r) <=> r.who.role = "operator" \/ r.who.id \in {gwProposal.source, gwProposal.target})
           /\ r.route = "proposals/validate" =>
                 (Entitled(r) <=> r.who.id \in {gwProposal.source, gwProposal.target})
           /\ r.route \in {"tasks", "proposals", "workers/register"} => (Entitled(r) <=> r.who.id = r.actor.id)
  <1>1. /\ "tasks/approve" \in ApprovalRoutes /\ "tasks/reassign" \in ApprovalRoutes
        /\ \A x \in {"tasks/claim", "tasks/complete", "tasks/cancel", "tasks/events", "proposals/approve",
                     "proposals/artifacts", "proposals/validate", "tasks", "proposals", "workers/register"} :
              x \notin OperatorRoutes \cup ApprovalRoutes
    BY DEF OperatorRoutes, OutboxRoutes, CloseoutRoutes, SidecarApprovalRoutes, SidecarReviewRoutes,
           SidecarStartRoutes, CleanupRoutes, WakeRoutes, SweepRoutes, ApprovalRoutes
  <1>2. /\ "tasks/claim" \in TaskWorkerRoutes /\ "tasks/complete" \in TaskWorkerRoutes
        /\ \A x \in {"tasks/approve", "tasks/reassign", "tasks/cancel", "tasks/events", "proposals/approve",
                     "proposals/artifacts", "proposals/validate", "tasks", "proposals", "workers/register"} :
              x \notin TaskWorkerRoutes
        /\ "proposals/approve" \in ReviewRoutes
        /\ \A x \in {"tasks/approve", "tasks/reassign", "tasks/claim", "tasks/complete", "tasks/cancel",
                     "tasks/events", "proposals/artifacts", "proposals/validate", "tasks", "proposals",
                     "workers/register"} : x \notin ReviewRoutes
    BY DEF TaskWorkerRoutes, ReviewRoutes
  <1> QED BY <1>1, <1>2 DEF Entitled

LEMMA TaskChangeEntitled ==
    ASSUME NEW r \in Requests, Asserted(r), HandleTask(r)
    PROVE  Entitled(r)
  <1>1. CASE r.route \in {"tasks", "tasks/approve", "tasks/reassign"}
    BY <1>1, PartyAsserts, Entitlements DEF ApprovalRoutes
  <1>2. CASE r.route = "tasks/claim" /\ AssignedWorker(r.actor)
    BY <1>2, PartyIdAsserts, Entitlements DEF AssignedWorker
  <1>3. CASE r.route = "tasks/complete" /\ AssignedWorker(r.actor)
    BY <1>3, PartyIdAsserts, Entitlements DEF AssignedWorker
  <1>4. CASE r.route = "tasks/cancel" /\ MayCancel(r.actor)
    BY <1>4, PartyAsserts, Entitlements DEF MayCancel
  <1>5. CASE r.route = "tasks/requeue_stale"
    <2>1. r.route \in OperatorRoutes
      BY <1>5 DEF OperatorRoutes, SweepRoutes
    <2> QED BY <2>1, OperatorAsserts
  <1> QED BY <1>1, <1>2, <1>3, <1>4, <1>5 DEF HandleTask

LEMMA ProposalChangeEntitled ==
    ASSUME NEW r \in Requests, Asserted(r), HandleProposal(r)
    PROVE  Entitled(r)
  <1>1. CASE r.route = "proposals"
    BY <1>1, PartyAsserts, Entitlements
  <1>2. CASE r.route = "proposals/validate" /\ r.actor.id \in {gwProposal.source, gwProposal.target}
    BY <1>2, PartyIdAsserts, Entitlements
  <1>3. CASE r.route = "proposals/approve" /\ MayReview(r.actor)
    BY <1>3, PartyAsserts, Entitlements DEF MayReview, Privileged
  <1>4. CASE r.route = "proposals/artifacts"
    <2>1. r.route \notin OperatorRoutes \cup SubscribeRoutes
      BY <1>4 DEF OperatorRoutes, OutboxRoutes, CloseoutRoutes, SidecarApprovalRoutes,
         SidecarReviewRoutes, SidecarStartRoutes, CleanupRoutes, WakeRoutes, SweepRoutes, SubscribeRoutes
    <2>2. r.route \notin PartyRoutes \cup PartyIdRoutes
      BY <1>4 DEF PartyRoutes, WorkerRoutes, ExchangeRoutes, ReviewRoutes, ApprovalRoutes,
         PartyIdRoutes, TaskWorkerRoutes
    <2>3. CanTouchArtifacts(r.who)
      BY <1>4, <2>1, <2>2 DEF Asserted
    <2> QED BY <1>4, <2>3, Entitlements DEF CanTouchArtifacts
  <1> QED BY <1>1, <1>2, <1>3, <1>4 DEF HandleProposal

LEMMA HandleEntitled ==
    ASSUME NEW r \in Requests, Handle(r)
    PROVE  gwEntitled'
  <1>1. gwEntitled' = Entitled(r) /\ Asserted(r)
    BY DEF Handle
  <1>2. CASE HandleTask(r)
    BY <1>1, <1>2, TaskChangeEntitled
  <1>3. CASE HandleProposal(r)
    BY <1>1, <1>3, ProposalChangeEntitled
  <1>4. CASE Register(r)
    <2>1. r.route = "workers/register"
      BY <1>4 DEF Register
    <2>2. Entitled(r)
      BY <1>1, <2>1, PartyAsserts, Entitlements
    <2> QED BY <1>1, <2>2
  <1> QED BY <1>2, <1>3, <1>4 DEF Handle

LEMMA AnswerEntitled ==
    ASSUME NEW r \in AnswerRequests, Answer(r)
    PROVE  gwEntitled'
  <1>1. gwEntitled' = Entitled(r) /\ Asserted(r)
    BY DEF Answer
  <1>2. CASE r.route \in OperatorRoutes
    BY <1>1, <1>2, OperatorAsserts
  <1>3. CASE r.route \notin OperatorRoutes
    <2>1. r.route = "tasks/events"
      BY <1>3 DEF Answer, SubscribeRoutes
    <2>2. r.route \in SubscribeRoutes
      BY <2>1 DEF SubscribeRoutes
    <2>3. r.route \notin PartyRoutes \cup PartyIdRoutes
      BY <2>1 DEF PartyRoutes, WorkerRoutes, ExchangeRoutes, ReviewRoutes, ApprovalRoutes,
         PartyIdRoutes, TaskWorkerRoutes
    <2>4. CanSubscribe(r.who)
      BY <1>1, <1>3, <2>1, <2>2, <2>3 DEF Asserted
    <2>5. Entitled(r)
      BY <2>1, <2>4, Entitlements DEF CanSubscribe
    <2> QED BY <1>1, <2>5
  <1> QED BY <1>2, <1>3

(* assertRequesterMatchesParty, the role assertions and the broker's own   *)
(* checks together: every change and every answer of an HTTP route was     *)
(* asked for by someone entitled to it by headers and records as they      *)
(* stand when the body has arrived, and SendMessage leaves no context      *)
(* without its task.                                                       *)
THEOREM RequestsSoundHolds == GatewaySpec => []RequestsSound
  <1>1. GatewayInit => GatewayInv
    BY DEF GatewayInit, GatewayInv, RequestsSound, ChangesAreEntitled, ContextHasTask
  <1>2. GatewayInv /\ [GatewayNext]_gwVars => GatewayInv'
    <2> SUFFICES ASSUME GatewayInv, [GatewayNext]_gwVars PROVE GatewayInv'
      OBVIOUS
    <2> USE DEF GatewayInv, RequestsSound, ChangesAreEntitled, ContextHasTask
    <2>1. ASSUME NEW r \in Requests, Serve(r) PROVE GatewayInv'
      BY <2>1, HandleEntitled DEF Serve
    <2>2. ASSUME NEW r \in Requests, Arrive(r) PROVE GatewayInv'
      BY <2>2 DEF Arrive
    <2>3. ASSUME NEW r \in AnswerRequests, Answer(r) PROVE GatewayInv'
      <3>1. gwEntitled' /\ UNCHANGED <<gwContext, gwSlow>>
        BY <2>3, AnswerEntitled DEF Answer
      <3> QED BY <3>1
    <2>4. CASE Finish
      BY <2>4, HandleEntitled DEF Finish
    <2>5. CASE Refuse
      BY <2>5 DEF Refuse
    <2>6. ASSUME NEW who, NEW actor, RpcCancelTask(who, actor) PROVE GatewayInv'
      BY <2>6 DEF RpcCancelTask
    <2>7. ASSUME NEW who, NEW actor, NEW t, NEW w, SendMessage(who, actor, t, w) PROVE GatewayInv'
      BY <2>7 DEF SendMessage
    <2>8. CASE UNCHANGED gwVars
      BY <2>8 DEF gwVars
    <2> QED BY <2>1, <2>2, <2>3, <2>4, <2>5, <2>6, <2>7, <2>8 DEF GatewayNext
  <1>3. GatewayInv => RequestsSound
    BY DEF GatewayInv
  <1> QED BY <1>1, <1>2, <1>3, PTL DEF GatewaySpec

-----------------------------------------------------------------------------
(* OperatorCleanup *)

CleanupRow == [state : {"absent", "active", "terminal"}, worker : CuWorkers \cup {0}, at : Nat]

CleanupTyped ==
    /\ cuTasks \in [CuTasks -> CleanupRow]
    /\ cuSeen \in [CuWorkers -> Nat]
    /\ cuAudit \in [Subjects -> Nat]
    /\ cuEvent \in Nat
    /\ cuNow \in 0..MaxCuNow

LEMMA TimesAreNoMarks == ASSUME CleanupTyped PROVE cuNow \in Nat /\ cuNow # NoTime
  BY CleanupAssumption DEF CleanupTyped, NoTime, Unacked

LEMMA CleanupInitTyped == CleanupInit => CleanupTyped
  BY CleanupAssumption DEF CleanupInit, CleanupTyped, CleanupRow, NoRow, NoTime, NoEvent

LEMMA CleanupNextTyped == CleanupTyped /\ [CleanupNext]_cuVars => CleanupTyped'
  <1> SUFFICES ASSUME CleanupTyped, [CleanupNext]_cuVars PROVE CleanupTyped'
    OBVIOUS
  <1>0. cuNow \in Nat /\ NoTime \in Nat /\ Unacked \in Nat /\ NoRow \in CleanupRow
    BY TimesAreNoMarks DEF NoTime, Unacked, NoRow, CleanupRow
  <1>1. ASSUME NEW o, ReadPlan(o) PROVE CleanupTyped'
    BY <1>1 DEF ReadPlan, CleanupTyped
  <1>2. ASSUME NEW allow, Execute(allow) PROVE CleanupTyped'
    <2> DEFINE plan == BuildPlan(cuPlan.opts)
    <2>1. /\ cuTasks' = [t \in CuTasks |-> IF t \in plan.tasks THEN NoRow ELSE cuTasks[t]]
          /\ cuSeen' = [w \in CuWorkers |-> IF w \in plan.workers THEN NoTime ELSE cuSeen[w]]
          /\ cuAudit' = [s \in Subjects |-> IF s \in plan.audit THEN NoTime ELSE cuAudit[s]]
          /\ UNCHANGED <<cuEvent, cuNow, cuPlan>>
      BY <1>2 DEF Execute
    <2> HIDE DEF plan
    <2> QED BY <1>0, <2>1 DEF CleanupTyped
  <1>3. ASSUME NEW t \in CuTasks, WriteTerminalTask(t) PROVE CleanupTyped'
    <2>1. [cuTasks EXCEPT ![t].state = "terminal", ![t].at = cuNow] \in [CuTasks -> CleanupRow]
      BY <1>0 DEF CleanupTyped, CleanupRow
    <2> QED BY <1>0, <1>3, <2>1 DEF WriteTerminalTask, CleanupTyped
  <1>4. ASSUME NEW t \in CuTasks, NEW w \in CuWorkers, WriteNewTask(t, w) PROVE CleanupTyped'
    <2>1. [state |-> "active", worker |-> w, at |-> cuNow] \in CleanupRow
      BY <1>0 DEF CleanupRow
    <2> QED BY <1>0, <1>4, <2>1 DEF WriteNewTask, CleanupTyped
  <1>5. ASSUME NEW w \in CuWorkers, WriteHeartbeat(w) PROVE CleanupTyped'
    BY <1>0, <1>5 DEF WriteHeartbeat, CleanupTyped
  <1>6. CASE WriteAck
    BY <1>0, <1>6 DEF WriteAck, CleanupTyped
  <1>7. CASE CleanupTick
    BY <1>7, CleanupAssumption DEF CleanupTick, CleanupTyped, Unacked
  <1>8. CASE UNCHANGED cuVars
    BY <1>8 DEF cuVars, CleanupTyped
  <1> QED BY <1>1, <1>2, <1>3, <1>4, <1>5, <1>6, <1>7, <1>8 DEF CleanupNext

(* With no more task rows than readHotTasks reads, every active task's     *)
(* worker is among the protected ones.                                     *)
LEMMA ActiveWorkersFound ==
    ASSUME CleanupTyped, Cardinality(CuTasks) <= CuMaxRows, NEW t \in TaskRows, cuTasks[t].state = "active"
    PROVE  cuTasks[t].worker \in ActiveWorkerIds
  <1> DEFINE at == [v \in CuTasks |-> cuTasks[v].at]
             newer == {j \in TaskRows : at[j] > at[t] \/ (at[j] = at[t] /\ <<j, t>> \in Smaller)}
  <1>1. t \in CuTasks /\ TaskRows \subseteq CuTasks
    BY DEF TaskRows
  <1>2. at[t] \in Nat /\ t \in Nat
    BY <1>1, CleanupAssumption DEF CleanupTyped, CleanupRow
  <1>3. t \notin newer
    BY <1>2 DEF Smaller
  <1>4. newer \subseteq CuTasks \ {t}
    BY <1>1, <1>3
  <1> HIDE DEF newer
  <1>5. IsFiniteSet(CuTasks) /\ Cardinality(CuTasks) \in Nat
    BY CleanupAssumption, FS_CardinalityType
  <1>6. IsFiniteSet(CuTasks \ {t}) /\ Cardinality(CuTasks \ {t}) = Cardinality(CuTasks) - 1
    BY <1>1, <1>5, FS_RemoveElement
  <1>7. Cardinality(newer) \in Nat /\ Cardinality(newer) <= Cardinality(CuTasks \ {t})
    BY <1>4, <1>6, FS_Subset, FS_CardinalityType
  <1>8. Cardinality(newer) < CuMaxRows
    BY <1>5, <1>6, <1>7, CleanupAssumption
  <1>9. t \in Newest(TaskRows, at, Smaller, CuMaxRows)
    BY <1>8 DEF Newest, newer
  <1> QED BY <1>9 DEF ActiveWorkerIds

LEMMA PlansAgree ==
    ASSUME CleanupTyped, Cardinality(CuTasks) <= CuMaxRows
    PROVE  PlansAgreeWithDiscovery
  <1> SUFFICES ASSUME NEW o \in Options
               PROVE  /\ \A w \in PruneWorkers(o) :
                            <<"stale_worker", w, "caution">> \in DiscoverCleanupCandidates(o.now)
                      /\ \A t \in PruneTasks(o) :
                            <<"historical_terminal_task", t, "safe">> \in DiscoverCleanupCandidates(o.now)
                      /\ PruneOutbox(o) => OutboxBacklog = {}
    BY DEF PlansAgreeWithDiscovery
  <1>0. o.now = cuNow /\ cuNow \in Nat
    BY TimesAreNoMarks DEF Options
  <1>1. ASSUME NEW w \in PruneWorkers(o)
        PROVE  <<"stale_worker", w, "caution">> \in DiscoverCleanupCandidates(o.now)
    <2>1. w \in WorkerRows /\ w \notin ActiveWorkerIds /\ Expired(cuSeen[w], o.now)
      BY DEF PruneWorkers
    <2>2. ~HasActiveTasks(w)
      BY <2>1, ActiveWorkersFound DEF HasActiveTasks
    <2>3. <<"stale_worker", w, "caution">> \in StaleWorkerCandidates(o.now)
      BY <2>1, <2>2 DEF StaleWorkerCandidates
    <2> QED BY <2>3 DEF DiscoverCleanupCandidates
  <1>2. ASSUME NEW t \in PruneTasks(o)
        PROVE  <<"historical_terminal_task", t, "safe">> \in DiscoverCleanupCandidates(o.now)
    <2>1. t \in TaskRows /\ cuTasks[t].state = "terminal" /\ Expired(cuTasks[t].at, o.now)
      BY DEF PruneTasks
    <2>2. cuTasks[t].at \in Nat
      BY <2>1 DEF TaskRows, CleanupTyped, CleanupRow
    <2>3. cuTasks[t].at + CuRetention <= o.now
      BY <1>0, <2>1, <2>2, CleanupAssumption DEF Expired
    <2>4. <<"historical_terminal_task", t, "safe">> \in HistoricalTasks(o.now)
      BY <2>1, <2>3 DEF HistoricalTasks
    <2> QED BY <2>4 DEF DiscoverCleanupCandidates
  <1>3. PruneOutbox(o) => OutboxBacklog = {}
    BY DEF PruneOutbox, OutboxBacklog, Unacked
  <1> QED BY <1>1, <1>2, <1>3

(* What one execution takes.                                               *)
LEMMA ExecuteSafe ==
    ASSUME CleanupTyped, Cardinality(CuTasks) <= CuMaxRows, NEW allow, Execute(allow)
    PROVE  PrunedWasReviewed /\ HeldWorkersStay /\ RetainedHasAudit
  <1> DEFINE o == cuPlan.opts
  <1>1. /\ cuTasks' = [t \in CuTasks |-> IF t \in PruneTasks(o) THEN NoRow ELSE cuTasks[t]]
        /\ cuSeen' = [w \in CuWorkers |-> IF w \in PruneWorkers(o) THEN NoTime ELSE cuSeen[w]]
        /\ cuAudit' = [s \in Subjects |-> IF s \in PruneAudit(o) THEN NoTime ELSE cuAudit[s]]
        /\ BuildPlan(o) = cuPlan
    BY DEF Execute, BuildPlan, ValidateCleanupExecution
  <1>2. cuPlan.tasks = PruneTasks(o) /\ cuPlan.workers = PruneWorkers(o) /\ cuPlan.audit = PruneAudit(o)
    <2>1. /\ BuildPlan(o).tasks = PruneTasks(o) /\ BuildPlan(o).workers = PruneWorkers(o)
          /\ BuildPlan(o).audit = PruneAudit(o)
      BY DEF BuildPlan
    <2> QED BY <1>1, <2>1
  <1> HIDE DEF o
  <1>3. PrunedWasReviewed
    BY <1>1, <1>2 DEF PrunedWasReviewed, TaskRows, WorkerRows, AuditRows
  <1>4. HeldWorkersStay
    <2> SUFFICES ASSUME NEW t \in TaskRows, cuTasks[t].state = "active", cuTasks[t].worker \in WorkerRows
                 PROVE  cuSeen'[cuTasks[t].worker] # NoTime
      BY DEF HeldWorkersStay
    <2>1. cuTasks[t].worker \notin PruneWorkers(o)
      BY ActiveWorkersFound DEF PruneWorkers
    <2> QED BY <1>1, <2>1 DEF WorkerRows
  <1>5. RetainedHasAudit
    <2> SUFFICES ASSUME NEW s \in AuditRows, cuAudit'[s] = NoTime
                 PROVE  IF s[1] = "task" THEN cuTasks'[s[2]] = NoRow ELSE cuSeen'[s[2]] = NoTime
      BY DEF RetainedHasAudit
    <2>1. s \in Subjects /\ s \in PruneAudit(o)
      BY <1>1 DEF AuditRows
    <2>2. ~AuditProtected(s, PruneTasks(o), PruneWorkers(o))
      BY <2>1 DEF PruneAudit
    <2>3. \/ s[1] = "task" /\ s[2] \in CuTasks
          \/ s[1] = "worker" /\ s[2] \in CuWorkers
      BY <2>1 DEF Subjects
    <2> QED BY <1>1, <2>2, <2>3 DEF AuditProtected, TaskRows, WorkerRows
  <1> QED BY <1>3, <1>4, <1>5

(* Every other step takes no row.                                          *)
LEMMA WritesTakeNothing ==
    ASSUME CleanupTyped,
           \A t \in TaskRows : cuTasks'[t] # NoRow,
           \A w \in WorkerRows : cuSeen'[w] # NoTime,
           \A s \in AuditRows : cuAudit'[s] # NoTime
    PROVE  PrunedWasReviewed /\ HeldWorkersStay /\ RetainedHasAudit
  BY DEF PrunedWasReviewed, HeldWorkersStay, RetainedHasAudit

LEMMA CleanupStepSafe ==
    ASSUME CleanupTyped, Cardinality(CuTasks) <= CuMaxRows, CleanupNext
    PROVE  PrunedWasReviewed /\ HeldWorkersStay /\ RetainedHasAudit
  <1>0. cuNow # NoTime
    BY TimesAreNoMarks
  <1>1. ASSUME NEW allow, Execute(allow)
        PROVE  PrunedWasReviewed /\ HeldWorkersStay /\ RetainedHasAudit
    BY <1>1, ExecuteSafe
  <1>2. ASSUME NEW t \in CuTasks, WriteTerminalTask(t)
        PROVE  PrunedWasReviewed /\ HeldWorkersStay /\ RetainedHasAudit
    <2>1. cuTasks'[t].state = "terminal" /\ \A u \in CuTasks \ {t} : cuTasks'[u] = cuTasks[u]
      BY <1>2 DEF WriteTerminalTask, CleanupTyped, CleanupRow
    <2>2. cuTasks'[t] # NoRow
      BY <2>1 DEF NoRow
    <2> QED BY <1>2, <2>1, <2>2, WritesTakeNothing
            DEF WriteTerminalTask, TaskRows, WorkerRows, AuditRows
  <1>3. ASSUME NEW t \in CuTasks, NEW w \in CuWorkers, WriteNewTask(t, w)
        PROVE  PrunedWasReviewed /\ HeldWorkersStay /\ RetainedHasAudit
    <2>1. \A u \in CuTasks \ {t} : cuTasks'[u] = cuTasks[u]
      BY <1>3 DEF WriteNewTask, CleanupTyped
    <2>2. t \notin TaskRows /\ \A s \in AuditRows : cuAudit'[s] # NoTime
      BY <1>0, <1>3 DEF WriteNewTask, TaskRows, AuditRows, CleanupTyped
    <2> QED BY <1>3, <2>1, <2>2, WritesTakeNothing DEF WriteNewTask, TaskRows, WorkerRows
  <1>4. ASSUME NEW w \in CuWorkers, WriteHeartbeat(w)
        PROVE  PrunedWasReviewed /\ HeldWorkersStay /\ RetainedHasAudit
    BY <1>0, <1>4, WritesTakeNothing DEF WriteHeartbeat, TaskRows, WorkerRows, AuditRows, CleanupTyped
  <1>5. ASSUME UNCHANGED <<cuTasks, cuSeen, cuAudit>>
        PROVE  PrunedWasReviewed /\ HeldWorkersStay /\ RetainedHasAudit
    BY <1>5, WritesTakeNothing DEF TaskRows, WorkerRows, AuditRows
  <1> QED BY <1>1, <1>2, <1>3, <1>4, <1>5 DEF CleanupNext, ReadPlan, WriteAck, CleanupTick

(* buildBrokerCleanupPlan and its approval token: a cleanup removes only   *)
(* what the operator has read in the plan, never the worker of an active   *)
(* task or the audit row of a record that stays, and what a plan prunes    *)
(* the discovery reports without a high risk.  The hypothesis is the limit *)
(* of the scan: workers of active tasks are looked for in CuMaxRows rows.  *)
THEOREM CleanupIsSafeHolds ==
    ASSUME Cardinality(CuTasks) <= CuMaxRows
    PROVE  CleanupSpec => CleanupIsSafe
  <1>1. CleanupInit => CleanupTyped
    BY CleanupInitTyped
  <1>2. CleanupTyped /\ [CleanupNext]_cuVars => CleanupTyped'
    BY CleanupNextTyped
  <1>3. CleanupTyped /\ [CleanupNext]_cuVars =>
          [/\ cuVars' # cuVars => PrunedWasReviewed /\ HeldWorkersStay /\ RetainedHasAudit
           /\ cuPlan' # cuPlan => PlansAgreeWithDiscovery]_cuVars
    BY CleanupStepSafe, PlansAgree
  <1> QED BY <1>1, <1>2, <1>3, PTL DEF CleanupSpec, CleanupIsSafe

-----------------------------------------------------------------------------
(* DecisionDialectic *)

First(n) == {Phases[j] : j \in 1..n}

RoundStates == {"OPEN", "THESIS_SUBMITTED", "ANTITHESIS_SUBMITTED", "REBUTTAL_SUBMITTED", "WAITING"}
               \cup TerminalDecisionStates
RoundType == [filled : SUBSET PhaseSet, revision : 0..5, state : RoundStates, phase : PhaseSet,
              blocker : BOOLEAN, decision : {<<>>} \cup (Verdicts \X BOOLEAN)]
PatchType == [op : PhaseSet, author : Agents, expectedRevision : 0..5, basis : 0..5,
              saw : SUBSET PhaseSet, blocker : BOOLEAN, action : Verdicts,
              verdict : {"PROCEED", "VETO"}, hardVeto : BOOLEAN]

(* The phases are filled in their order; the phase named, the state and    *)
(* the decision are those of the number filled.                            *)
RoundInOrder ==
    /\ ddRound \in RoundType
    /\ ddRound.filled = First(ddRound.revision)
    /\ ddRound.revision < 5 => ddRound.phase = Phases[ddRound.revision + 1]
    /\ ddRound.revision = 5 => ddRound.phase = "outcome"
    /\ ddRound.revision < 4 => ddRound.state \notin TerminalDecisionStates \cup {"WAITING"}
                               /\ ddRound.decision = <<>>
    /\ ddRound.revision >= 4 => ddRound.state \in TerminalDecisionStates \cup {"WAITING"}
                                /\ ddRound.decision \in Verdicts \X BOOLEAN

(* Whoever writes a patch has the phases of the revision he writes for.    *)
DraftInOrder == ddDraft = NoDraft \/ (ddDraft \in PatchType /\ ddDraft.saw = First(ddDraft.expectedRevision))

KidsInOrder == ddKids \in [PhaseSet -> 0..9]
               /\ \A i \in 1..5 : ddKids[Phases[i]] \in {i - 1, NoChild}

SawInOrder == ddSaw \in [PhaseSet -> SUBSET PhaseSet]
              /\ \A i \in 1..5 : Phases[i] \in ddRound.filled => ddSaw[Phases[i]] = First(i - 1)

DialecticInv == RoundInOrder /\ DraftInOrder /\ KidsInOrder /\ SawInOrder

LEMMA PhaseFacts ==
    /\ DOMAIN Phases = 1..5
    /\ PhaseSet = {"thesis", "antithesis", "rebuttal", "synthesis", "outcome"}
    /\ Phases[1] = "thesis" /\ Phases[2] = "antithesis" /\ Phases[3] = "rebuttal"
    /\ Phases[4] = "synthesis" /\ Phases[5] = "outcome"
  <1>1. /\ DOMAIN Phases = 1..5
        /\ Phases[1] = "thesis" /\ Phases[2] = "antithesis" /\ Phases[3] = "rebuttal"
        /\ Phases[4] = "synthesis" /\ Phases[5] = "outcome"
    BY DEF Phases
  <1>2. \A i \in 1..5 : i \in {1, 2, 3, 4, 5}
    OBVIOUS
  <1> HIDE DEF Phases
  <1>3. PhaseSet = {"thesis", "antithesis", "rebuttal", "synthesis", "outcome"}
    BY <1>1, <1>2 DEF PhaseSet
  <1> QED BY <1>1, <1>3

LEMMA FirstFacts ==
    /\ First(0) = {} /\ First(1) = {"thesis"} /\ First(2) = {"thesis", "antithesis"}
    /\ First(3) = {"thesis", "antithesis", "rebuttal"}
    /\ First(4) = {"thesis", "antithesis", "rebuttal", "synthesis"}
    /\ First(5) = PhaseSet
  <1>1. /\ 1..0 = {} /\ 1..1 = {1} /\ 1..2 = {1, 2} /\ 1..3 = {1, 2, 3} /\ 1..4 = {1, 2, 3, 4}
        /\ 1..5 = {1, 2, 3, 4, 5}
    OBVIOUS
  <1>2. First(0) = {} /\ First(1) = {"thesis"} /\ First(2) = {"thesis", "antithesis"}
    BY <1>1, PhaseFacts DEF First
  <1>3. First(3) = {"thesis", "antithesis", "rebuttal"}
    BY <1>1, PhaseFacts DEF First
  <1>4. First(4) = {"thesis", "antithesis", "rebuttal", "synthesis"}
    BY <1>1, PhaseFacts DEF First
  <1>5. First(5) = PhaseSet
    BY <1>1, PhaseFacts DEF First
  <1> QED BY <1>2, <1>3, <1>4, <1>5

LEMMA InFirst ==
    ASSUME NEW n \in 0..5, NEW i \in 1..5
    PROVE  (Phases[i] \in First(n) <=> i <= n) /\ First(n) \subseteq PhaseSet
  <1>1. n \in {0, 1, 2, 3, 4, 5} /\ i \in {1, 2, 3, 4, 5}
    OBVIOUS
  <1> QED BY <1>1, FirstFacts, PhaseFacts

(* The first missing phase.                                                *)
LEMMA NextOfFirst ==
    ASSUME NEW n \in 0..5
    PROVE  NextPhase(First(n)) = IF n = 5 THEN "none" ELSE Phases[n + 1]
  <1>1. CASE n = 5
    BY <1>1, FirstFacts DEF NextPhase
  <1>2. CASE n # 5
    <2>1. n + 1 \in 1..5 /\ n + 1 \in DOMAIN Phases
      BY <1>2, PhaseFacts
    <2>2. First(n) # PhaseSet
      <3>1. Phases[n + 1] \notin First(n)
        BY <2>1, InFirst
      <3>2. Phases[n + 1] \in PhaseSet
        BY <2>1 DEF PhaseSet
      <3> QED BY <3>1, <3>2
    <2> DEFINE Q(i) == Phases[i] \notin First(n) /\ \A j \in 1..(i - 1) : Phases[j] \in First(n)
    <2>3. Q(n + 1)
      <3>1. \A j \in 1..((n + 1) - 1) : j \in 1..5 /\ j <= n
        BY <2>1
      <3>2. ASSUME NEW j \in 1..((n + 1) - 1) PROVE Phases[j] \in First(n)
        BY <3>1, InFirst
      <3>3. Phases[n + 1] \notin First(n)
        BY <2>1, InFirst
      <3>4. \A j \in 1..((n + 1) - 1) : Phases[j] \in First(n)
        BY <3>2
      <3> QED BY ONLY <3>3, <3>4, Zenon DEF Q
    <2>4. ASSUME NEW i \in DOMAIN Phases, Q(i) PROVE i = n + 1
      <3>1. i \in 1..5 /\ i > n
        BY <2>4, PhaseFacts, InFirst
      <3>2. ~(n + 1 < i)
        <4> SUFFICES ASSUME n + 1 < i PROVE FALSE
          OBVIOUS
        <4>1. n + 1 \in 1..(i - 1)
          BY <2>1, <3>1
        <4> QED BY <2>1, <2>4, <4>1, InFirst
      <3> QED BY <3>1, <3>2
    <2> HIDE DEF Q
    <2>5. (CHOOSE i \in DOMAIN Phases : Q(i)) = n + 1
      BY <2>1, <2>3, <2>4
    <2>6. NextPhase(First(n)) = Phases[CHOOSE i \in DOMAIN Phases : Q(i)]
      BY <2>2, Zenon DEF NextPhase, Q
    <2> QED BY <1>2, <2>5, <2>6
  <1> QED BY <1>1, <1>2

LEMMA GrowFirst ==
    ASSUME NEW n \in 0..4
    PROVE  /\ First(n) \cup {Phases[n + 1]} = First(n + 1) /\ Phases[n + 1] \in PhaseSet
           /\ n + 1 \in 1..5 /\ n + 1 \in 0..5
  <1>1. n \in {0, 1, 2, 3, 4}
    OBVIOUS
  <1> QED BY <1>1, FirstFacts, PhaseFacts

(* A patch that is allowed writes the first missing phase.                 *)
LEMMA AllowedIsNext ==
    ASSUME NEW n \in 0..5, NEW op \in PhaseSet, op \notin First(n), Prerequisites(op) \subseteq First(n)
    PROVE  n \in 0..4 /\ op = Phases[n + 1]
  <1>1. n \in {0, 1, 2, 3, 4, 5}
    OBVIOUS
  <1>2. CASE op = "thesis"
    BY <1>1, <1>2, FirstFacts, PhaseFacts
  <1>3. CASE op = "antithesis"
    <2>1. "thesis" \in First(n)
      BY <1>3 DEF Prerequisites
    <2> QED BY <1>1, <1>3, <2>1, FirstFacts, PhaseFacts
  <1>4. CASE op = "rebuttal"
    <2>1. "antithesis" \in First(n)
      BY <1>4 DEF Prerequisites
    <2> QED BY <1>1, <1>4, <2>1, FirstFacts, PhaseFacts
  <1>5. CASE op = "synthesis"
    <2>1. "rebuttal" \in First(n)
      BY <1>5 DEF Prerequisites
    <2> QED BY <1>1, <1>5, <2>1, FirstFacts, PhaseFacts
  <1>6. CASE op = "outcome"
    <2>1. "synthesis" \in First(n)
      BY <1>6 DEF Prerequisites
    <2> QED BY <1>1, <1>6, <2>1, FirstFacts, PhaseFacts
  <1> QED BY <1>2, <1>3, <1>4, <1>5, <1>6, PhaseFacts

LEMMA StateAfterFacts ==
    ASSUME NEW n \in 0..4, NEW p \in PatchType, p.op = Phases[n + 1]
    PROVE  /\ StateAfter(p) \in RoundStates
           /\ n + 1 < 4 => StateAfter(p) \notin TerminalDecisionStates \cup {"WAITING"}
           /\ n + 1 >= 4 => StateAfter(p) \in TerminalDecisionStates \cup {"WAITING"}
           /\ n = 3 <=> p.op = "synthesis"
  <1>1. n \in {0, 1, 2, 3, 4}
    OBVIOUS
  <1>2. p.op = "synthesis" => StateAfter(p) \in TerminalDecisionStates \cup {"WAITING"}
    BY DEF StateAfter, StateForVerdict, TerminalDecisionStates
  <1> QED BY <1>1, <1>2, PhaseFacts DEF StateAfter, RoundStates, TerminalDecisionStates

LEMMA PatchStep ==
    ASSUME DialecticInv, NEW p \in PatchType, p.saw = First(p.expectedRevision), Patch(p)
    PROVE  DialecticInv'
  <1>1. PICK n \in 0..5 : n = ddRound.revision
    BY DEF DialecticInv, RoundInOrder, RoundType
  <1>2. /\ p.expectedRevision = n /\ p.op \notin First(n) /\ Prerequisites(p.op) \subseteq First(n)
        /\ ddRound.filled = First(n) /\ ddRound \in RoundType
    BY <1>1 DEF Patch, PatchAllowed, DialecticInv, RoundInOrder
  <1>3. p.op \in PhaseSet /\ p.saw = First(n) /\ p.blocker \in BOOLEAN
        /\ p.action \in Verdicts /\ p.hardVeto \in BOOLEAN
    BY <1>2 DEF PatchType
  <1>4. n \in 0..4 /\ p.op = Phases[n + 1]
    BY <1>2, <1>3, AllowedIsNext
  <1>5. /\ First(n) \cup {p.op} = First(n + 1) /\ n + 1 \in 0..5 /\ n + 1 \in 1..5
    BY <1>4, GrowFirst
  <1> DEFINE d == IF p.op = "synthesis" THEN <<p.action, p.hardVeto>> ELSE ddRound.decision
             f == IF NextPhase(First(n + 1)) = "none" THEN ddRound.phase ELSE NextPhase(First(n + 1))
             r == ApplyPatch(p)
  <1>6. /\ ddRound' = r /\ ddSaw' = [ddSaw EXCEPT ![p.op] = First(n)] /\ UNCHANGED <<ddKids, ddDraft>>
    BY <1>3 DEF Patch
  <1>7. r = [ddRound EXCEPT !.filled = First(n + 1), !.revision = n + 1, !.state = StateAfter(p),
                            !.blocker = ddRound.blocker \/ p.blocker, !.decision = d, !.phase = f]
    BY <1>1, <1>2, <1>5 DEF ApplyPatch
  <1>8. /\ StateAfter(p) \in RoundStates
        /\ n + 1 < 4 => StateAfter(p) \notin TerminalDecisionStates \cup {"WAITING"}
        /\ n + 1 >= 4 => StateAfter(p) \in TerminalDecisionStates \cup {"WAITING"}
        /\ n = 3 <=> p.op = "synthesis"
    BY <1>4, StateAfterFacts
  <1>9. /\ n + 1 < 5 => f = Phases[(n + 1) + 1]
        /\ n + 1 = 5 => f = "outcome"
        /\ f \in PhaseSet
    <2>1. NextPhase(First(n + 1)) = IF n + 1 = 5 THEN "none" ELSE Phases[(n + 1) + 1]
      BY <1>5, NextOfFirst
    <2>2. CASE n + 1 = 5
      <3>1. ddRound.phase = Phases[5]
        BY <1>1, <2>2 DEF DialecticInv, RoundInOrder
      <3> QED BY <2>1, <2>2, <3>1, PhaseFacts
    <2>3. CASE n + 1 # 5
      <3>1. n + 1 \in 0..4
        BY <1>5, <2>3
      <3>2. Phases[(n + 1) + 1] \in PhaseSet
        BY <3>1, GrowFirst
      <3>3. Phases[(n + 1) + 1] # "none"
        BY <3>2, PhaseFacts
      <3> QED BY <2>1, <2>3, <3>2, <3>3
    <2> QED BY <2>2, <2>3
  <1>10. /\ n + 1 < 4 => d = <<>>
         /\ n + 1 >= 4 => d \in Verdicts \X BOOLEAN
    <2>1. n < 4 => ddRound.decision = <<>>
      BY <1>1 DEF DialecticInv, RoundInOrder
    <2>2. n >= 4 => ddRound.decision \in Verdicts \X BOOLEAN
      BY <1>1 DEF DialecticInv, RoundInOrder
    <2> QED BY <1>3, <1>4, <1>8, <2>1, <2>2
  <1>11. d \in {<<>>} \cup (Verdicts \X BOOLEAN)
    BY <1>4, <1>10
  <1> HIDE DEF d, f, r
  <1>12. /\ r \in RoundType /\ r.filled = First(n + 1) /\ r.revision = n + 1 /\ r.state = StateAfter(p)
         /\ r.decision = d /\ r.phase = f
    <2>1. First(n + 1) \in SUBSET PhaseSet
      BY <1>5, InFirst
    <2>2. (ddRound.blocker \/ p.blocker) \in BOOLEAN
      OBVIOUS
    <2> QED BY <1>2, <1>5, <1>7, <1>8, <1>9, <1>11, <2>1, <2>2 DEF RoundType
  <1>13. RoundInOrder'
    BY <1>6, <1>8, <1>9, <1>10, <1>12 DEF RoundInOrder
  <1>upTo. DraftInOrder' /\ KidsInOrder'
    BY <1>6 DEF DialecticInv, DraftInOrder, KidsInOrder
  <1>15. SawInOrder'
    <2>1. ddSaw \in [PhaseSet -> SUBSET PhaseSet] /\ First(n) \in SUBSET PhaseSet
      BY <1>5, InFirst DEF DialecticInv, SawInOrder
    <2>2. ddSaw' \in [PhaseSet -> SUBSET PhaseSet]
      BY <1>3, <1>6, <2>1
    <2>3. ASSUME NEW i \in 1..5, Phases[i] \in First(n + 1) PROVE ddSaw'[Phases[i]] = First(i - 1)
      <3>1. i <= n + 1 /\ Phases[i] \in PhaseSet
        BY <1>5, <2>3, InFirst, PhaseFacts DEF PhaseSet
      <3>2. CASE i = n + 1
        BY <1>3, <1>4, <1>6, <2>1, <3>2
      <3>3. CASE i # n + 1
        <4>1. Phases[i] \in First(n) /\ Phases[i] # p.op
          BY <1>2, <1>4, <3>1, <3>3, InFirst
        <4>2. ddSaw[Phases[i]] = First(i - 1)
          BY <1>2, <4>1 DEF DialecticInv, SawInOrder
        <4> QED BY <1>6, <2>1, <3>1, <4>1, <4>2
      <3> QED BY <3>2, <3>3
    <2> QED BY <1>6, <1>12, <2>2, <2>3 DEF SawInOrder
  <1> QED BY <1>13, <1>upTo, <1>15 DEF DialecticInv

LEMMA BodyFacts ==
    ASSUME DialecticInv, NEW op \in PhaseSet, NEW a \in Agents, NEW p \in Body(op, a)
    PROVE  p \in PatchType /\ p.saw = First(p.expectedRevision)
  <1>1. ddRound.revision \in 0..5 /\ ddRound.filled = First(ddRound.revision) /\ ddRound.filled \in SUBSET PhaseSet
    BY DEF DialecticInv, RoundInOrder, RoundType
  <1>2. "PROCEED" \in Verdicts
    BY DEF Verdicts
  <1> QED BY <1>1, <1>2 DEF Body, PatchType

LEMMA AdvanceStep ==
    ASSUME DialecticInv, NEW q \in PhaseSet, Advance(q)
    PROVE  DialecticInv'
  <1>1. PICK n \in 0..5 : n = ddRound.revision
    BY DEF DialecticInv, RoundInOrder, RoundType
  <1>2. q = NextPhase(First(n))
    BY <1>1 DEF Advance, DialecticInv, RoundInOrder
  <1>3. n # 5 /\ q = Phases[n + 1]
    BY <1>2, NextOfFirst, PhaseFacts
  <1>4. /\ ddKids' = [ddKids EXCEPT ![q] = IF @ = NoChild THEN n ELSE @]
        /\ UNCHANGED <<ddRound, ddDraft, ddSaw>>
    BY <1>1 DEF Advance
  <1>5. KidsInOrder'
    <2>1. ddKids \in [PhaseSet -> 0..9] /\ \A i \in 1..5 : ddKids[Phases[i]] \in {i - 1, NoChild}
      BY DEF DialecticInv, KidsInOrder
    <2>2. ddKids' \in [PhaseSet -> 0..9]
      BY <1>4, <2>1
    <2>3. ASSUME NEW i \in 1..5 PROVE ddKids'[Phases[i]] \in {i - 1, NoChild}
      <3>1. Phases[i] \in PhaseSet
        BY PhaseFacts DEF PhaseSet
      <3>2. CASE Phases[i] = q
        <4>1. i = n + 1
          <5>1. i \in {1, 2, 3, 4, 5} /\ n \in {0, 1, 2, 3, 4}
            BY <1>3
          <5> QED BY <1>3, <3>2, <5>1, PhaseFacts
        <4> QED BY <1>4, <2>1, <3>1, <3>2, <4>1
      <3>3. CASE Phases[i] # q
        BY <1>4, <2>1, <3>1, <3>3
      <3> QED BY <3>2, <3>3
    <2> QED BY <2>2, <2>3 DEF KidsInOrder
  <1> QED BY <1>4, <1>5 DEF DialecticInv, RoundInOrder, DraftInOrder, SawInOrder

LEMMA InOrderPhasesInTurn == DialecticInv => PhasesInTurn
  <1> SUFFICES ASSUME DialecticInv PROVE PhasesInTurn
    OBVIOUS
  <1>1. PICK n \in 0..5 : n = ddRound.revision
    BY DEF DialecticInv, RoundInOrder, RoundType
  <1>2. ddRound.filled = First(n) /\ First(n) \subseteq PhaseSet
    BY <1>1, InFirst DEF DialecticInv, RoundInOrder
  <1>3. NextPhase(First(n)) = IF n = 5 THEN "none" ELSE Phases[n + 1]
    BY NextOfFirst
  <1>4. SawEarlierPhases
    BY PhaseFacts DEF SawEarlierPhases, DialecticInv, SawInOrder, First
  <1>5. ChildCanAnswer
    <2>1. n < 5 => ddKids[Phases[n + 1]] \in {n, NoChild}
      <3>1. n < 5 => n + 1 \in 1..5 /\ (n + 1) - 1 = n
        OBVIOUS
      <3> QED BY <3>1 DEF DialecticInv, KidsInOrder
    <2> QED BY <1>1, <1>2, <1>3, <2>1 DEF ChildCanAnswer
  <1>6. ReadModelNamesNextPhase
    <2> DEFINE present == {q \in PhaseSet : ReadModel.stages[q]}
    <2>1. /\ ReadModel.revision = n /\ ReadModel.phase = ddRound.phase /\ ReadModel.state = ddRound.state
          /\ ReadModel.stages = Stages /\ ReadModel.card.present = (ddRound.decision # <<>>)
      BY <1>1 DEF ReadModel, DecisionCard
    <2>2. present = First(n)
      BY <1>2, <2>1 DEF Stages
    <2>3. Cardinality(First(n)) = n
      <3>1. n \in {0, 1, 2, 3, 4, 5}
        OBVIOUS
      <3>2. /\ Cardinality({}) = 0 /\ IsFiniteSet({})
        BY FS_EmptySet
      <3>3. ASSUME NEW m \in 0..4, IsFiniteSet(First(m)), Cardinality(First(m)) = m
            PROVE  IsFiniteSet(First(m + 1)) /\ Cardinality(First(m + 1)) = m + 1
        <4>1. First(m + 1) = First(m) \cup {Phases[m + 1]} /\ m + 1 \in 1..5
          BY GrowFirst
        <4>2. Phases[m + 1] \notin First(m)
          BY <4>1, InFirst
        <4> QED BY <3>3, <4>1, <4>2, FS_AddElement
      <3>4. IsFiniteSet(First(0)) /\ Cardinality(First(0)) = 0
        BY <3>2, FirstFacts
      <3>5. IsFiniteSet(First(1)) /\ Cardinality(First(1)) = 1
        BY <3>3, <3>4
      <3>6. IsFiniteSet(First(2)) /\ Cardinality(First(2)) = 2
        BY <3>3, <3>5
      <3>7. IsFiniteSet(First(3)) /\ Cardinality(First(3)) = 3
        BY <3>3, <3>6
      <3>8. IsFiniteSet(First(4)) /\ Cardinality(First(4)) = 4
        BY <3>3, <3>7
      <3>9. IsFiniteSet(First(5)) /\ Cardinality(First(5)) = 5
        BY <3>3, <3>8
      <3> QED BY <3>1, <3>4, <3>5, <3>6, <3>7, <3>8, <3>9
    <2>4. First(n) = PhaseSet <=> n = 5
      <3>1. CASE n = 5
        BY <3>1, FirstFacts
      <3>2. CASE n # 5
        <4>1. n + 1 \in 1..5
          BY <3>2
        <4>2. Phases[n + 1] \notin First(n) /\ Phases[n + 1] \in PhaseSet
          BY <4>1, InFirst, PhaseFacts DEF PhaseSet
        <4> QED BY <3>2, <4>2
      <3> QED BY <3>1, <3>2
    <2>5. ddRound.phase = IF n = 5 THEN "outcome" ELSE Phases[n + 1]
      BY <1>1 DEF DialecticInv, RoundInOrder
    <2>6. ddRound.decision # <<>> <=> ddRound.state \in TerminalDecisionStates \cup {"WAITING"}
      <3>1. \A e \in Verdicts \X BOOLEAN : e # <<>>
        OBVIOUS
      <3>2. n < 4 \/ n >= 4
        OBVIOUS
      <3> QED BY <1>1, <3>1, <3>2 DEF DialecticInv, RoundInOrder
    <2> HIDE DEF present
    <2>7. /\ ReadModel.revision = Cardinality(present)
          /\ ReadModel.phase = IF present = PhaseSet THEN "outcome" ELSE NextPhase(present)
          /\ ReadModel.card.present <=> ReadModel.state \in TerminalDecisionStates \cup {"WAITING"}
      BY <1>3, <2>1, <2>2, <2>3, <2>4, <2>5, <2>6
    <2> QED BY <2>7 DEF ReadModelNamesNextPhase, present
  <1> QED BY <1>4, <1>5, <1>6 DEF PhasesInTurn

(* applyDecisionDialecticPatch, the advance route and the read model: each *)
(* phase of a round was written by an author who had all earlier phases    *)
(* and no other before him, the child task asked for the missing phase     *)
(* carries the revision that will accept its answer, and the read model    *)
(* names that phase, whatever patches are written, sent again or refused   *)
(* meanwhile, and whoever the agents are.                                  *)
THEOREM PhasesInTurnHolds == DialecticSpec => []PhasesInTurn
  <1>1. DialecticInit => DialecticInv
    <2> SUFFICES ASSUME DialecticInit PROVE DialecticInv
      OBVIOUS
    <2>1. RoundInOrder
      <3>1. ddRound = [filled |-> {}, revision |-> 0, state |-> "OPEN", phase |-> "thesis",
                       blocker |-> FALSE, decision |-> <<>>]
        BY DEF DialecticInit
      <3>2. ddRound \in RoundType
        BY <3>1, PhaseFacts DEF RoundType, RoundStates
      <3> QED BY <3>1, <3>2, FirstFacts, PhaseFacts DEF RoundInOrder, TerminalDecisionStates
    <2>2. DraftInOrder
      BY DEF DialecticInit, DraftInOrder
    <2>3. KidsInOrder
      <3>1. \A i \in 1..5 : Phases[i] \in PhaseSet
        BY PhaseFacts DEF PhaseSet
      <3> QED BY <3>1 DEF DialecticInit, KidsInOrder, NoChild
    <2>4. SawInOrder
      BY DEF DialecticInit, SawInOrder
    <2> QED BY <2>1, <2>2, <2>3, <2>4 DEF DialecticInv
  <1>2. DialecticInv /\ [DialecticNext]_ddVars => DialecticInv'
    <2> SUFFICES ASSUME DialecticInv, [DialecticNext]_ddVars PROVE DialecticInv'
      OBVIOUS
    <2>1. ASSUME NEW op \in PhaseSet, NEW a \in Agents, Compose(op, a) PROVE DialecticInv'
      <3>1. PICK p \in Body(op, a) : ddDraft' = p
        BY <2>1 DEF Compose
      <3>2. DraftInOrder'
        BY <3>1, BodyFacts DEF DraftInOrder
      <3> QED BY <2>1, <3>2 DEF Compose, DialecticInv, RoundInOrder, KidsInOrder, SawInOrder
    <2>2. ASSUME NEW op \in PhaseSet, NEW a \in Agents, PatchFresh(op, a) PROVE DialecticInv'
      <3>1. PICK p \in Body(op, a) : Patch(p)
        BY <2>2 DEF PatchFresh
      <3> QED BY <3>1, BodyFacts, PatchStep
    <2>3. CASE PatchDraft
      <3>1. PICK p : p = ddDraft
        OBVIOUS
      <3>2. p \in PatchType /\ p.saw = First(p.expectedRevision) /\ Patch(p)
        BY <2>3, <3>1 DEF PatchDraft, DialecticInv, DraftInOrder
      <3> QED BY <3>2, PatchStep
    <2>4. ASSUME NEW q \in PhaseSet, Advance(q) PROVE DialecticInv'
      BY <2>4, AdvanceStep
    <2>5. CASE UNCHANGED ddVars
      BY <2>5 DEF ddVars, DialecticInv, RoundInOrder, DraftInOrder, KidsInOrder, SawInOrder
    <2> QED BY <2>1, <2>2, <2>3, <2>4, <2>5 DEF DialecticNext
  <1>3. DialecticInv => PhasesInTurn
    BY InOrderPhasesInTurn
  <1> QED BY <1>1, <1>2, <1>3, PTL DEF DialecticSpec

-----------------------------------------------------------------------------
(* ConferenceFanIn *)

(* currentVerdict(asOf) and reconcileTimeouts(asOf) time the same          *)
(* participants out, in whatever state the room is.                        *)
LEMMA TimeoutsAgree ==
    ASSUME NEW at PROVE EffectiveParticipants(parts, at) = Reconciled(parts, at)
  BY DEF EffectiveParticipants, Reconciled, Present

(* ConferenceFanIn: the verdict previewed for a later time is the one that *)
(* reconciling at that time leaves, for any room, timeout and quorum.      *)
THEOREM PreviewAgreesHolds == FanInSpec => []PreviewAgrees
  <1>1. PreviewAgrees
    BY TimeoutsAgree DEF PreviewAgrees
  <1> QED BY <1>1, PTL

-----------------------------------------------------------------------------
(* TaskHandler *)

(* An executor runs for a task of its kind, and has reported nothing yet.  *)
HandlerInv ==
    /\ hdAt # "idle" => hdTask \in HandlerTasks
    /\ hdAt = "docker" \/ hdAt = "bridge" => IsGithubEvidenceTask(hdTask)
    /\ hdAt = "analysis" => IsReadOnlyAnalysisTask(hdTask)
    /\ hdAt = "idle" => hdReply = NoReply
    /\ LinksAreEarned

LEMMA StartHandlerStep ==
    ASSUME HandlerInv, NEW t \in HandlerTasks, NEW e \in HandlerEnvs, StartHandler(t, e)
    PROVE  HandlerInv'
  <1> DEFINE x == ExecutorOf(t, e)
  <1>1. /\ x \in {"docker", "bridge", "analysis", "builtin"}
        /\ x \in {"docker", "bridge"} => IsGithubEvidenceTask(t)
        /\ x = "analysis" => IsReadOnlyAnalysisTask(t)
    BY DEF ExecutorOf, ShouldUseDockerRunner, ShouldUseOpenClawBridge, ShouldUseOpenClawAnalysisBridge
  <1>2. \/ hdAt' = "over" /\ hdOut'.code # "success"
        \/ hdAt' = "over" /\ hdOut' = HandleBuiltinTask(t)
        \/ hdAt' = x /\ hdOut' = Pending /\ x # "builtin"
    BY <1>1 DEF StartHandler, Failure
  <1> HIDE DEF x
  <1>3. hdTask' = t /\ hdReply' = NoReply
    BY DEF StartHandler, HandlerInv
  <1>4. hdOut'.code = "success" => ~IsGithubEvidenceTask(t) \/ IsReadOnlyAnalysisTask(t)
    BY <1>2 DEF HandleBuiltinTask, Failure, Pending
  <1>5. LinksAreEarned'
    BY <1>3, <1>4 DEF LinksAreEarned, SuccessHasExecutorLink, BadRunReportsNothing,
       IsGithubEvidenceTask, IsReadOnlyAnalysisTask, IsGithubPatchEvidenceTask,
       IsGithubReadOnlyEvidenceTask
  <1>6. hdAt' \in {"docker", "bridge"} => IsGithubEvidenceTask(t)
    BY <1>1, <1>2
  <1>7. hdAt' = "analysis" => IsReadOnlyAnalysisTask(t)
    BY <1>1, <1>2
  <1> QED BY <1>3, <1>5, <1>6, <1>7 DEF HandlerInv, IsGithubEvidenceTask, IsReadOnlyAnalysisTask,
             IsGithubPatchEvidenceTask, IsGithubReadOnlyEvidenceTask

LEMMA RunnerEndsStep ==
    ASSUME HandlerInv, NEW r \in RunnerReplies, RunnerEnds(r)
    PROVE  HandlerInv'
  <1>1. /\ r.exit \in {"zero", "nonzero", "killed"} /\ "leak" \in DOMAIN r
        /\ r.ok \in BOOLEAN /\ r.leak \in BOOLEAN /\ r.otherBranch \in BOOLEAN
        /\ r.noDiff \in BOOLEAN
    BY HandlerAssumption
  <1>2. r # NoReply
    BY <1>1 DEF NoReply
  <1>3. /\ hdTask' = hdTask /\ hdReply' = r /\ hdAt' = "over" /\ hdTask \in HandlerTasks
        /\ hdOut' = RunDockerRunner(hdTask, hdEnv, r) /\ IsGithubEvidenceTask(hdTask)
    BY DEF RunnerEnds, HandlerInv
  <1>4. HandleBuiltinTask(hdTask) = Failure("github_executor_not_configured")
    BY <1>3 DEF HandleBuiltinTask
  <1>5. \/ hdOut'.code # "success" /\ hdOut'.links = {}
        \/ /\ hdOut' = Success(r.links) /\ RunnerRefusal(hdTask, r) = "none"
           /\ r.exit = "zero" /\ r.ok
    <2>1. CASE r.stdout = "garbled"
      BY <1>3, <1>4, <2>1 DEF RunDockerRunner, Failure
    <2>2. CASE r.stdout # "garbled" /\ (r.exit # "zero" \/ r.stdout = "empty" \/ ~r.ok)
      BY <1>3, <2>2 DEF RunDockerRunner, Failure
    <2>3. CASE r.stdout # "garbled" /\ ~(r.exit # "zero" \/ r.stdout = "empty" \/ ~r.ok)
      <3>1. hdOut' = IF RunnerRefusal(hdTask, r) = "none" THEN Success(r.links)
                     ELSE Failure(RunnerRefusal(hdTask, r))
        BY <1>3, <2>3 DEF RunDockerRunner
      <3>2. RunnerRefusal(hdTask, r) # "success"
        BY DEF RunnerRefusal
      <3> QED BY <2>3, <3>1, <3>2 DEF Failure
    <2> QED BY <2>1, <2>2, <2>3
  <1>6. RunnerRefusal(hdTask, r) = "none" =>
           /\ ~r.leak /\ ~r.otherBranch /\ r.links # {}
           /\ ~(IsGithubPatchEvidenceTask(hdTask) /\ r.noDiff)
    BY DEF RunnerRefusal
  <1>7. hdTask.intent = "propose_patch" => IsGithubPatchEvidenceTask(hdTask)
    BY <1>3 DEF IsGithubEvidenceTask, IsGithubReadOnlyEvidenceTask
  <1>8. SuccessHasExecutorLink'
    BY <1>2, <1>3, <1>5, <1>6 DEF SuccessHasExecutorLink, Success
  <1>9. BadRunReportsNothing'
    BY <1>3, <1>5, <1>6, <1>7 DEF BadRunReportsNothing
  <1> QED BY <1>3, <1>8, <1>9 DEF HandlerInv, LinksAreEarned

LEMMA SessionEndsStep ==
    ASSUME HandlerInv, NEW r \in BridgeReplies, SessionEnds(r)
    PROVE  HandlerInv'
  <1>1. /\ r.exit \in {"zero", "nonzero", "killed", "spawn_failed"} /\ "leak" \notin DOMAIN r
        /\ r.json \in BOOLEAN
    BY HandlerAssumption
  <1>2. r # NoReply
    BY <1>1 DEF NoReply
  <1>3. hdTask' = hdTask /\ hdReply' = r /\ hdAt' = "over" /\ hdTask \in HandlerTasks
    BY DEF SessionEnds, HandlerInv
  <1>4. SessionFailure(r) = "none" => r.exit = "zero"
    BY <1>1 DEF SessionFailure
  <1>5. CASE hdAt = "bridge"
    <2>1. hdOut' = RunOpenClawBridge(hdTask, r)
      BY <1>5 DEF SessionEnds
    <2>2. \/ hdOut'.code # "success" /\ hdOut'.links = {} /\ SessionFailure(r) = "none"
          \/ hdOut' = Failure(SessionFailure(r)) /\ SessionFailure(r) # "none"
          \/ /\ hdOut' = Success(GithubEvidence(r.links)) /\ GithubEvidence(r.links) # {}
             /\ SessionFailure(r) = "none"
      BY <2>1 DEF RunOpenClawBridge, Failure
    <2>3. SessionFailure(r) # "success"
      BY <1>1 DEF SessionFailure
    <2>4. GithubEvidence(r.links) \subseteq r.links
      BY DEF GithubEvidence
    <2>5. SuccessHasExecutorLink'
      BY <1>2, <1>3, <2>2, <2>3, <2>4 DEF SuccessHasExecutorLink, Success, Failure
    <2>6. BadRunReportsNothing'
      BY <1>1, <1>3, <1>4, <2>2 DEF BadRunReportsNothing, Failure
    <2> QED BY <1>3, <2>5, <2>6 DEF HandlerInv, LinksAreEarned
  <1>6. CASE hdAt = "analysis"
    <2>1. hdOut' = RunOpenClawAnalysisBridge(hdTask, r) /\ IsReadOnlyAnalysisTask(hdTask)
      BY <1>6 DEF SessionEnds, HandlerInv
    <2>2. hdOut'.links # {} => r.exit = "zero"
      BY <1>4, <2>1 DEF RunOpenClawAnalysisBridge, Failure
    <2>3. SuccessHasExecutorLink'
      BY <1>3, <2>1 DEF SuccessHasExecutorLink, IsReadOnlyAnalysisTask
    <2>4. BadRunReportsNothing'
      BY <1>1, <1>3, <2>2 DEF BadRunReportsNothing
    <2> QED BY <1>3, <2>3, <2>4 DEF HandlerInv, LinksAreEarned
  <1> QED BY <1>5, <1>6 DEF SessionEnds

(* The task handler script: a GitHub task ends in success only with links  *)
(* its executor reported, and links are never passed on from a run that    *)
(* failed, leaked, was on the wrong branch or made no diff, for every      *)
(* task, environment and way an executor can end.                          *)
THEOREM LinksAreEarnedHolds == HandlerSpec => []LinksAreEarned
  <1>1. HandlerInit => HandlerInv
    BY DEF HandlerInit, HandlerInv, LinksAreEarned, SuccessHasExecutorLink, BadRunReportsNothing,
       Pending
  <1>2. HandlerInv /\ [HandlerNext]_hdVars => HandlerInv'
    <2> SUFFICES ASSUME HandlerInv, [HandlerNext]_hdVars PROVE HandlerInv'
      OBVIOUS
    <2>1. CASE UNCHANGED hdVars
      BY <2>1 DEF hdVars, HandlerInv, LinksAreEarned, SuccessHasExecutorLink, BadRunReportsNothing,
         IsGithubEvidenceTask, IsReadOnlyAnalysisTask, IsGithubPatchEvidenceTask,
         IsGithubReadOnlyEvidenceTask
    <2> QED BY <2>1, StartHandlerStep, RunnerEndsStep, SessionEndsStep DEF HandlerNext
  <1>3. HandlerInv => LinksAreEarned
    BY DEF HandlerInv
  <1> QED BY <1>1, <1>2, <1>3, PTL DEF HandlerSpec

-----------------------------------------------------------------------------
(* PeerStatus *)

PeerTypes ==
    /\ psNow \in Nat /\ psNow > 0 /\ psCapped \in Nat
    /\ psPeer = [t \in Targets |-> psPeer[t]]
    /\ psChanged \in [Targets -> Nat]
    /\ psCache = [t \in Targets |-> psCache[t]]
    /\ psRecompute \in [count : Nat, start : Nat]

(* What is cached was true when it was computed, and is true as long as    *)
(* nothing has changed since.                                              *)
CacheTells ==
    \A t \in Targets :
        /\ psCache[t].at \in Nat /\ psCache[t].at <= psNow
        /\ psCache[t].at > psChanged[t] => psCache[t].health = ComputeHealth(psPeer[t])

AnswerTells ==
    /\ psAnswer.at \in Nat /\ psAnswer.at <= psNow
    /\ psAnswer.at > 0 => psAnswer.target \in Targets
    /\ AnswerTellsThePeer

(* The recomputations of a tick that count against the cap are all in the  *)
(* window of that tick.                                                    *)
WindowCounts ==
    /\ psRecompute.count <= RecomputeCap
    /\ IF psRecompute.start = psNow THEN psCapped <= psRecompute.count ELSE psCapped = 0

PeerInv == PeerTypes /\ CacheTells /\ AnswerTells /\ WindowCounts

LEMMA PeerChangesStep ==
    ASSUME PeerInv, NEW t \in Targets, PeerChanges(t)
    PROVE  PeerInv'
  <1>1. /\ psChanged' = [psChanged EXCEPT ![t] = psNow]
        /\ UNCHANGED <<psNow, psCache, psRecompute, psAnswer, psCapped>>
    BY DEF PeerChanges
  <1>2. PICK p : psPeer' = [psPeer EXCEPT ![t] = p]
    BY DEF PeerChanges
  <1>3. \A u \in Targets : u # t => psChanged'[u] = psChanged[u] /\ psPeer'[u] = psPeer[u]
    BY <1>1, <1>2 DEF PeerInv, PeerTypes
  <1>4. psChanged'[t] = psNow
    BY <1>1 DEF PeerInv, PeerTypes
  <1>5. PeerTypes'
    BY <1>1, <1>2 DEF PeerInv, PeerTypes
  <1>6. CacheTells'
    <2> SUFFICES ASSUME NEW u \in Targets
                 PROVE  /\ psCache'[u].at \in Nat /\ psCache'[u].at <= psNow'
                        /\ psCache'[u].at > psChanged'[u] =>
                              psCache'[u].health = ComputeHealth(psPeer'[u])
      BY DEF CacheTells
    <2>1. psCache'[u].at \in Nat /\ psCache'[u].at <= psNow'
      BY <1>1 DEF PeerInv, CacheTells
    <2>2. CASE u = t
      BY <1>1, <1>4, <2>1, <2>2 DEF PeerInv, PeerTypes
    <2>3. CASE u # t
      BY <1>1, <1>3, <2>1, <2>3 DEF PeerInv, CacheTells
    <2> QED BY <2>2, <2>3
  <1>7. AnswerTells'
    <2> DEFINE u == psAnswer.target
    <2>1. ASSUME psAnswer.at > 0, psAnswer.at > psChanged'[u]
          PROVE  psAnswer.health = ComputeHealth(psPeer'[u])
      <3>1. u \in Targets /\ psAnswer.at <= psNow /\ psAnswer.at \in Nat /\ psNow \in Nat
        BY <2>1 DEF PeerInv, AnswerTells, PeerTypes
      <3>2. u # t
        BY <1>4, <2>1, <3>1
      <3> QED BY <1>3, <2>1, <3>1, <3>2 DEF PeerInv, AnswerTells, AnswerTellsThePeer
    <2> QED BY <1>1, <2>1 DEF PeerInv, AnswerTells, AnswerTellsThePeer
  <1>8. WindowCounts'
    BY <1>1 DEF PeerInv, WindowCounts
  <1> QED BY <1>5, <1>6, <1>7, <1>8 DEF PeerInv

(* What answering does to the cache and the answer: the cached health or a *)
(* computed one, of this moment.                                           *)
LEMMA AnswerStep ==
    ASSUME PeerInv, NEW t \in Targets, NEW maxAge \in Nat, NEW capped \in BOOLEAN,
           UNCHANGED <<psNow, psPeer, psChanged>>,
           \/ /\ (Cached(t) /\ capped) \/ FreshEnough(t, maxAge)
              /\ AnswerFromCache(t, maxAge, capped) /\ psCache' = psCache
           \/ AnswerComputed(t, maxAge)
    PROVE  CacheTells' /\ AnswerTells' /\ psCache' = [u \in Targets |-> psCache'[u]]
  <1>1. psNow \in Nat /\ psNow > 0 /\ psCache[t].at \in Nat /\ psCache[t].at <= psNow
    BY DEF PeerInv, PeerTypes, CacheTells
  <1>2. CASE /\ (Cached(t) /\ capped) \/ FreshEnough(t, maxAge)
             /\ AnswerFromCache(t, maxAge, capped) /\ psCache' = psCache
    <2>1. CacheTells'
      BY <1>2 DEF PeerInv, CacheTells
    <2>2. /\ psAnswer'.target = t /\ psAnswer'.health = psCache[t].health
          /\ psAnswer'.at = psCache[t].at /\ psAnswer'.age = psNow - psCache[t].at
          /\ psAnswer'.asked = maxAge /\ psAnswer'.capped = capped
      BY <1>2 DEF AnswerFromCache
    <2>3. psNow - psCache[t].at <= maxAge \/ capped
      BY <1>2 DEF FreshEnough
    <2>4. psCache[t].at > psChanged[t] => psCache[t].health = ComputeHealth(psPeer[t])
      BY DEF PeerInv, CacheTells
    <2>5. AnswerTells'
      BY <1>1, <2>2, <2>3, <2>4 DEF AnswerTells, AnswerTellsThePeer
    <2> QED BY <1>2, <2>1, <2>5 DEF PeerInv, PeerTypes
  <1>3. CASE AnswerComputed(t, maxAge)
    <2> DEFINE h == ComputeHealth(psPeer[t])
    <2>1. /\ psCache' = [psCache EXCEPT ![t] = [health |-> h, at |-> psNow]]
          /\ psAnswer' = [target |-> t, health |-> h, at |-> psNow, age |-> 0,
                          asked |-> maxAge, capped |-> FALSE]
      BY <1>3 DEF AnswerComputed
    <2> HIDE DEF h
    <2>2. h = ComputeHealth(psPeer'[t])
      BY DEF h
    <2>3. psCache'[t] = [health |-> h, at |-> psNow]
      BY <2>1 DEF PeerInv, PeerTypes
    <2>4. \A u \in Targets : u # t => psCache'[u] = psCache[u]
      BY <2>1 DEF PeerInv, PeerTypes
    <2>5. CacheTells'
      BY <1>1, <2>2, <2>3, <2>4 DEF PeerInv, CacheTells
    <2>6. AnswerTells'
      BY <1>1, <2>1, <2>2 DEF AnswerTells, AnswerTellsThePeer
    <2> QED BY <2>1, <2>5, <2>6 DEF PeerInv, PeerTypes
  <1> QED BY <1>2, <1>3

LEMMA WindowFacts ==
    ASSUME PeerInv
    PROVE  /\ RecomputeWindow.start = psNow /\ RecomputeWindow.count \in Nat
           /\ psCapped <= RecomputeWindow.count /\ RecomputeWindow.count <= RecomputeCap
  BY RecomputeCapAssumption DEF PeerInv, PeerTypes, WindowCounts, RecomputeWindow

LEMMA QueryStep ==
    ASSUME PeerInv, NEW c \in Callers, NEW t \in Targets, NEW maxAge \in Nat, Query(c, t, maxAge)
    PROVE  PeerInv'
  <1> DEFINE w == RecomputeWindow
  <1>1. UNCHANGED <<psNow, psPeer, psChanged>>
    BY DEF Query
  <1>2. w.start = psNow /\ w.count \in Nat /\ psCapped <= w.count /\ w.count <= RecomputeCap
    BY WindowFacts
  <1>3. psNow \in Nat /\ psCapped \in Nat /\ RecomputeCap \in Nat
    BY RecomputeCapAssumption DEF PeerInv, PeerTypes
  <1>4. w \in [count : Nat, start : Nat]
    BY DEF PeerInv, PeerTypes, RecomputeWindow
  <1>5. CASE UNCHANGED <<psAnswer, psCache, psRecompute, psCapped>>
    BY <1>1, <1>5 DEF PeerInv, PeerTypes, CacheTells, AnswerTells, AnswerTellsThePeer, WindowCounts
  <1>6. CASE /\ FreshEnough(t, maxAge) /\ AnswerFromCache(t, maxAge, FALSE)
             /\ UNCHANGED <<psCache, psRecompute, psCapped>>
    <2>1. CacheTells' /\ AnswerTells' /\ psCache' = [u \in Targets |-> psCache'[u]]
      BY <1>1, <1>6, AnswerStep
    <2> QED BY <1>1, <1>6, <2>1 DEF PeerInv, PeerTypes, WindowCounts
  <1>7. CASE /\ Cached(t) /\ AnswerFromCache(t, maxAge, TRUE) /\ psRecompute' = w
             /\ UNCHANGED <<psCache, psCapped>>
    <2>1. CacheTells' /\ AnswerTells' /\ psCache' = [u \in Targets |-> psCache'[u]]
      BY <1>1, <1>7, AnswerStep
    <2> QED BY <1>1, <1>2, <1>4, <1>7, <2>1 DEF PeerInv, PeerTypes, WindowCounts
  <1>8. CASE /\ w.count < RecomputeCap \/ ~ Cached(t)
             /\ AnswerComputed(t, maxAge)
             /\ psRecompute' = IF w.count < RecomputeCap THEN [w EXCEPT !.count = @ + 1] ELSE w
             /\ psCapped' = IF Cached(t) THEN psCapped + 1 ELSE psCapped
    <2>1. CacheTells' /\ AnswerTells' /\ psCache' = [u \in Targets |-> psCache'[u]]
      BY <1>1, <1>8, AnswerStep
    <2>2. psRecompute' \in [count : Nat, start : Nat]
      BY <1>4, <1>8
    <2>3. /\ psRecompute'.start = psNow
          /\ psRecompute'.count = IF w.count < RecomputeCap THEN w.count + 1 ELSE w.count
      BY <1>2, <1>4, <1>8
    <2>4. psCapped' \in Nat /\ psCapped' <= psRecompute'.count /\ psRecompute'.count \in Nat
      BY <1>2, <1>3, <1>8, <2>3
    <2>5. psRecompute'.count <= RecomputeCap
      BY <1>2, <1>3, <2>3
    <2> QED BY <1>1, <2>1, <2>2, <2>3, <2>4, <2>5 DEF PeerInv, PeerTypes, WindowCounts
  <1> QED BY <1>5, <1>6, <1>7, <1>8 DEF Query

(* PeerStatus.query: an answer computed since a peer's last change tells   *)
(* its health, an answer older than was asked for is one the cap held      *)
(* back, and no tick recomputes more cached answers than the cap, for any  *)
(* number of callers and targets.                                          *)
THEOREM AnswersWithinCapHolds == PeerSpec => []AnswersWithinCap
  <1>1. PeerInit => PeerInv
    BY RecomputeCapAssumption DEF PeerInit, PeerInv, PeerTypes, CacheTells, AnswerTells,
       AnswerTellsThePeer, WindowCounts, NoAnswer
  <1>2. PeerInv /\ [PeerNext]_psVars => PeerInv'
    <2> SUFFICES ASSUME PeerInv, [PeerNext]_psVars PROVE PeerInv'
      OBVIOUS
    <2>1. CASE ClearCache
      <3>1. \A t \in Targets : psCache'[t] = [health |-> "none", at |-> 0]
        BY <2>1 DEF ClearCache
      <3>2. CacheTells'
        BY <2>1, <3>1 DEF CacheTells, PeerInv, PeerTypes, ClearCache
      <3>3. PeerTypes'
        BY <2>1 DEF ClearCache, PeerInv, PeerTypes
      <3> QED BY <2>1, <3>2, <3>3 DEF ClearCache, PeerInv, AnswerTells, AnswerTellsThePeer,
                 WindowCounts
    <2>2. CASE PeerTick
      BY <2>2 DEF PeerTick, PeerInv, PeerTypes, CacheTells, AnswerTells, AnswerTellsThePeer,
         WindowCounts
    <2>3. CASE UNCHANGED psVars
      BY <2>3 DEF psVars, PeerInv, PeerTypes, CacheTells, AnswerTells, AnswerTellsThePeer,
         WindowCounts
    <2>4. ASSUME NEW c \in Callers, NEW t \in Targets, NEW maxAge \in 0..1, Query(c, t, maxAge)
          PROVE  PeerInv'
      <3>1. maxAge \in Nat
        OBVIOUS
      <3> QED BY <2>4, <3>1, QueryStep
    <2> QED BY <2>1, <2>2, <2>3, <2>4, PeerChangesStep DEF PeerNext
  <1>3. PeerInv => AnswersWithinCap
    BY RecomputeCapAssumption DEF PeerInv, PeerTypes, AnswerTells, WindowCounts, AnswersWithinCap,
       RecomputesCapped
  <1> QED BY <1>1, <1>2, <1>3, PTL DEF PeerSpec

-----------------------------------------------------------------------------
(* RateLimiter *)

(* The bucket of a key holds every stamp that is still in the window, in   *)
(* the order the requests came, and maybe older ones.                      *)
BucketOK(log, stamps, now) ==
    /\ log \in Seq(Nat) /\ stamps \subseteq DOMAIN log
    /\ \A i \in DOMAIN log : log[i] <= now
    /\ \A i, j \in DOMAIN log : i <= j => log[i] <= log[j]
    /\ \A i \in DOMAIN log : log[i] + RateWindow > now => i \in stamps
    /\ \A i, j \in DOMAIN log : i + MaxRequests <= j => log[i] + RateWindow <= log[j]

RateInv ==
    /\ rlNow \in Nat
    /\ rlLog \in [RateKeys -> Seq(Nat)] /\ rlStamps \in [RateKeys -> SUBSET Nat]
    /\ \A k \in RateKeys : BucketOK(rlLog[k], rlStamps[k], rlNow)

LEMMA TrimKeeps ==
    ASSUME NEW log, NEW stamps, NEW now \in Nat, BucketOK(log, stamps, now)
    PROVE  BucketOK(log, {i \in stamps : log[i] + RateWindow > now}, now)
  BY DEF BucketOK

(* A request is let through when fewer than maxRequests are in the window: *)
(* the one maxRequests before it has then left it.                         *)
LEMMA AllowKeeps ==
    ASSUME NEW log, NEW stamps, NEW now \in Nat, BucketOK(log, stamps, now),
           \A i \in stamps : log[i] + RateWindow > now, Cardinality(stamps) < MaxRequests
    PROVE  BucketOK(Append(log, now), stamps \cup {Len(log) + 1}, now)
  <1> DEFINE n == Len(log)
             more == Append(log, now)
  <1>1. /\ log \in Seq(Nat) /\ n \in Nat /\ DOMAIN log = 1..n
        /\ more \in Seq(Nat) /\ DOMAIN more = 1..(n + 1) /\ more[n + 1] = now
        /\ \A i \in 1..n : more[i] = log[i] /\ log[i] \in Nat
    BY DEF BucketOK
  <1>2. ASSUME NEW i \in 1..n, i + MaxRequests <= n + 1
        PROVE  log[i] + RateWindow <= now
    <2>1. SUFFICES ASSUME log[i] + RateWindow > now PROVE FALSE
      BY <1>1, RateAssumption
    <2>2. i..n \subseteq stamps
      <3> SUFFICES ASSUME NEW m \in i..n PROVE m \in stamps
        OBVIOUS
      <3>1. m \in 1..n /\ i <= m
        BY <1>1
      <3>2. log[i] <= log[m]
        BY <1>1, <3>1 DEF BucketOK
      <3>3. log[m] + RateWindow > now
        BY <1>1, <2>1, <3>1, <3>2, RateAssumption
      <3> QED BY <1>1, <3>1, <3>3 DEF BucketOK
    <2>3. IsFiniteSet(stamps) /\ Cardinality(stamps) \in Nat
      <3>1. IsFiniteSet(1..n)
        BY <1>1, FS_Interval
      <3>2. stamps \subseteq 1..n
        BY <1>1 DEF BucketOK
      <3> QED BY <3>1, <3>2, FS_Subset, FS_CardinalityType
    <2>4. Cardinality(i..n) <= Cardinality(stamps)
      BY <2>2, <2>3, FS_Subset
    <2>5. Cardinality(i..n) = n - i + 1
      BY <1>1, FS_Interval
    <2> QED BY <1>1, <1>2, <2>3, <2>4, <2>5, RateAssumption
  <1>3. stamps \cup {n + 1} \subseteq DOMAIN more
    BY <1>1 DEF BucketOK
  <1>4. \A i \in DOMAIN more : more[i] <= now
    BY <1>1 DEF BucketOK
  <1>5. \A i, j \in DOMAIN more : i <= j => more[i] <= more[j]
    BY <1>1 DEF BucketOK
  <1>6. \A i \in DOMAIN more : more[i] + RateWindow > now => i \in stamps \cup {n + 1}
    BY <1>1 DEF BucketOK
  <1>7. \A i, j \in DOMAIN more : i + MaxRequests <= j => more[i] + RateWindow <= more[j]
    <2> SUFFICES ASSUME NEW i \in 1..(n + 1), NEW j \in 1..(n + 1), i + MaxRequests <= j
                 PROVE  more[i] + RateWindow <= more[j]
      BY <1>1
    <2>1. i \in 1..n
      BY <1>1, RateAssumption
    <2>2. CASE j = n + 1
      BY <1>1, <1>2, <2>1, <2>2
    <2>3. CASE j \in 1..n
      BY <1>1, <2>1, <2>3 DEF BucketOK
    <2> QED BY <1>1, <2>2, <2>3
  <1> HIDE DEF more
  <1> QED BY <1>1, <1>3, <1>4, <1>5, <1>6, <1>7 DEF BucketOK, more

LEMMA RateInvPreserved == RateInv /\ [RateNext]_rlVars => RateInv'
  <1> SUFFICES ASSUME RateInv, [RateNext]_rlVars PROVE RateInv'
    OBVIOUS
  <1>1. ASSUME NEW k \in RateKeys, Check(k) PROVE RateInv'
    <2>1. PICK kept : kept = InWindow(k)
      OBVIOUS
    <2>2. /\ rlNow \in Nat /\ BucketOK(rlLog[k], kept, rlNow) /\ kept \subseteq Nat
          /\ \A i \in kept : rlLog[k][i] + RateWindow > rlNow
      BY <2>1, TrimKeeps DEF RateInv, InWindow
    <2>3. CASE Cardinality(kept) < MaxRequests
      <3>1. /\ rlStamps' = [rlStamps EXCEPT ![k] = kept \cup {Len(rlLog[k]) + 1}]
            /\ rlLog' = [rlLog EXCEPT ![k] = Append(rlLog[k], rlNow)] /\ rlNow' = rlNow
        BY <1>1, <2>1, <2>3 DEF Check
      <3>2. BucketOK(Append(rlLog[k], rlNow), kept \cup {Len(rlLog[k]) + 1}, rlNow)
        BY <2>2, <2>3, AllowKeeps
      <3>3. Append(rlLog[k], rlNow) \in Seq(Nat) /\ kept \cup {Len(rlLog[k]) + 1} \in SUBSET Nat
        <4>1. rlLog[k] \in Seq(Nat) /\ Len(rlLog[k]) + 1 \in Nat
          BY DEF RateInv
        <4>2. Append(rlLog[k], rlNow) \in Seq(Nat)
          BY <2>2, <4>1
        <4> QED BY <2>2, <4>1, <4>2
      <3> QED BY <3>1, <3>2, <3>3 DEF RateInv
    <2>4. CASE ~(Cardinality(kept) < MaxRequests)
      <3>1. rlStamps' = [rlStamps EXCEPT ![k] = kept] /\ rlLog' = rlLog /\ rlNow' = rlNow
        BY <1>1, <2>1, <2>4 DEF Check
      <3> QED BY <2>2, <3>1 DEF RateInv
    <2> QED BY <2>3, <2>4
  <1>2. CASE Snapshot
    <2>1. \A k \in RateKeys : BucketOK(rlLog[k], InWindow(k), rlNow) /\ InWindow(k) \in SUBSET Nat
      BY TrimKeeps DEF RateInv, InWindow
    <2> QED BY <1>2, <2>1 DEF RateInv, Snapshot
  <1>3. CASE RateTick
    <2>1. rlNow' = rlNow + 1 /\ rlNow \in Nat /\ UNCHANGED <<rlLog, rlStamps>>
      BY <1>3 DEF RateTick, RateInv
    <2>2. ASSUME NEW log, NEW stamps, BucketOK(log, stamps, rlNow)
          PROVE  BucketOK(log, stamps, rlNow + 1)
      <3>1. \A i \in DOMAIN log : log[i] \in Nat
        BY <2>2 DEF BucketOK
      <3>2. \A i \in DOMAIN log : log[i] <= rlNow + 1
        BY <2>1, <2>2, <3>1 DEF BucketOK
      <3>3. \A i \in DOMAIN log : log[i] + RateWindow > rlNow + 1 => log[i] + RateWindow > rlNow
        BY <2>1, <3>1, RateAssumption
      <3> QED BY <2>2, <3>2, <3>3 DEF BucketOK
    <2> QED BY <2>1, <2>2 DEF RateInv
  <1>4. CASE UNCHANGED rlVars
    BY <1>4 DEF rlVars, RateInv
  <1> QED BY <1>1, <1>2, <1>3, <1>4 DEF RateNext

LEMMA RateInvStarts == RateInit => RateInv
  <1> SUFFICES ASSUME RateInit PROVE RateInv
    OBVIOUS
  <1>1. rlNow \in Nat /\ \A k \in RateKeys : rlLog[k] = <<>> /\ rlStamps[k] = {}
    BY DEF RateInit
  <1>2. BucketOK(<<>>, {}, rlNow)
    BY DEF BucketOK
  <1> QED BY <1>1, <1>2 DEF RateInit, RateInv

-----------------------------------------------------------------------------
(* The fixed window of PeerStatus *)

(* The bucket b of a pair counts the last queries let through, all of its  *)
(* window; the limit's worth before them came in one window before that.   *)
WindowOK(g, b, now) ==
    /\ g \in Seq(Nat) /\ b \in [count : Nat, start : Nat]
    /\ b.count <= PeerLimit /\ b.count <= Len(g) /\ b.start <= now
    /\ b.start = 0 => Len(g) = 0
    /\ \A i \in DOMAIN g : g[i] <= now
    /\ \A i \in DOMAIN g : i + b.count <= Len(g) => g[i] <= b.start
    /\ \A i \in DOMAIN g : i + PeerLimit + b.count <= Len(g) => g[i] + PeerWindow <= b.start
    /\ \A i, j \in DOMAIN g : i + 2 * PeerLimit <= j => g[i] + PeerWindow <= g[j]

WindowInv ==
    /\ psNow \in Nat /\ psNow > 0
    /\ psGranted \in [PeerKeys -> Seq(Nat)]
    /\ psBuckets \in [PeerKeys -> [count : Nat, start : Nat]]
    /\ \A k \in PeerKeys : WindowOK(psGranted[k], psBuckets[k], psNow)

(* checkRateLimit: when the window starts again, what it counted is the    *)
(* window before, and everything before that is a window old.              *)
LEMMA RestartKeeps ==
    ASSUME NEW g, NEW b, NEW now \in Nat, WindowOK(g, b, now), now > 0,
           now - b.start >= PeerWindow \/ b.start = 0
    PROVE  WindowOK(g, [count |-> 0, start |-> now], now)
  <1> DEFINE n == Len(g)
             fresh == [count |-> 0, start |-> now]
  <1>1. /\ g \in Seq(Nat) /\ n \in Nat /\ DOMAIN g = 1..n /\ \A i \in 1..n : g[i] \in Nat
        /\ b.count \in Nat /\ b.start \in Nat
    BY DEF WindowOK
  <1>2. fresh \in [count : Nat, start : Nat] /\ fresh.count = 0 /\ fresh.start = now
    OBVIOUS
  <1>3. ASSUME NEW i \in 1..n, i + PeerLimit <= n PROVE g[i] + PeerWindow <= now
    <2>1. now - b.start >= PeerWindow
      <3>1. n # 0
        BY <1>1, <1>3
      <3>2. b.start = 0 => n = 0
        BY DEF WindowOK
      <3> QED BY <3>1, <3>2
    <2>2. g[i] <= b.start
      <3>1. b.count <= PeerLimit
        BY DEF WindowOK
      <3>2. i + b.count <= n
        BY ONLY <1>1, <1>3, <3>1, PeerLimitAssumption
      <3> QED BY <1>1, <3>2 DEF WindowOK
    <2> QED BY <1>1, <2>1, <2>2, PeerLimitAssumption
  <1>4. \A i \in DOMAIN g : g[i] <= now
    BY DEF WindowOK
  <1>5. \A i, j \in DOMAIN g : i + 2 * PeerLimit <= j => g[i] + PeerWindow <= g[j]
    BY DEF WindowOK
  <1> HIDE DEF fresh
  <1>6. fresh.count <= PeerLimit /\ fresh.count <= n /\ fresh.start <= now /\ fresh.start # 0
    BY <1>1, <1>2, PeerLimitAssumption
  <1>7. \A i \in DOMAIN g : i + PeerLimit + fresh.count <= n => g[i] + PeerWindow <= fresh.start
    BY <1>1, <1>2, <1>3, PeerLimitAssumption
  <1>8. \A i \in DOMAIN g : i + fresh.count <= n => g[i] <= fresh.start
    BY <1>2, <1>4
  <1>9. WindowOK(g, fresh, now)
    BY <1>1, <1>2, <1>4, <1>5, <1>6, <1>7, <1>8 DEF WindowOK
  <1> QED BY <1>9 DEF fresh

(* A query let through below the limit.                                    *)
LEMMA GrantKeeps ==
    ASSUME NEW g, NEW b, NEW now \in Nat, WindowOK(g, b, now), now > 0,
           b.start # 0, b.count < PeerLimit
    PROVE  WindowOK(Append(g, now), [b EXCEPT !.count = @ + 1], now)
  <1> DEFINE n == Len(g)
             more == Append(g, now)
             one == [b EXCEPT !.count = @ + 1]
  <1>1. /\ g \in Seq(Nat) /\ n \in Nat /\ DOMAIN g = 1..n /\ \A i \in 1..n : g[i] \in Nat
        /\ b.count \in Nat /\ b.start \in Nat /\ b \in [count : Nat, start : Nat]
    BY DEF WindowOK
  <1>2. /\ more \in Seq(Nat) /\ Len(more) = n + 1 /\ DOMAIN more = 1..(n + 1) /\ more[n + 1] = now
        /\ \A i \in 1..n : more[i] = g[i]
    BY <1>1
  <1>3. /\ one \in [count : Nat, start : Nat] /\ one.count = b.count + 1 /\ one.start = b.start
    BY <1>1
  <1> HIDE DEF more, one
  <1>4. ASSUME NEW i \in 1..(n + 1), i + one.count <= n + 1 PROVE i \in 1..n /\ i + b.count <= n
    BY <1>1, <1>3, <1>4
  <1>5. \A i \in DOMAIN more : more[i] <= now
    <2>1. \A i \in 1..n : g[i] <= now
      BY <1>1 DEF WindowOK
    <2> QED BY <1>1, <1>2, <2>1
  <1>6. \A i \in DOMAIN more : i + one.count <= Len(more) => more[i] <= one.start
    <2>1. \A i \in 1..n : i + b.count <= n => g[i] <= b.start
      BY <1>1 DEF WindowOK
    <2> QED BY <1>2, <1>3, <1>4, <2>1
  <1>7. ASSUME NEW i \in 1..n, i + PeerLimit + b.count <= n PROVE g[i] + PeerWindow <= b.start
    BY <1>1, <1>7 DEF WindowOK
  <1>8. \A i \in DOMAIN more : i + PeerLimit + one.count <= Len(more)
            => more[i] + PeerWindow <= one.start
    <2> SUFFICES ASSUME NEW i \in 1..(n + 1), i + PeerLimit + one.count <= n + 1
                 PROVE  more[i] + PeerWindow <= one.start
      BY <1>2
    <2>1. i \in 1..n /\ i + PeerLimit + b.count <= n
      BY <1>1, <1>3, PeerLimitAssumption
    <2> QED BY <1>2, <1>3, <1>7, <2>1
  <1>9. \A i, j \in DOMAIN more : i + 2 * PeerLimit <= j => more[i] + PeerWindow <= more[j]
    <2> SUFFICES ASSUME NEW i \in 1..(n + 1), NEW j \in 1..(n + 1), i + 2 * PeerLimit <= j
                 PROVE  more[i] + PeerWindow <= more[j]
      BY <1>2
    <2>1. i \in 1..n
      BY <1>1, PeerLimitAssumption
    <2>2. CASE j = n + 1
      <3>1. i + PeerLimit + b.count <= n
        BY <1>1, <2>1, <2>2, PeerLimitAssumption
      <3>2. g[i] + PeerWindow <= b.start /\ b.start <= now
        BY <1>7, <2>1, <3>1 DEF WindowOK
      <3> QED BY <1>1, <1>2, <2>1, <2>2, <3>2, PeerLimitAssumption
    <2>3. CASE j \in 1..n
      BY <1>1, <1>2, <2>1, <2>3 DEF WindowOK
    <2> QED BY <1>1, <2>2, <2>3
  <1>10. one.count <= PeerLimit /\ one.count <= n + 1 /\ one.start <= now /\ one.start # 0
    BY <1>1, <1>3, PeerLimitAssumption DEF WindowOK
  <1>11. WindowOK(more, one, now)
    BY <1>2, <1>3, <1>5, <1>6, <1>8, <1>9, <1>10 DEF WindowOK
  <1> QED BY <1>11 DEF more, one

LEMMA WindowInvPreserved == WindowInv /\ [PeerNext]_psVars => WindowInv'
  <1> SUFFICES ASSUME WindowInv, [PeerNext]_psVars PROVE WindowInv'
    OBVIOUS
  <1>1. ASSUME UNCHANGED <<psNow, psGranted, psBuckets>> PROVE WindowInv'
    BY <1>1 DEF WindowInv
  <1>2. ASSUME NEW c \in Callers, NEW t \in Targets, NEW maxAge \in 0..1, Query(c, t, maxAge)
        PROVE  WindowInv'
    <2>1. PICK k \in PeerKeys : k = <<c, t>>
      BY DEF PeerKeys
    <2>2. PICK b : b = Bucket(k)
      OBVIOUS
    <2>3. /\ psNow \in Nat /\ psNow > 0 /\ WindowOK(psGranted[k], psBuckets[k], psNow)
          /\ psNow' = psNow
      BY <1>2 DEF WindowInv, Query
    <2>4. WindowOK(psGranted[k], b, psNow) /\ b.start # 0
      <3>1. CASE psNow - psBuckets[k].start >= PeerWindow \/ psBuckets[k].start = 0
        <4>1. b = [count |-> 0, start |-> psNow]
          BY <2>2, <3>1 DEF Bucket
        <4> QED BY <2>3, <3>1, <4>1, RestartKeeps
      <3>2. CASE ~(psNow - psBuckets[k].start >= PeerWindow \/ psBuckets[k].start = 0)
        <4>1. b = psBuckets[k]
          BY <2>2, <3>2 DEF Bucket
        <4> QED BY <2>3, <3>2, <4>1
      <3> QED BY <3>1, <3>2
    <2>5. b \in [count : Nat, start : Nat]
      BY <2>4 DEF WindowOK
    <2>6. CASE b.count >= PeerLimit
      <3>1. psBuckets' = [psBuckets EXCEPT ![k] = b] /\ psGranted' = psGranted
        BY <1>2, <2>1, <2>2, <2>6 DEF Query
      <3> QED BY <2>3, <2>4, <2>5, <3>1 DEF WindowInv
    <2>7. CASE ~(b.count >= PeerLimit)
      <3>1. /\ psBuckets' = [psBuckets EXCEPT ![k] = [b EXCEPT !.count = @ + 1]]
            /\ psGranted' = [psGranted EXCEPT ![k] = Append(@, psNow)]
        BY <1>2, <2>1, <2>2, <2>7 DEF Query
      <3>2. b.count < PeerLimit
        BY <2>5, <2>7, PeerLimitAssumption
      <3>3. PICK g, one : g = Append(psGranted[k], psNow) /\ one = [b EXCEPT !.count = @ + 1]
        OBVIOUS
      <3>4. WindowOK(g, one, psNow)
        BY <2>3, <2>4, <3>2, <3>3, GrantKeeps
      <3>5. g \in Seq(Nat) /\ one \in [count : Nat, start : Nat]
        BY <3>4 DEF WindowOK
      <3> QED BY <2>3, <3>1, <3>3, <3>4, <3>5 DEF WindowInv
    <2> QED BY <2>6, <2>7
  <1>3. CASE PeerTick
    <2>1. psNow' = psNow + 1 /\ psNow \in Nat /\ UNCHANGED <<psGranted, psBuckets>>
      BY <1>3 DEF PeerTick, WindowInv
    <2>2. ASSUME NEW g, NEW b, WindowOK(g, b, psNow) PROVE WindowOK(g, b, psNow + 1)
      <3>1. (\A i \in DOMAIN g : g[i] \in Nat) /\ b.start \in Nat
        BY <2>2 DEF WindowOK
      <3>2. (\A i \in DOMAIN g : g[i] <= psNow + 1) /\ b.start <= psNow + 1
        BY <2>1, <2>2, <3>1 DEF WindowOK
      <3> QED BY <2>2, <3>2 DEF WindowOK
    <2> QED BY <2>1, <2>2 DEF WindowInv
  <1>4. CASE \E t \in Targets : PeerChanges(t)
    BY <1>1, <1>4 DEF PeerChanges
  <1>5. CASE ClearCache \/ UNCHANGED psVars
    BY <1>1, <1>5 DEF ClearCache, psVars
  <1> QED BY <1>2, <1>3, <1>4, <1>5 DEF PeerNext

LEMMA WindowInvStarts == PeerInit => WindowInv
  <1> SUFFICES ASSUME PeerInit PROVE WindowInv
    OBVIOUS
  <1> DEFINE b == [count |-> 0, start |-> 0]
  <1>1. /\ psNow \in Nat /\ psNow > 0
        /\ \A k \in PeerKeys : psGranted[k] = <<>> /\ psBuckets[k] = b
    BY DEF PeerInit
  <1>2. b \in [count : Nat, start : Nat] /\ b.count = 0 /\ b.start = 0
    OBVIOUS
  <1>3. psBuckets \in [PeerKeys -> [count : Nat, start : Nat]]
    BY <1>2 DEF PeerInit
  <1>4. psGranted \in [PeerKeys -> Seq(Nat)]
    BY DEF PeerInit
  <1> HIDE DEF b
  <1>5. WindowOK(<<>>, b, psNow)
    BY <1>1, <1>2, PeerLimitAssumption DEF WindowOK
  <1> QED BY <1>1, <1>3, <1>4, <1>5 DEF WindowInv

(* InMemoryRateLimiter.check and PeerStatus' checkRateLimit: of any        *)
(* maxRequests + 1 requests the sliding window lets through for a key, and *)
(* of any 2 * limit + 1 queries the fixed one does for a pair, the last    *)
(* comes a window or more after the first, for any limits, windows, keys   *)
(* and order of requests, snapshots and ticks.                             *)
THEOREM LimitersHoldAlways == RateSpec /\ PeerSpec => []LimitersHold
  <1>1. RateInv /\ WindowInv => LimitersHold
    BY DEF RateInv, BucketOK, WindowInv, WindowOK, LimitersHold, RequestsInWindow, PeerLimitTwice
  <1> QED BY <1>1, RateInvStarts, RateInvPreserved, WindowInvStarts, WindowInvPreserved, PTL
          DEF RateSpec, PeerSpec

-----------------------------------------------------------------------------
(* EventStreams *)

Versions == Nat \cup (Jobs \X Nat)
JobStatuses == {"queued", "blocked", "claimed", "succeeded"}
StreamEvents ==
    [seq : Nat, ver : Versions, final : BOOLEAN]
      \cup [seq : Nat, ver : Versions, status : JobStatuses, kind : Kinds, worker : Clients]
ClientRecords ==
    [on : BOOLEAN, last : Nat \cup {NoId}, of : Nat, view : Nat, first : Nat \cup {NoId},
     got : SUBSET Versions, excused : SUBSET Nat, skips : BOOLEAN]

StreamTypes ==
    /\ process \in Nat /\ changes \in Nat /\ final \in BOOLEAN /\ lastSeq \in Nat
    /\ alerts \in SUBSET Alerts /\ known \in SUBSET Alerts
    /\ buffer \in Seq(StreamEvents)
    /\ Len(buffer) <= MaxBuffered /\ Len(buffer) <= lastSeq
    /\ jobs \in [Jobs -> [status : JobStatuses \cup {"none"}, worker : Clients \cup {"none"},
                          gen : Nat]]
    /\ client \in [Clients -> ClientRecords]
    /\ \A c \in Clients : client[c].of <= process

(* A client r was told, or has no way left to be told, every version from  *)
(* its first on up to n.                                                   *)
CoveredTo(r, n) == r.first \in Nat /\ (r.first + 1)..n \subseteq r.got \cup r.excused

(* What an id means: a client that has one of this process has seen, or    *)
(* been excused, every buffered version up to that id.                     *)
IdTells(r, buf, s) ==
    /\ r.last \in Nat /\ r.last <= s /\ r.first \in Nat
    /\ \A k \in DOMAIN buf : buf[k].seq <= r.last =>
          buf[k].ver <= r.first \/ buf[k].ver \in r.got \cup r.excused

TaskClient(r, buf, n, s, p) ==
    /\ r.on => CoveredTo(r, n) /\ r.view = n /\ r.of = p
    /\ r.of = p => IdTells(r, buf, s)

TaskStreamInv ==
    /\ \A k \in DOMAIN buffer : buffer[k].ver \in 1..changes
    /\ \A c \in Clients :
          /\ TaskClient(client[c], buffer, changes, lastSeq, process)
          /\ client[c].on => ~final

OperatorStreamInv ==
    /\ \A k \in DOMAIN buffer : buffer[k].seq = lastSeq - Len(buffer) + k
    /\ \A c \in Clients : (client[c].on => client[c].last = lastSeq) /\ ~client[c].skips

AssignmentInv == \A c \in Clients : client[c].on => QueuedFor(c) \subseteq client[c].got

StreamsInv ==
    /\ StreamTypes
    /\ stream = "task" => TaskStreamInv
    /\ stream = "operator" => OperatorStreamInv
    /\ stream = "assignment" => AssignmentInv

(* The buffers keep the end of what was written to them.                   *)
LEMMA TrimmedFacts ==
    ASSUME NEW S, NEW buf \in Seq(S)
    PROVE  /\ Trimmed(buf) \in Seq(S)
           /\ Len(Trimmed(buf)) <= MaxBuffered /\ Len(Trimmed(buf)) <= Len(buf)
           /\ \A k \in DOMAIN Trimmed(buf) :
                 /\ Len(buf) - Len(Trimmed(buf)) + k \in DOMAIN buf
                 /\ Trimmed(buf)[k] = buf[Len(buf) - Len(Trimmed(buf)) + k]
  <1> DEFINE n == Len(buf)
             m == IF n > MaxBuffered THEN n - MaxBuffered + 1 ELSE 1
             r == SubSeq(buf, m, n)
  <1>1. n \in Nat /\ DOMAIN buf = 1..n
    OBVIOUS
  <1>2. Trimmed(buf) = r /\ Len(buf) = n
    BY DEF Trimmed
  <1>3. m \in 1..(n + 1) /\ n - m + 1 <= MaxBuffered
    BY <1>1, StreamsAssumption
  <1>4. \A i \in m..n : buf[i] \in S
    BY <1>1, <1>3
  <1> HIDE DEF n, m
  <1>5. /\ r \in Seq(S) /\ Len(r) = (IF m <= n THEN n - m + 1 ELSE 0)
        /\ \A i \in 1..(n - m + 1) : r[i] = buf[m + i - 1]
    BY <1>1, <1>3, <1>4, SubSeqProperties
  <1> HIDE DEF r
  <1>6. Len(r) = n - m + 1 /\ DOMAIN r = 1..(n - m + 1)
    BY <1>1, <1>3, <1>5
  <1>7. \A k \in 1..(n - m + 1) : n - Len(r) + k = m + k - 1 /\ m + k - 1 \in 1..n
    BY <1>1, <1>3, <1>6
  <1>8. \A k \in DOMAIN r : n - Len(r) + k \in DOMAIN buf /\ r[k] = buf[n - Len(r) + k]
    BY <1>1, <1>5, <1>6, <1>7
  <1>9. Len(r) <= MaxBuffered /\ Len(r) <= n
    BY <1>1, <1>3, <1>6
  <1> QED BY <1>2, <1>5, <1>8, <1>9

LEMMA PushFacts ==
    ASSUME NEW S, NEW buf \in Seq(S), NEW e \in S
    PROVE  /\ Trimmed(Append(buf, e)) \in Seq(S)
           /\ Len(Trimmed(Append(buf, e))) <= MaxBuffered
           /\ Len(Trimmed(Append(buf, e))) <= Len(buf) + 1
           /\ \A k \in DOMAIN Trimmed(Append(buf, e)) :
                 \/ Trimmed(Append(buf, e))[k] = e
                 \/ \E m \in DOMAIN buf : Trimmed(Append(buf, e))[k] = buf[m]
  <1>1. PICK long : long = Append(buf, e)
    OBVIOUS
  <1>2. /\ long \in Seq(S) /\ Len(buf) \in Nat /\ Len(long) = Len(buf) + 1
        /\ DOMAIN long = 1..(Len(buf) + 1) /\ DOMAIN buf = 1..Len(buf)
        /\ long[Len(buf) + 1] = e /\ \A m \in 1..Len(buf) : long[m] = buf[m]
    BY <1>1
  <1>3. PICK r : r = Trimmed(long)
    OBVIOUS
  <1>4. /\ r \in Seq(S) /\ Len(r) <= MaxBuffered /\ Len(r) <= Len(long)
        /\ \A k \in DOMAIN r : \E m \in DOMAIN long : r[k] = long[m]
    <2>1. long \in Seq(S)
      BY <1>2
    <2>2. /\ r \in Seq(S) /\ Len(r) <= MaxBuffered /\ Len(r) <= Len(long)
          /\ \A k \in DOMAIN r : /\ Len(long) - Len(r) + k \in DOMAIN long
                                 /\ r[k] = long[Len(long) - Len(r) + k]
      BY ONLY <1>3, <2>1, TrimmedFacts
    <2> QED BY ONLY <2>2
  <1>5. \A m \in DOMAIN long : long[m] = e \/ \E i \in DOMAIN buf : long[m] = buf[i]
    <2> SUFFICES ASSUME NEW m \in 1..(Len(buf) + 1), m # Len(buf) + 1
                 PROVE  m \in 1..Len(buf)
      BY <1>2
    <2> QED BY <1>2
  <1> QED BY <1>1, <1>2, <1>3, <1>4, <1>5

(* Every finite set of places has a least and a greatest one.              *)
LEMMA LeastPlace ==
    ASSUME NEW T \in SUBSET Nat, T # {}
    PROVE  \E x \in T : \A y \in T : x <= y
  <1>1. IsWellFoundedOn(OpToRel(<, Nat), Nat)
    BY NatLessThanWellFounded
  <1>2. PICK x \in T : \A y \in T : ~(<<y, x>> \in OpToRel(<, Nat))
    BY <1>1, WFMin
  <1>3. \A y \in T : ~ (y < x)
    BY <1>2 DEF OpToRel
  <1> QED BY <1>3

LEMMA MinMaxOfPlaces ==
    ASSUME NEW n \in Nat, NEW I \in SUBSET (1..n), I # {}
    PROVE  Min(I) \in I /\ (\A i \in I : Min(I) <= i) /\ Max(I) \in I
  <1> DEFINE B == {b \in Nat : \A i \in I : i <= b}
  <1>1. n \in B
    OBVIOUS
  <1>2. PICK b \in B : \A c \in B : b <= c
    BY <1>1, LeastPlace
  <1>3. b \in I
    <2>1. SUFFICES ASSUME b \notin I PROVE FALSE
      OBVIOUS
    <2>2. PICK i \in I : TRUE
      OBVIOUS
    <2>3. b >= 1 /\ b - 1 \in Nat
      BY <2>2
    <2>4. b - 1 \in B
      BY <2>1, <2>3
    <2> QED BY <1>2, <2>3, <2>4
  <1>4. Max(I) \in I
    BY <1>3 DEF Max
  <1>5. I \in SUBSET Nat
    OBVIOUS
  <1>6. \E x \in I : \A y \in I : x <= y
    BY <1>5, LeastPlace
  <1> QED BY <1>4, <1>6 DEF Min

LEMMA CoveredIdTells ==
    ASSUME NEW r \in ClientRecords, NEW buf, NEW n \in Nat, NEW s \in Nat,
           CoveredTo(r, n), \A k \in DOMAIN buf : buf[k].ver \in 1..n,
           r.last \in Nat, r.last <= s
    PROVE  IdTells(r, buf, s)
  <1> SUFFICES ASSUME NEW k \in DOMAIN buf, ~(buf[k].ver <= r.first)
               PROVE  buf[k].ver \in r.got \cup r.excused
    BY DEF IdTells, CoveredTo
  <1>1. r.first \in Nat /\ buf[k].ver \in 1..n
    BY DEF CoveredTo
  <1>2. buf[k].ver \in (r.first + 1)..n
    BY <1>1
  <1> QED BY <1>2 DEF CoveredTo

(* emitTaskUpdate: a subscriber is told the version that is appended, and  *)
(* a client that is away has an id below it.                               *)
LEMMA TaskChangesStep ==
    ASSUME StreamsInv, NEW ends \in BOOLEAN, TaskChanges(ends)
    PROVE  StreamsInv'
  <1> USE DEF StreamsInv
  <1>1. /\ stream = "task" /\ stream' = "task" /\ changes' = changes + 1 /\ final' = ends
        /\ UNCHANGED <<process, alerts, known, jobs>> /\ EmitTaskUpdate(changes + 1, ends)
    BY DEF TaskChanges
  <1>2. /\ process \in Nat /\ changes \in Nat /\ lastSeq \in Nat /\ changes + 1 \in Nat
        /\ lastSeq + 1 \in Nat
        /\ buffer \in Seq(StreamEvents) /\ client \in [Clients -> ClientRecords]
        /\ Len(buffer) <= MaxBuffered /\ Len(buffer) <= lastSeq /\ Len(buffer) \in Nat
        /\ \A c \in Clients : client[c] \in ClientRecords /\ client[c].of <= process
        /\ TaskStreamInv
    BY <1>1 DEF StreamTypes
  <1>3. CASE {c \in Clients : client[c].on} = {} /\ buffer = <<>>
    <2>1. UNCHANGED <<lastSeq, buffer, client>>
      BY <1>1, <1>3 DEF EmitTaskUpdate
    <2>2. StreamTypes'
      BY <1>1, <1>2, <2>1 DEF StreamTypes
    <2>3. ASSUME NEW c \in Clients
          PROVE  ~client[c].on /\ TaskClient(client[c], buffer, changes + 1, lastSeq, process)
      <3>1. ~client[c].on
        BY <1>3
      <3> QED BY <1>2, <3>1 DEF TaskStreamInv, TaskClient
    <2>4. \A k \in DOMAIN buffer : FALSE
      BY <1>3
    <2> QED BY <1>1, <2>1, <2>2, <2>3, <2>4 DEF TaskStreamInv
  <1>4. CASE ~({c \in Clients : client[c].on} = {} /\ buffer = <<>>)
    <2> DEFINE e == [seq |-> lastSeq + 1, ver |-> changes + 1, final |-> ends]
    <2>1. /\ lastSeq' = lastSeq + 1 /\ buffer' = Trimmed(Append(buffer, e))
          /\ client' = [c \in Clients |-> IF c \in {d \in Clients : client[d].on}
                                          THEN Told(client[c], e) ELSE client[c]]
      BY <1>1, <1>4 DEF EmitTaskUpdate
    <2>2. /\ e \in StreamEvents /\ e.seq = lastSeq + 1 /\ e.ver = changes + 1 /\ e.final = ends
      BY <1>2 DEF StreamEvents, Versions
    <2> HIDE DEF e
    <2>3. /\ buffer' \in Seq(StreamEvents) /\ Len(buffer') <= MaxBuffered
          /\ Len(buffer') <= Len(buffer) + 1
          /\ \A k \in DOMAIN buffer' : buffer'[k] = e \/ \E m \in DOMAIN buffer : buffer'[k] = buffer[m]
      BY <1>2, <2>1, <2>2, PushFacts
    <2>4. \A k \in DOMAIN buffer' : buffer'[k].ver \in 1..(changes + 1)
      <3>1. \A m \in DOMAIN buffer : buffer[m].ver \in 1..(changes + 1)
        BY <1>2 DEF TaskStreamInv
      <3>2. e.ver \in 1..(changes + 1)
        BY <1>2, <2>2
      <3> QED BY <2>3, <3>1, <3>2
    <2>5. Len(buffer') \in Nat /\ Len(buffer') <= lastSeq + 1
      BY <1>2, <2>3
    <2>6. ASSUME NEW c \in Clients
          PROVE  /\ client'[c] \in ClientRecords /\ client'[c].of <= process
                 /\ TaskClient(client'[c], buffer', changes + 1, lastSeq + 1, process)
                 /\ client'[c].on => ~ends
      <3> DEFINE r == client[c]
                 w == Told(r, e)
      <3>1. r \in ClientRecords /\ r.of <= process
        BY <1>2
      <3>2. TaskClient(r, buffer, changes, lastSeq, process)
        BY <1>2 DEF TaskStreamInv
      <3> HIDE DEF r
      <3>3. CASE r.on
        <4>1. client'[c] = w
          BY <2>1, <3>3 DEF r
        <4>2. /\ w.on = (r.on /\ ~e.final) /\ w.last = e.seq /\ w.of = process /\ w.view = e.ver
              /\ w.first = r.first /\ w.got = r.got \cup {e.ver} /\ w.excused = r.excused
              /\ w.skips = r.skips
          BY <3>1 DEF Told, ClientRecords
        <4>3. w \in ClientRecords
          <5>1. e.ver \in Versions /\ r.got \in SUBSET Versions
            BY <1>2, <2>2, <3>1 DEF Versions, ClientRecords
          <5>2. r.got \cup {e.ver} \in SUBSET Versions /\ (r.on /\ ~e.final) \in BOOLEAN
            BY <5>1
          <5> QED BY <1>2, <2>2, <3>1, <5>2 DEF Told, ClientRecords
        <4> HIDE DEF w
        <4>4. CoveredTo(r, changes)
          BY <3>2, <3>3 DEF TaskClient
        <4>5. CoveredTo(w, changes + 1)
          <5>1. r.first \in Nat /\ (r.first + 1)..changes \subseteq r.got \cup r.excused
            BY <4>4 DEF CoveredTo
          <5>2. ASSUME NEW v \in (r.first + 1)..(changes + 1)
                PROVE  v \in w.got \cup w.excused
            <6>1. CASE v = changes + 1
              BY <2>2, <4>2, <6>1
            <6>2. CASE v \in (r.first + 1)..changes
              BY <4>2, <5>1, <6>2
            <6> QED BY <1>2, <5>1, <6>1, <6>2
          <5> QED BY <4>2, <5>1, <5>2 DEF CoveredTo
        <4>6. w.last \in Nat /\ w.last <= lastSeq + 1
          BY <1>2, <2>2, <4>2
        <4>7. IdTells(w, buffer', lastSeq + 1)
          BY <1>2, <2>4, <4>3, <4>5, <4>6, CoveredIdTells
        <4>8. TaskClient(w, buffer', changes + 1, lastSeq + 1, process)
          BY <2>2, <4>2, <4>5, <4>7 DEF TaskClient
        <4>9. w.of <= process
          BY <1>2, <4>2
        <4>10. w.on => ~ends
          BY <2>2, <4>2, Zenon
        <4> QED BY <4>1, <4>3, <4>8, <4>9, <4>10
      <3>4. CASE ~r.on
        <4>1. client'[c] = r
          BY <2>1, <3>4 DEF r
        <4>2. ASSUME r.of = process PROVE IdTells(r, buffer', lastSeq + 1)
          <5>1. IdTells(r, buffer, lastSeq)
            BY <3>2, <4>2 DEF TaskClient
          <5>2. r.last \in Nat /\ r.last <= lastSeq /\ r.first \in Nat
            BY <5>1 DEF IdTells
          <5>3. r.last <= lastSeq + 1 /\ ~(e.seq <= r.last)
            BY <1>2, <2>2, <5>2
          <5> QED BY <2>3, <5>1, <5>2, <5>3 DEF IdTells
        <4> QED BY <3>1, <3>4, <4>1, <4>2 DEF TaskClient
      <3> QED BY <3>3, <3>4
    <2>7. client' = [c \in Clients |-> client'[c]]
      BY <2>1
    <2>8. client' \in [Clients -> ClientRecords]
      BY <2>6, <2>7
    <2>9. StreamTypes'
      BY <1>1, <1>2, <2>1, <2>3, <2>5, <2>6, <2>8 DEF StreamTypes
    <2> QED BY <1>1, <2>1, <2>4, <2>6, <2>9 DEF TaskStreamInv
  <1> QED BY <1>3, <1>4

(* handleTaskEventStream: what is retained is replayed after the client's  *)
(* id, and what the id covers the client has seen.                         *)
LEMMA ConnectToTaskStep ==
    ASSUME StreamsInv, NEW c \in Clients, ConnectToTask(c)
    PROVE  StreamsInv'
  <1> USE DEF StreamsInv
  <1> DEFINE r == client[c]
             missed == IF r.last >= 0 THEN {buffer[k].ver : k \in After(r.last)} ELSE {}
             lost == IF r.of = process THEN (1..changes) \ Retained ELSE 1..changes
             first == IF r.first = NoId THEN changes ELSE r.first
             w == [r EXCEPT !.on = ~final, !.last = Len(buffer), !.of = process, !.view = changes,
                            !.first = first, !.got = r.got \cup missed,
                            !.excused = r.excused \cup lost]
  <1>1. /\ stream = "task" /\ stream' = "task"
        /\ UNCHANGED <<process, changes, final, lastSeq, buffer, alerts, known, jobs>>
    BY DEF ConnectToTask
  <1>2. /\ process \in Nat /\ changes \in Nat /\ lastSeq \in Nat /\ final \in BOOLEAN
        /\ buffer \in Seq(StreamEvents) /\ client \in [Clients -> ClientRecords]
        /\ Len(buffer) <= MaxBuffered /\ Len(buffer) <= lastSeq /\ Len(buffer) \in Nat
        /\ r \in ClientRecords /\ r.of <= process
        /\ TaskStreamInv
    BY <1>1 DEF StreamTypes
  <1>3. client' = [client EXCEPT ![c] = w]
    BY Zenon DEF ConnectToTask, SnapshotSeq
  <1>4. \A k \in DOMAIN buffer : buffer[k].ver \in 1..changes /\ buffer[k].ver \in Versions
    BY <1>2 DEF TaskStreamInv, Versions
  <1>5. missed \in SUBSET Versions /\ lost \in SUBSET Nat
    BY <1>2, <1>4 DEF After
  <1>6. first \in Nat
    BY <1>2 DEF ClientRecords
  <1>7. /\ w.on = ~final /\ w.last = Len(buffer) /\ w.of = process /\ w.view = changes
        /\ w.first = first /\ w.got = r.got \cup missed /\ w.excused = r.excused \cup lost
    <2> HIDE DEF missed, lost, first, r
    <2> QED BY <1>2 DEF ClientRecords
  <1>8. w \in ClientRecords
    <2> HIDE DEF missed, lost, first, r
    <2> QED BY <1>2, <1>5, <1>6 DEF ClientRecords
  <1>9. ASSUME NEW v \in (first + 1)..changes PROVE v \in (r.got \cup missed) \cup (r.excused \cup lost)
    <2>1. v \in 1..changes /\ ~(v <= first)
      BY <1>2, <1>6
    <2>2. CASE r.of # process
      BY <2>1, <2>2
    <2>3. CASE r.of = process
      <3>1. IdTells(r, buffer, lastSeq)
        BY <1>2, <2>3 DEF TaskStreamInv, TaskClient
      <3>2. r.last \in Nat /\ r.first \in Nat
        BY <3>1 DEF IdTells
      <3>3. first = r.first
        BY <3>2 DEF NoId
      <3>4. CASE v \notin Retained
        BY <2>1, <2>3, <3>4
      <3>5. CASE v \in Retained
        <4>1. PICK k \in DOMAIN buffer : v = buffer[k].ver
          BY <3>5 DEF Retained
        <4>2. CASE buffer[k].seq > r.last
          <5>1. k \in After(r.last) /\ r.last >= 0
            BY <3>2, <4>2 DEF After
          <5> QED BY <4>1, <5>1
        <4>3. CASE ~(buffer[k].seq > r.last)
          <5>1. buffer[k].seq \in Nat
            BY <1>2 DEF StreamEvents
          <5>2. buffer[k].seq <= r.last
            BY <3>2, <4>3, <5>1
          <5>3. v <= r.first \/ v \in r.got \cup r.excused
            BY <3>1, <4>1, <5>2 DEF IdTells
          <5> QED BY <2>1, <3>3, <5>3
        <4> QED BY <4>2, <4>3
      <3> QED BY <3>4, <3>5
    <2> QED BY <2>2, <2>3
  <1>10. CoveredTo(w, changes)
    <2> HIDE DEF w, missed, lost, first, r
    <2> QED BY <1>6, <1>7, <1>9 DEF CoveredTo
  <1>11. IdTells(w, buffer, lastSeq)
    <2> HIDE DEF w, missed, lost, first, r
    <2>1. w.last \in Nat /\ w.last <= lastSeq
      BY <1>2, <1>7
    <2> QED BY <1>2, <1>4, <1>8, <1>10, <2>1, CoveredIdTells
  <1>12. TaskClient(w, buffer, changes, lastSeq, process) /\ (w.on => ~final)
    <2> HIDE DEF w, missed, lost, first, r
    <2> QED BY <1>7, <1>10, <1>11 DEF TaskClient
  <1> HIDE DEF w, missed, lost, first, r
  <1>13. StreamTypes'
    BY <1>1, <1>2, <1>3, <1>7, <1>8 DEF StreamTypes
  <1> QED BY <1>1, <1>2, <1>3, <1>12, <1>13 DEF TaskStreamInv

(* publishOperatorEvents: the events of one publish are numbered on from   *)
(* the last, and every listener has the last.                              *)
LEMMA StateChangesStep ==
    ASSUME StreamsInv, NEW found \in SUBSET Alerts, StateChanges(found)
    PROVE  StreamsInv'
  <1> USE DEF StreamsInv
  <1>1. /\ stream = "operator" /\ stream' = "operator" /\ changes' = changes + 1
        /\ alerts' = found /\ UNCHANGED <<process, final, jobs>> /\ PublishOperatorEvents(found)
    BY DEF StateChanges
  <1>2. /\ process \in Nat /\ changes \in Nat /\ lastSeq \in Nat /\ changes + 1 \in Nat
        /\ buffer \in Seq(StreamEvents) /\ client \in [Clients -> ClientRecords]
        /\ Len(buffer) <= MaxBuffered /\ Len(buffer) <= lastSeq /\ Len(buffer) \in Nat
        /\ \A c \in Clients : client[c] \in ClientRecords /\ client[c].of <= process
        /\ known \in SUBSET Alerts /\ OperatorStreamInv
    BY <1>1 DEF StreamTypes
  <1>3. CASE \A c \in Clients : ~client[c].on
    <2>1. UNCHANGED <<lastSeq, buffer, known, client>>
      BY <1>1, <1>3 DEF PublishOperatorEvents
    <2>2. StreamTypes'
      BY <1>1, <1>2, <2>1 DEF StreamTypes
    <2> QED BY <1>1, <1>2, <2>1, <2>2 DEF OperatorStreamInv
  <1>4. CASE ~(\A c \in Clients : ~client[c].on)
    <2>1. PICK n : n = 1 + Cardinality(found \ known) + Cardinality(known \ found)
      OBVIOUS
    <2>2. n \in Nat \ {0} /\ lastSeq + n \in Nat
      <3>1. IsFiniteSet(found \ known) /\ IsFiniteSet(known \ found)
        BY <1>2, StreamsAssumption, FS_Subset
      <3>2. Cardinality(found \ known) \in Nat /\ Cardinality(known \ found) \in Nat
        BY <3>1, FS_CardinalityType
      <3> QED BY <1>2, <2>1, <3>2
    <2>3. PICK new : new = [k \in 1..n |-> [seq |-> lastSeq + k, ver |-> changes + 1, final |-> FALSE]]
      OBVIOUS
    <2>4. /\ lastSeq' = lastSeq + n /\ buffer' = Trimmed(buffer \o new) /\ known' = found
          /\ client' = [c \in Clients |-> IF client[c].on
                          THEN NextInStream(client[c], lastSeq + 1, lastSeq + n) ELSE client[c]]
      BY <1>1, <1>4, <2>1, <2>3 DEF PublishOperatorEvents
    <2>5. \A k \in 1..n : [seq |-> lastSeq + k, ver |-> changes + 1, final |-> FALSE] \in StreamEvents
      BY <1>2, <2>2 DEF StreamEvents, Versions
    <2>6. new \in Seq(StreamEvents) /\ Len(new) = n /\ \A k \in 1..n : new[k].seq = lastSeq + k
      BY <2>2, <2>3, <2>5
    <2>7. PICK long : long = buffer \o new
      OBVIOUS
    <2>8. long \in Seq(StreamEvents) /\ Len(long) = Len(buffer) + n /\ DOMAIN long = 1..(Len(buffer) + n)
      <3>1. long \in Seq(StreamEvents) /\ Len(long) = Len(buffer) + Len(new)
        BY ONLY <1>2, <2>6, <2>7, ConcatProperties
      <3> QED BY <2>6, <3>1
    <2>9. \A k \in DOMAIN long : long[k].seq = lastSeq - Len(buffer) + k
      <3> SUFFICES ASSUME NEW k \in 1..(Len(buffer) + n)
                   PROVE  long[k].seq = lastSeq - Len(buffer) + k
        BY <2>8
      <3>1. CASE k <= Len(buffer)
        <4>1. k \in DOMAIN buffer /\ long[k] = buffer[k]
          BY <1>2, <2>2, <2>6, <2>7, <3>1
        <4> QED BY <1>2, <4>1 DEF OperatorStreamInv
      <3>2. CASE ~(k <= Len(buffer))
        <4>1. k - Len(buffer) \in 1..n /\ long[k] = new[k - Len(buffer)]
          BY <1>2, <2>2, <2>6, <2>7, <3>2
        <4>2. long[k].seq = lastSeq + (k - Len(buffer))
          BY <2>6, <4>1
        <4> QED BY <1>2, <4>2
      <3> QED BY <3>1, <3>2
    <2>10. PICK r : r = Trimmed(long)
      OBVIOUS
    <2>11. /\ r \in Seq(StreamEvents) /\ Len(r) <= MaxBuffered /\ Len(r) <= Len(long)
           /\ \A k \in DOMAIN r : /\ Len(long) - Len(r) + k \in DOMAIN long
                                  /\ r[k] = long[Len(long) - Len(r) + k]
      BY <2>8, <2>10, TrimmedFacts
    <2>12. buffer' = r /\ Len(r) \in Nat /\ Len(r) <= lastSeq + n /\ DOMAIN r = 1..Len(r)
      BY <1>2, <2>2, <2>4, <2>7, <2>8, <2>10, <2>11
    <2>13. \A k \in DOMAIN r : r[k].seq = (lastSeq + n) - Len(r) + k
      <3> SUFFICES ASSUME NEW k \in DOMAIN r PROVE r[k].seq = (lastSeq + n) - Len(r) + k
        OBVIOUS
      <3>1. r[k].seq = lastSeq - Len(buffer) + (Len(long) - Len(r) + k)
        BY <2>9, <2>11
      <3>2. k \in Nat
        BY <2>12
      <3> QED BY <1>2, <2>2, <2>8, <2>12, <3>1, <3>2
    <2>14. ASSUME NEW c \in Clients
           PROVE  /\ client'[c] \in ClientRecords /\ client'[c].of <= process
                  /\ client'[c].on => client'[c].last = lastSeq + n
                  /\ ~client'[c].skips
      <3> DEFINE d == client[c]
                 w == [d EXCEPT !.skips = d.skips \/ d.last # lastSeq, !.last = lastSeq + n,
                                !.of = process]
      <3>1. d \in ClientRecords /\ d.of <= process /\ (d.on => d.last = lastSeq) /\ ~d.skips
        BY <1>2 DEF OperatorStreamInv
      <3>2. CASE d.on
        <4>1. PICK a, b : a = lastSeq + 1 /\ b = lastSeq + n
          OBVIOUS
        <4>2. client'[c] = NextInStream(d, a, b) /\ ~(b < a) /\ a - 1 = lastSeq
          BY <1>2, <2>2, <2>4, <3>2, <4>1
        <4> HIDE DEF d
        <4>3. client'[c] = w
          <5>1. NextInStream(d, a, b)
                  = [d EXCEPT !.skips = d.skips \/ d.last # a - 1, !.last = b, !.of = process]
            BY <4>2, Zenon DEF NextInStream
          <5> QED BY <4>1, <4>2, <5>1
        <4>4. w.of = process /\ w.last = lastSeq + n /\ w.skips = (d.skips \/ d.last # lastSeq)
          BY <3>1 DEF ClientRecords
        <4>5. w \in ClientRecords
          BY <1>2, <2>2, <3>1 DEF ClientRecords
        <4> HIDE DEF w
        <4>6. ~w.skips
          BY <3>1, <3>2, <4>4
        <4>7. w.of <= process
          BY <1>2, <4>4
        <4> QED BY <4>3, <4>4, <4>5, <4>6, <4>7
      <3>3. CASE ~d.on
        BY <2>4, <3>1, <3>3
      <3> QED BY <3>2, <3>3
    <2>15. client' = [c \in Clients |-> client'[c]]
      BY <2>4
    <2>16. client' \in [Clients -> ClientRecords]
      BY <2>14, <2>15
    <2>17. StreamTypes'
      BY <1>1, <1>2, <2>2, <2>4, <2>11, <2>12, <2>14, <2>16 DEF StreamTypes
    <2>18. OperatorStreamInv'
      <3>1. \A k \in DOMAIN buffer' : buffer'[k].seq = lastSeq' - Len(buffer') + k
        <4>1. \A k \in DOMAIN r : r[k].seq = (lastSeq + n) - Len(r) + k
          BY <2>13
        <4>2. buffer' = r /\ lastSeq' = lastSeq + n
          BY <2>4, <2>12
        <4> QED BY ONLY <4>1, <4>2, Zenon
      <3>2. \A c \in Clients : (client'[c].on => client'[c].last = lastSeq') /\ ~client'[c].skips
        BY ONLY <2>4, <2>14
      <3> QED BY <3>1, <3>2 DEF OperatorStreamInv
    <2> QED BY <1>1, <2>17, <2>18
  <1> QED BY <1>3, <1>4

(* resolveOperatorReplayAfterSeq: the first event replayed follows the id. *)
LEMMA ConnectToOperatorStep ==
    ASSUME StreamsInv, NEW c \in Clients, ConnectToOperator(c)
    PROVE  StreamsInv'
  <1> USE DEF StreamsInv
  <1> DEFINE d == client[c]
  <1>1. /\ stream = "operator" /\ stream' = "operator"
        /\ UNCHANGED <<process, changes, final, lastSeq, buffer, alerts, known, jobs>>
    BY DEF ConnectToOperator
  <1>2. /\ process \in Nat /\ lastSeq \in Nat
        /\ buffer \in Seq(StreamEvents) /\ client \in [Clients -> ClientRecords]
        /\ Len(buffer) <= lastSeq /\ Len(buffer) \in Nat /\ DOMAIN buffer = 1..Len(buffer)
        /\ d \in ClientRecords /\ d.of <= process /\ ~d.skips
        /\ OperatorStreamInv
    BY <1>1 DEF StreamTypes, OperatorStreamInv
  <1>3. PICK from, missed, caught :
           /\ from = ReplayAfterSeq(d.last)
           /\ missed = IF from = NoId THEN {} ELSE After(from)
           /\ caught = IF missed = {} THEN d
                       ELSE NextInStream(d, buffer[Min(missed)].seq, buffer[Max(missed)].seq)
           /\ client' = [client EXCEPT ![c] = [caught EXCEPT !.on = TRUE, !.last = lastSeq,
                                                              !.of = process]]
    BY DEF ConnectToOperator
  <1>4. caught \in ClientRecords /\ ~caught.skips
    <2>1. CASE missed = {}
      BY <1>2, <1>3, <2>1
    <2>2. CASE missed # {}
      <3>1. from # NoId /\ missed = After(from)
        BY <1>3, <2>2
      <3>2. from = d.last /\ ~(d.last > lastSeq) /\ (buffer # <<>> => ~(d.last < buffer[1].seq - 1))
        BY <1>3, <3>1 DEF ReplayAfterSeq
      <3>3. d.last \in Nat
        BY <1>2, <3>1, <3>2 DEF ClientRecords
      <3>4. missed \subseteq 1..Len(buffer) /\ \A k \in missed : buffer[k].seq > d.last
        BY <1>2, <3>1, <3>2 DEF After
      <3>5. PICK m, x : m = Min(missed) /\ x = Max(missed)
        OBVIOUS
      <3>6. m \in missed /\ (\A k \in missed : m <= k) /\ x \in missed
        BY <1>2, <2>2, <3>4, <3>5, MinMaxOfPlaces
      <3>7. \A k \in 1..Len(buffer) : buffer[k].seq = lastSeq - Len(buffer) + k
        BY <1>2 DEF OperatorStreamInv
      <3>8. buffer # <<>> /\ 1 \in 1..Len(buffer) /\ m \in 1..Len(buffer)
        BY <1>2, <3>4, <3>6
      <3>9. d.last >= lastSeq - Len(buffer)
        BY <1>2, <3>2, <3>3, <3>7, <3>8
      <3>10. d.last - (lastSeq - Len(buffer)) + 1 \in missed
        <4>1. PICK k : k = d.last - (lastSeq - Len(buffer)) + 1
          OBVIOUS
        <4>2. lastSeq - Len(buffer) + m > d.last
          BY <3>4, <3>6, <3>7, <3>8
        <4>3. k \in 1..Len(buffer)
          BY <1>2, <3>3, <3>8, <3>9, <4>1, <4>2
        <4>4. buffer[k].seq = d.last + 1
          BY <1>2, <3>3, <3>7, <4>1, <4>3
        <4>5. buffer[k].seq > d.last
          BY <3>3, <4>4
        <4>6. k \in After(d.last)
          BY <1>2, <4>3, <4>5 DEF After
        <4> QED BY <3>1, <3>2, <4>1, <4>6
      <3>11. buffer[m].seq = d.last + 1
        <4>1. m <= d.last - (lastSeq - Len(buffer)) + 1 /\ buffer[m].seq > d.last
          BY <3>4, <3>6, <3>10
        <4>2. buffer[m].seq = lastSeq - Len(buffer) + m
          BY <3>7, <3>8
        <4> QED BY <1>2, <3>3, <3>8, <4>1, <4>2
      <3>12. buffer[x].seq \in Nat
        BY <1>2, <3>4, <3>6 DEF StreamEvents
      <3>13. PICK a, b : a = buffer[m].seq /\ b = buffer[x].seq
        OBVIOUS
      <3>14. caught = NextInStream(d, a, b) /\ a - 1 = d.last /\ b \in Nat
        BY <1>3, <2>2, <3>3, <3>5, <3>11, <3>12, <3>13
      <3> HIDE DEF d
      <3>15. CASE b < a
        <4>1. caught = d
          BY <3>14, <3>15 DEF NextInStream
        <4> QED BY <1>2, <4>1
      <3>16. CASE ~(b < a)
        <4> DEFINE w == [d EXCEPT !.skips = d.skips \/ d.last # a - 1, !.last = b, !.of = process]
        <4>1. NextInStream(d, a, b) = w
          BY <3>16, Zenon DEF NextInStream
        <4>2. w \in ClientRecords /\ w.skips = (d.skips \/ d.last # a - 1)
          BY <1>2, <3>14 DEF ClientRecords
        <4> HIDE DEF w
        <4> QED BY <1>2, <3>14, <4>1, <4>2
      <3> QED BY <3>15, <3>16
    <2> QED BY <2>1, <2>2
  <1> DEFINE w == [caught EXCEPT !.on = TRUE, !.last = lastSeq, !.of = process]
  <1>5. w \in ClientRecords /\ w.last = lastSeq /\ w.of = process /\ w.skips = caught.skips
    BY <1>2, <1>4 DEF ClientRecords
  <1>6. client' = [client EXCEPT ![c] = w]
    BY <1>3
  <1> HIDE DEF w, d
  <1>7. w.of <= process /\ ~w.skips
    BY <1>2, <1>4, <1>5
  <1>8. StreamTypes'
    BY <1>1, <1>2, <1>5, <1>6, <1>7 DEF StreamTypes
  <1> QED BY <1>1, <1>2, <1>5, <1>6, <1>7, <1>8 DEF OperatorStreamInv

JobRecords == [status : JobStatuses \cup {"none"}, worker : Clients \cup {"none"}, gen : Nat]

(* TaskEventStream.push: a task enters "queued" only by an event that its  *)
(* worker's listener is for.                                               *)
LEMMA JobChangesStep ==
    ASSUME StreamsInv, NEW j \in Jobs, NEW kind \in Kinds, NEW to \in JobStatuses,
           NEW worker \in Clients, JobChanges(j, kind, to, worker)
    PROVE  StreamsInv'
  <1> USE DEF StreamsInv
  <1> DEFINE gen == jobs[j].gen + 1
             e == [seq |-> lastSeq + 1, ver |-> <<j, gen>>, status |-> to, kind |-> kind,
                   worker |-> worker]
             job == [status |-> to, worker |-> worker, gen |-> gen]
             tells(c) == client[c].on /\ c = worker /\ IsWorkerAssignmentEvent(to, kind)
             told(c) == [client[c] EXCEPT !.last = lastSeq + 1, !.of = process,
                                          !.got = client[c].got \cup {e.ver}]
  <1>1. /\ stream = "assignment" /\ stream' = "assignment" /\ changes' = changes + 1
        /\ to \in JobMoves(kind, jobs[j].status)
        /\ lastSeq' = lastSeq + 1 /\ buffer' = Trimmed(Append(buffer, e))
        /\ jobs' = [jobs EXCEPT ![j] = job]
        /\ UNCHANGED <<process, final, alerts, known>>
    BY DEF JobChanges
  <1>2. client' = [c \in Clients |-> IF tells(c) THEN told(c) ELSE client[c]]
    BY Zenon DEF JobChanges
  <1>3. /\ process \in Nat /\ changes \in Nat /\ lastSeq \in Nat /\ changes + 1 \in Nat
        /\ lastSeq + 1 \in Nat
        /\ buffer \in Seq(StreamEvents) /\ client \in [Clients -> ClientRecords]
        /\ Len(buffer) <= lastSeq /\ Len(buffer) \in Nat
        /\ \A c \in Clients : client[c] \in ClientRecords /\ client[c].of <= process
        /\ jobs \in [Jobs -> JobRecords] /\ AssignmentInv
    BY <1>1 DEF StreamTypes, JobRecords
  <1>4. gen \in Nat
    BY <1>3 DEF JobRecords
  <1>5. <<j, gen>> \in Versions
    BY <1>4 DEF Versions
  <1> HIDE DEF gen
  <1>6. e \in StreamEvents /\ e.ver = <<j, gen>>
    BY <1>3, <1>5 DEF StreamEvents
  <1>7. job \in JobRecords /\ job.status = to /\ job.worker = worker /\ job.gen = gen
    BY <1>4 DEF JobRecords
  <1> HIDE DEF e, job
  <1>8. /\ buffer' \in Seq(StreamEvents) /\ Len(buffer') <= MaxBuffered
        /\ Len(buffer') <= Len(buffer) + 1
    BY <1>1, <1>3, <1>6, PushFacts
  <1>9. Len(buffer') <= lastSeq + 1
    BY <1>3, <1>8
  <1>10. ASSUME NEW c \in Clients
         PROVE  /\ told(c) \in ClientRecords /\ told(c).of = process /\ told(c).on = client[c].on
                /\ told(c).got = client[c].got \cup {<<j, gen>>}
    <2>1. client[c] \in ClientRecords
      BY <1>3
    <2>2. client[c].got \cup {e.ver} \in SUBSET Versions
      BY <1>5, <1>6, <2>1 DEF ClientRecords
    <2> QED BY <1>3, <1>6, <2>1, <2>2 DEF ClientRecords
  <1> HIDE DEF told
  <1>11. ASSUME NEW c \in Clients PROVE client'[c] \in ClientRecords /\ client'[c].of <= process
    <2>1. CASE tells(c)
      <3>1. client'[c] = told(c)
        BY <1>2, <2>1
      <3> QED BY <1>3, <1>10, <3>1
    <2>2. CASE ~tells(c)
      <3>1. client'[c] = client[c]
        BY <1>2, <2>2
      <3> QED BY <1>3, <3>1
    <2> QED BY <2>1, <2>2
  <1>12. client' \in [Clients -> ClientRecords]
    <2>1. client' = [c \in Clients |-> client'[c]]
      BY <1>2
    <2> QED BY <1>11, <2>1
  <1>13. jobs' \in [Jobs -> JobRecords]
    BY <1>1, <1>3, <1>7
  <1>upTo. StreamTypes'
    BY <1>1, <1>3, <1>8, <1>9, <1>11, <1>12, <1>13 DEF StreamTypes, JobRecords
  <1>15. ASSUME NEW c \in Clients, client'[c].on, NEW k \in Jobs, jobs'[k].status = "queued",
                jobs'[k].worker = c
         PROVE  <<k, jobs'[k].gen>> \in client'[c].got
    <2>1. client[c].on /\ client[c].got \subseteq client'[c].got
      <3>1. CASE tells(c)
        <4>1. client'[c] = told(c)
          BY <1>2, <3>1
        <4> QED BY <1>10, <1>15, <4>1
      <3>2. CASE ~tells(c)
        <4>1. client'[c] = client[c]
          BY <1>2, <3>2
        <4> QED BY <1>15, <4>1
      <3> QED BY <3>1, <3>2
    <2>2. CASE k = j
      <3>1. jobs'[k] = job
        BY <1>1, <1>3, <2>2
      <3>2. to = "queued" /\ worker = c
        BY <1>7, <1>15, <3>1
      <3>3. kind \in {"created", "approved", "reassigned", "requeued"}
        BY <1>1, <3>2 DEF JobMoves, Kinds
      <3>4. tells(c)
        BY <2>1, <3>2, <3>3 DEF IsWorkerAssignmentEvent
      <3>5. client'[c] = told(c)
        BY <1>2, <3>4
      <3> QED BY <1>7, <1>10, <2>2, <3>1, <3>5
    <2>3. CASE k # j
      <3>1. jobs'[k] = jobs[k]
        BY <1>1, <1>3, <2>3
      <3>2. <<k, jobs[k].gen>> \in QueuedFor(c)
        BY <1>15, <3>1 DEF QueuedFor
      <3>3. QueuedFor(c) \subseteq client[c].got
        BY <1>3, <2>1 DEF AssignmentInv
      <3> QED BY <2>1, <3>1, <3>2, <3>3
    <2> QED BY <2>2, <2>3
  <1>16. AssignmentInv'
    BY <1>15 DEF AssignmentInv, QueuedFor
  <1> QED BY <1>1, <1>upTo, <1>16

LEMMA ConnectAsWorkerStep ==
    ASSUME StreamsInv, NEW c \in Clients, ConnectAsWorker(c)
    PROVE  StreamsInv'
  <1> USE DEF StreamsInv
  <1>1. /\ stream = "assignment" /\ stream' = "assignment"
        /\ UNCHANGED <<process, changes, final, lastSeq, buffer, alerts, known, jobs>>
    BY DEF ConnectAsWorker
  <1>2. PICK missed : missed =
            {k \in After(client[c].last) :
               /\ buffer[k].worker = c
               /\ IsWorkerAssignmentEvent(buffer[k].status, buffer[k].kind)}
    OBVIOUS
  <1> DEFINE got == QueuedFor(c) \cup {buffer[k].ver : k \in missed}
             last == IF missed = {} THEN client[c].last ELSE buffer[Max(missed)].seq
             of == IF missed = {} THEN client[c].of ELSE process
             w == [client[c] EXCEPT !.on = TRUE, !.got = got, !.last = last, !.of = of]
  <1>3. client' = [client EXCEPT ![c] = w]
    BY <1>2, Zenon DEF ConnectAsWorker
  <1>4. /\ process \in Nat /\ buffer \in Seq(StreamEvents) /\ client \in [Clients -> ClientRecords]
        /\ client[c] \in ClientRecords /\ client[c].of <= process /\ Len(buffer) \in Nat
        /\ DOMAIN buffer = 1..Len(buffer)
        /\ jobs \in [Jobs -> JobRecords] /\ AssignmentInv
    BY <1>1 DEF StreamTypes, JobRecords
  <1>5. missed \in SUBSET (1..Len(buffer))
    BY <1>2, <1>4 DEF After
  <1>6. \A k \in 1..Len(buffer) : buffer[k].ver \in Versions /\ buffer[k].seq \in Nat
    BY <1>4 DEF StreamEvents
  <1>7. QueuedFor(c) \subseteq Versions
    BY <1>4 DEF QueuedFor, JobRecords, Versions
  <1>8. got \in SUBSET Versions
    BY <1>5, <1>6, <1>7
  <1>9. last \in Nat \cup {NoId}
    <2>1. CASE missed = {}
      BY <1>4, <2>1 DEF ClientRecords
    <2>2. CASE missed # {}
      <3>1. Max(missed) \in missed
        BY <1>4, <1>5, <2>2, MinMaxOfPlaces
      <3> QED BY <1>5, <1>6, <2>2, <3>1
    <2> QED BY <2>1, <2>2
  <1>10. of \in Nat /\ of <= process
    BY <1>4 DEF ClientRecords
  <1>11. QueuedFor(c) \subseteq got
    OBVIOUS
  <1> HIDE DEF got, last, of
  <1>12. w \in ClientRecords /\ w.got = got /\ w.of = of
    BY <1>4, <1>8, <1>9, <1>10 DEF ClientRecords
  <1> HIDE DEF w
  <1>13. StreamTypes'
    BY <1>1, <1>3, <1>4, <1>10, <1>12 DEF StreamTypes
  <1>upTo. AssignmentInv'
    BY <1>1, <1>3, <1>4, <1>11, <1>12 DEF AssignmentInv, QueuedFor
  <1> QED BY <1>1, <1>13, <1>upTo

(* A client goes away with what it has.                                    *)
LEMMA AwayFacts ==
    ASSUME NEW r \in ClientRecords
    PROVE  LET w == [r EXCEPT !.on = FALSE]
           IN  /\ w \in ClientRecords /\ w.on = FALSE /\ w.last = r.last /\ w.of = r.of
               /\ w.view = r.view /\ w.first = r.first /\ w.got = r.got
               /\ w.excused = r.excused /\ w.skips = r.skips
  BY DEF ClientRecords

LEMMA DisconnectStep ==
    ASSUME StreamsInv, NEW c \in Clients, Disconnect(c)
    PROVE  StreamsInv'
  <1> USE DEF StreamsInv
  <1>1. PICK w : w = [client[c] EXCEPT !.on = FALSE]
    OBVIOUS
  <1>2. /\ client' = [client EXCEPT ![c] = w]
        /\ UNCHANGED <<stream, process, changes, final, lastSeq, buffer, alerts, known, jobs>>
    BY <1>1 DEF Disconnect
  <1>3. client \in [Clients -> ClientRecords] /\ client[c] \in ClientRecords
    BY DEF StreamTypes
  <1>4. /\ w \in ClientRecords /\ w.on = FALSE /\ w.last = client[c].last /\ w.of = client[c].of
        /\ w.first = client[c].first /\ w.got = client[c].got /\ w.excused = client[c].excused
        /\ w.skips = client[c].skips
    BY <1>1, <1>3, AwayFacts
  <1>5. StreamTypes'
    BY <1>2, <1>3, <1>4 DEF StreamTypes
  <1>6. stream = "task" => TaskStreamInv'
    <2> SUFFICES ASSUME TaskStreamInv PROVE TaskStreamInv'
      OBVIOUS
    <2>1. TaskClient(client[c], buffer, changes, lastSeq, process)
      BY DEF TaskStreamInv
    <2>2. TaskClient(w, buffer, changes, lastSeq, process)
      BY <1>4, <2>1 DEF TaskClient, IdTells
    <2> QED BY <1>2, <1>3, <1>4, <2>2 DEF TaskStreamInv
  <1>7. stream = "operator" => OperatorStreamInv'
    BY <1>2, <1>3, <1>4 DEF OperatorStreamInv
  <1>8. stream = "assignment" => AssignmentInv'
    BY <1>2, <1>3, <1>4 DEF AssignmentInv, QueuedFor
  <1> QED BY <1>2, <1>5, <1>6, <1>7, <1>8

(* No id is of the new process, and its buffer is empty.                   *)
LEMMA RestartBrokerStep ==
    ASSUME StreamsInv, RestartBroker
    PROVE  StreamsInv'
  <1> USE DEF StreamsInv
  <1>1. /\ process' = process + 1 /\ lastSeq' = 0 /\ buffer' = <<>> /\ known' = alerts
        /\ client' = [c \in Clients |-> [client[c] EXCEPT !.on = FALSE]]
        /\ UNCHANGED <<stream, changes, final, alerts, jobs>>
    BY DEF RestartBroker
  <1>2. process \in Nat /\ process + 1 \in Nat
    BY DEF StreamTypes
  <1>3. ASSUME NEW c \in Clients
        PROVE  /\ client'[c] \in ClientRecords /\ client'[c].on = FALSE
               /\ client'[c].of = client[c].of /\ client'[c].skips = client[c].skips
               /\ client'[c].of <= process + 1 /\ client'[c].of # process + 1
    <2>1. PICK w : w = [client[c] EXCEPT !.on = FALSE]
      OBVIOUS
    <2>2. client[c] \in ClientRecords /\ client[c].of <= process /\ client[c].of \in Nat
      BY DEF StreamTypes, ClientRecords
    <2>3. w \in ClientRecords /\ w.on = FALSE /\ w.of = client[c].of /\ w.skips = client[c].skips
      BY <2>1, <2>2, AwayFacts
    <2>4. client'[c] = w
      BY <1>1, <2>1
    <2> QED BY <1>2, <2>2, <2>3, <2>4
  <1>4. client' \in [Clients -> ClientRecords]
    <2>1. client' = [c \in Clients |-> client'[c]]
      BY <1>1
    <2> QED BY <1>3, <2>1
  <1>5. buffer' \in Seq(StreamEvents) /\ Len(buffer') = 0 /\ DOMAIN buffer' = {}
    BY <1>1
  <1>6. StreamTypes'
    <2>1. 0 <= MaxBuffered
      BY StreamsAssumption
    <2>2. Len(buffer') <= MaxBuffered /\ Len(buffer') <= lastSeq' /\ lastSeq' \in Nat
      BY <1>1, <1>5, <2>1
    <2>3. (\A c \in Clients : client'[c].of <= process') /\ process' \in Nat
      BY <1>1, <1>2, <1>3
    <2>4. /\ changes \in Nat /\ final \in BOOLEAN /\ alerts \in SUBSET Alerts
          /\ jobs \in [Jobs -> [status : JobStatuses \cup {"none"}, worker : Clients \cup {"none"},
                                gen : Nat]]
      BY DEF StreamTypes
    <2> QED BY <1>1, <1>4, <1>5, <2>2, <2>3, <2>4 DEF StreamTypes
  <1>7. TaskStreamInv'
    BY <1>1, <1>3, <1>5 DEF TaskStreamInv, TaskClient
  <1>8. stream = "operator" => OperatorStreamInv'
    BY <1>1, <1>3, <1>5 DEF OperatorStreamInv
  <1>9. AssignmentInv'
    BY <1>1, <1>3 DEF AssignmentInv
  <1> QED BY <1>1, <1>6, <1>7, <1>8, <1>9

LEMMA StreamsInvStarts == StreamsInit => StreamsInv
  <1> SUFFICES ASSUME StreamsInit PROVE StreamsInv
    OBVIOUS
  <1>1. /\ NewClient \in ClientRecords /\ NewClient.on = FALSE /\ NewClient.of = 0
        /\ NewClient.skips = FALSE
    BY DEF NewClient, ClientRecords, NoId
  <1>2. \A c \in Clients : client[c] = NewClient
    BY DEF StreamsInit
  <1>3. client \in [Clients -> ClientRecords]
    BY <1>1 DEF StreamsInit
  <1>4. buffer \in Seq(StreamEvents) /\ Len(buffer) = 0 /\ DOMAIN buffer = {}
    BY DEF StreamsInit
  <1>5. jobs \in [Jobs -> JobRecords]
    BY DEF StreamsInit, JobRecords
  <1>6. process = 1 /\ changes = 0 /\ final = FALSE /\ lastSeq = 0 /\ alerts = {} /\ known = {}
    BY DEF StreamsInit
  <1>7. StreamTypes
    <2>1. 0 <= MaxBuffered
      BY StreamsAssumption
    <2>2. Len(buffer) <= MaxBuffered /\ Len(buffer) <= lastSeq /\ lastSeq \in Nat
      BY <1>4, <1>6, <2>1
    <2>3. \A c \in Clients : client[c].of <= process
      BY <1>1, <1>2, <1>6
    <2> QED BY <1>3, <1>4, <1>5, <1>6, <2>2, <2>3 DEF StreamTypes, JobRecords
  <1>8. TaskStreamInv
    BY <1>1, <1>2, <1>4, <1>6 DEF TaskStreamInv, TaskClient
  <1>9. OperatorStreamInv
    BY <1>1, <1>2, <1>4 DEF OperatorStreamInv
  <1>10. AssignmentInv
    BY <1>1, <1>2 DEF AssignmentInv
  <1> QED BY <1>7, <1>8, <1>9, <1>10 DEF StreamsInv

(* emitTaskUpdate, publishOperatorEvents, TaskEventStream.push and the     *)
(* handlers that replay from their buffers: for any number of clients,     *)
(* changes and restarts and any size of buffer, a subscriber of a task is  *)
(* in sync and misses nothing that is retained, an operator's ids have no  *)
(* gap, and a worker knows of all work queued for it.                      *)
THEOREM SubscribersMissNothingHolds == StreamsSpec => []SubscribersMissNothing
  <1>1. StreamsInv /\ [StreamsNext]_esVars => StreamsInv'
    <2> SUFFICES ASSUME StreamsInv, [StreamsNext]_esVars PROVE StreamsInv'
      OBVIOUS
    <2>1. CASE UNCHANGED esVars
      BY <2>1 DEF esVars, StreamsInv, StreamTypes, TaskStreamInv, OperatorStreamInv, AssignmentInv,
         QueuedFor
    <2>2. ASSUME NEW a \in Alerts, AlertOpens(a) PROVE StreamsInv'
      <3>1. /\ alerts' = alerts \cup {a}
            /\ UNCHANGED <<stream, process, changes, final, lastSeq, buffer, known, jobs, client>>
        BY <2>2 DEF AlertOpens
      <3>2. StreamTypes'
        BY <3>1 DEF StreamsInv, StreamTypes
      <3> QED BY <3>1, <3>2 DEF StreamsInv, TaskStreamInv, OperatorStreamInv, AssignmentInv,
              QueuedFor
    <2>3. ASSUME NEW j \in Jobs, NEW kind \in Kinds,
                 NEW to \in {"queued", "blocked", "claimed", "succeeded"},
                 NEW worker \in Clients, JobChanges(j, kind, to, worker)
          PROVE  StreamsInv'
      BY <2>3, JobChangesStep DEF JobStatuses
    <2> QED BY <2>1, <2>2, <2>3, TaskChangesStep, StateChangesStep, ConnectToTaskStep,
               ConnectToOperatorStep, ConnectAsWorkerStep, DisconnectStep, RestartBrokerStep
            DEF StreamsNext
  <1>2. StreamsInv => SubscribersMissNothing
    <2> SUFFICES ASSUME StreamsInv PROVE SubscribersMissNothing
      OBVIOUS
    <2>1. StreamsTypeOK
      BY DEF StreamsInv, StreamTypes, StreamsTypeOK, ClientRecords
    <2>2. SubscribersInSync /\ NothingRetainedIsMissed
      BY DEF StreamsInv, TaskStreamInv, TaskClient, CoveredTo, SubscribersInSync,
         NothingRetainedIsMissed
    <2>3. OperatorReplayHasNoGap /\ QueuedWorkIsAnnounced
      BY DEF StreamsInv, OperatorStreamInv, AssignmentInv, OperatorReplayHasNoGap,
         QueuedWorkIsAnnounced
    <2> QED BY <2>1, <2>2, <2>3 DEF SubscribersMissNothing
  <1> QED BY <1>1, <1>2, StreamsInvStarts, PTL DEF StreamsSpec

-----------------------------------------------------------------------------
(* RoundCloseout *)

SightingsOK == seen \in Seq(Sightings)

(* The loop of latestObservationsByWorker over the first n observations.   *)
IsLoop(h, n, places, w) ==
    h = [k \in 0..n |-> IF k = 0 THEN NoSighting ELSE Newer(places, w, k, h[k - 1])]

LEMMA LoopExists ==
    ASSUME NEW places, NEW w, NEW n \in Nat
    PROVE  \E h : IsLoop(h, n, places, w)
  <1> DEFINE Missing == {m \in Nat : ~ \E h : IsLoop(h, m, places, w)}
  <1> SUFFICES ASSUME n \in Missing PROVE FALSE
    OBVIOUS
  <1>1. PICK m \in Missing : \A l \in Missing : m <= l
    BY LeastPlace
  <1>2. m # 0
    <2>1. IsLoop([k \in 0..0 |-> NoSighting], 0, places, w)
      BY DEF IsLoop
    <2> QED BY <1>1, <2>1
  <1>3. m - 1 \in Nat /\ m - 1 \notin Missing
    BY <1>1, <1>2
  <1>4. PICK g : IsLoop(g, m - 1, places, w)
    BY <1>3
  <1>5. PICK h : h = [k \in 0..m |-> IF k = m THEN Newer(places, w, m, g[m - 1]) ELSE g[k]]
    OBVIOUS
  <1>6. ASSUME NEW k \in 0..m
        PROVE  h[k] = IF k = 0 THEN NoSighting ELSE Newer(places, w, k, h[k - 1])
    <2>1. CASE k = m
      <3>1. m - 1 \in 0..m /\ m - 1 # m /\ h[m - 1] = g[m - 1]
        BY <1>3, <1>5
      <3> QED BY <1>2, <1>5, <2>1, <3>1
    <2>2. CASE k # m
      <3>1. k \in 0..(m - 1) /\ h[k] = g[k]
        BY <1>3, <1>5, <2>2
      <3>2. g[k] = IF k = 0 THEN NoSighting ELSE Newer(places, w, k, g[k - 1])
        BY <1>4, <3>1 DEF IsLoop
      <3>3. k # 0 => k - 1 \in 0..m /\ k - 1 # m /\ h[k - 1] = g[k - 1]
        BY <1>3, <1>5, <3>1
      <3> QED BY <3>1, <3>2, <3>3
    <2> QED BY <2>1, <2>2
  <1>7. IsLoop(h, m, places, w)
    BY <1>5, <1>6 DEF IsLoop
  <1> QED BY <1>1, <1>7

(* What the loop holds after k observations: none of the worker's so far,  *)
(* or one of them that none is newer than.                                 *)
NewestSoFar(h, k, places, w) ==
    LET mine == {m \in places : m <= k /\ seen[m].worker = w}
    IN  \/ mine = {} /\ h[k] = NoSighting
        \/ \E m \in mine : h[k] = seen[m] /\ \A l \in mine : seen[l].at <= seen[m].at

LEMMA LoopFindsNewest ==
    ASSUME SightingsOK, NEW n \in Nat, n = Len(seen), NEW places \in SUBSET (1..n), NEW w,
           NEW h, IsLoop(h, n, places, w)
    PROVE  NewestSoFar(h, n, places, w)
  <1> DEFINE Bad == {k \in 0..n : ~NewestSoFar(h, k, places, w)}
             mine(k) == {m \in places : m <= k /\ seen[m].worker = w}
  <1>1. \A m \in 1..n : seen[m] \in Sightings /\ seen[m] # NoSighting /\ seen[m].at \in Nat
    BY SightingsAssumption DEF SightingsOK
  <1> SUFFICES ASSUME Bad # {} PROVE FALSE
    OBVIOUS
  <1>2. Bad \in SUBSET Nat
    OBVIOUS
  <1>3. PICK k \in Bad : \A l \in Bad : k <= l
    BY <1>2, LeastPlace
  <1>4. h[k] = IF k = 0 THEN NoSighting ELSE Newer(places, w, k, h[k - 1])
    BY <1>3 DEF IsLoop
  <1>5. k # 0
    <2>1. ASSUME k = 0 PROVE NewestSoFar(h, k, places, w)
      <3>1. \A m \in places : ~(m <= 0)
        OBVIOUS
      <3>2. mine(0) = {}
        BY <3>1
      <3> QED BY <1>4, <2>1, <3>2 DEF NewestSoFar
    <2> QED BY <1>3, <2>1
  <1>6. k - 1 \in 0..n /\ k \in 1..n /\ NewestSoFar(h, k - 1, places, w)
    BY <1>3, <1>5
  <1>7. PICK before : before = mine(k - 1)
    OBVIOUS
  <1>8. PICK current : current = h[k - 1]
    OBVIOUS
  <1>9. /\ before \subseteq 1..n
        /\ \/ before = {} /\ current = NoSighting
           \/ \E m \in before : current = seen[m] /\ \A l \in before : seen[l].at <= seen[m].at
    BY <1>6, <1>7, <1>8 DEF NewestSoFar
  <1>upTo. \A m \in places : m <= k <=> m <= k - 1 \/ m = k
    BY <1>6
  <1>10. h[k] = Newer(places, w, k, current)
    BY <1>4, <1>5, <1>8
  <1>11. CASE k \in places /\ seen[k].worker = w
    <2>1. mine(k) = before \cup {k}
      BY ONLY <1>7, <1>11, <1>upTo, Zenon
    <2>2. CASE current = NoSighting \/ seen[k].at >= current.at
      <3>1. h[k] = seen[k]
        BY <1>10, <1>11, <2>2 DEF Newer
      <3>2. \A l \in before : seen[l].at <= seen[k].at
        BY <1>1, <1>6, <1>9, <2>2
      <3>3. \A l \in mine(k) : seen[l].at <= seen[k].at
        BY <1>1, <1>6, <2>1, <3>2
      <3>4. k \in mine(k)
        BY <2>1
      <3> HIDE DEF mine
      <3>5. \E m \in mine(k) : h[k] = seen[m] /\ \A l \in mine(k) : seen[l].at <= seen[m].at
        BY <3>1, <3>3, <3>4
      <3> QED BY <1>3, <3>5 DEF NewestSoFar, mine
    <2>3. CASE ~(current = NoSighting \/ seen[k].at >= current.at)
      <3>1. h[k] = current
        BY <1>10, <2>3 DEF Newer
      <3>2. PICK m \in before : current = seen[m] /\ \A l \in before : seen[l].at <= seen[m].at
        BY <1>9, <2>3
      <3>3. seen[k].at <= seen[m].at
        BY <1>1, <1>6, <1>9, <2>3, <3>2
      <3>4. m \in mine(k) /\ \A l \in mine(k) : seen[l].at <= seen[m].at
        BY <2>1, <3>2, <3>3
      <3> HIDE DEF mine
      <3>5. \E x \in mine(k) : h[k] = seen[x] /\ \A l \in mine(k) : seen[l].at <= seen[x].at
        BY <3>1, <3>2, <3>4
      <3> QED BY <1>3, <3>5 DEF NewestSoFar, mine
    <2> QED BY <2>2, <2>3
  <1>12. CASE ~(k \in places /\ seen[k].worker = w)
    <2>1. mine(k) = before
      BY ONLY <1>7, <1>12, <1>upTo, Zenon
    <2>2. h[k] = current
      BY <1>10, <1>12 DEF Newer
    <2> HIDE DEF mine
    <2>3. \/ mine(k) = {} /\ h[k] = NoSighting
          \/ \E m \in mine(k) : h[k] = seen[m] /\ \A l \in mine(k) : seen[l].at <= seen[m].at
      BY <1>9, <2>1, <2>2
    <2> QED BY <1>3, <2>3 DEF NewestSoFar, mine
  <1> QED BY <1>11, <1>12

(* latestObservationsByWorker: nothing, or one that none is newer than.    *)
LEMMA LatestIsNewest ==
    ASSUME SightingsOK, NEW places \in SUBSET DOMAIN seen, NEW w
    PROVE  LET mine == {m \in places : seen[m].worker = w}
           IN  \/ mine = {} /\ LatestObservation(places, w) = NoSighting
               \/ \E m \in mine : /\ LatestObservation(places, w) = seen[m]
                                  /\ \A l \in mine : seen[l].at <= seen[m].at
  <1>1. PICK n \in Nat : n = Len(seen) /\ DOMAIN seen = 1..n
    BY DEF SightingsOK
  <1> DEFINE h == CHOOSE latest : latest =
                    [k \in 0..Len(seen) |->
                       IF k = 0 THEN NoSighting ELSE Newer(places, w, k, latest[k - 1])]
  <1>2. LatestObservation(places, w) = h[n]
    BY <1>1 DEF LatestObservation
  <1>3. IsLoop(h, n, places, w)
    <2>1. \E latest : latest = [k \in 0..Len(seen) |->
             IF k = 0 THEN NoSighting ELSE Newer(places, w, k, latest[k - 1])]
      <3>1. PICK g : IsLoop(g, n, places, w)
        BY LoopExists
      <3> QED BY <1>1, <3>1, Zenon DEF IsLoop
    <2>2. h = [k \in 0..Len(seen) |->
             IF k = 0 THEN NoSighting ELSE Newer(places, w, k, h[k - 1])]
      BY <2>1, Zenon
    <2> HIDE DEF h
    <2> QED BY <1>1, <2>2 DEF IsLoop
  <1> HIDE DEF h
  <1>4. NewestSoFar(h, n, places, w)
    BY <1>1, <1>3, LoopFindsNewest
  <1>5. {m \in places : m <= n /\ seen[m].worker = w} = {m \in places : seen[m].worker = w}
    BY <1>1
  <1> QED BY <1>2, <1>4, <1>5 DEF NewestSoFar

WorkerStates == {"waiting", "stuck", "completed", "blocked", "missing-evidence"}

(* classifyWorker, buildWorkerSummary and classifyExitCondition on one     *)
(* worker's newest observation.                                            *)
LEMMA WorkerLine ==
    ASSUME NEW o, NEW now, NEW st, st = ClassifyWorker(o, now)
    PROVE  /\ st \in WorkerStates
           /\ st = "completed" <=> o # NoSighting /\ o.status = "succeeded" /\ CompletionEvidence(o)
           /\ SummarizeWorkerStatus(o, st) = "completed" <=> st = "completed"
           /\ OutcomeClass(o, st) \in {"pr_success", "no_change_done"} => st = "completed"
           /\ OutcomeClass(o, st) \in {"no_change_block", "infra_failure"} =>
                SummarizeWorkerStatus(o, st) \in {"failed", "blocked"}
  <1>1. st \in WorkerStates
    BY DEF ClassifyWorker, WorkerStates
  <1>2. st = "completed" <=> o # NoSighting /\ o.status = "succeeded" /\ CompletionEvidence(o)
    BY DEF ClassifyWorker, RoundTerminal
  <1>3. SummarizeWorkerStatus(o, st) = "completed" <=> st = "completed"
    BY <1>2 DEF SummarizeWorkerStatus
  <1>4. o.status = "succeeded" /\ o # NoSighting => st \in {"completed", "missing-evidence"}
    BY DEF ClassifyWorker, RoundTerminal
  <1>5. o = NoSighting => o.status = "none"
    BY DEF NoSighting
  <1>6. OutcomeClass(o, st) \in {"pr_success", "no_change_done"} => st = "completed"
    BY <1>4, <1>5 DEF OutcomeClass, ClassifyExitCondition, RoundTerminal
  <1>7. OutcomeClass(o, st) \in {"no_change_block", "infra_failure"} =>
          SummarizeWorkerStatus(o, st) \in {"failed", "blocked"}
    BY DEF OutcomeClass, ClassifyExitCondition, RoundTerminal, SummarizeWorkerStatus
  <1> QED BY <1>1, <1>2, <1>3, <1>6, <1>7

(* classifyRoundState: ready is said when every required worker is done.   *)
LEMMA RoundIsReady ==
    ASSUME NEW f, NEW places, NEW now, NEW v, v = ReconcileRoundCloseout(f, places, now)
    PROVE  /\ v.state = "ready" <=>
                /\ RequiredWorkers # {}
                /\ \A w \in RequiredWorkers :
                      LET o == LatestObservation(FilterRoundObservations(f, places), w)
                      IN  o # NoSighting /\ o.status = "succeeded" /\ CompletionEvidence(o)
           /\ v.state = "ready" <=>
                RequiredWorkers # {} /\ \A w \in RequiredWorkers : v.summaries[w] = "completed"
           /\ \A w \in RequiredWorkers :
                /\ v.outcomes[w] \in {"pr_success", "no_change_done"} => v.summaries[w] = "completed"
                /\ v.outcomes[w] \in {"no_change_block", "infra_failure"} =>
                     v.summaries[w] \in {"failed", "blocked"}
  <1> DEFINE last == [w \in RequiredWorkers |->
                        LatestObservation(FilterRoundObservations(f, places), w)]
             state == [w \in RequiredWorkers |-> ClassifyWorker(last[w], now)]
             states == {state[w] : w \in RequiredWorkers}
  <1>1. /\ v.state = ClassifyRoundState(states)
        /\ v.summaries = [w \in RequiredWorkers |-> SummarizeWorkerStatus(last[w], state[w])]
        /\ v.outcomes = [w \in RequiredWorkers |-> OutcomeClass(last[w], state[w])]
    BY Zenon DEF ReconcileRoundCloseout
  <1>2. \A w \in RequiredWorkers : last[w] = LatestObservation(FilterRoundObservations(f, places), w)
    OBVIOUS
  <1> HIDE DEF last
  <1>3. \A w \in RequiredWorkers : state[w] = ClassifyWorker(last[w], now)
    OBVIOUS
  <1>4. \A w \in RequiredWorkers : state[w] \in states
    OBVIOUS
  <1>5. ASSUME NEW x \in states PROVE \E w \in RequiredWorkers : x = state[w]
    OBVIOUS
  <1> HIDE DEF state, states
  <1>6. ASSUME NEW w \in RequiredWorkers
        PROVE  /\ state[w] \in WorkerStates
               /\ state[w] = "completed" <=>
                    last[w] # NoSighting /\ last[w].status = "succeeded" /\ CompletionEvidence(last[w])
               /\ v.summaries[w] = "completed" <=> state[w] = "completed"
               /\ v.outcomes[w] \in {"pr_success", "no_change_done"} => state[w] = "completed"
               /\ v.outcomes[w] \in {"no_change_block", "infra_failure"} =>
                    v.summaries[w] \in {"failed", "blocked"}
    <2>1. PICK o, st : o = last[w] /\ st = state[w]
      OBVIOUS
    <2>2. st = ClassifyWorker(o, now)
      BY <1>3, <2>1
    <2>3. v.summaries[w] = SummarizeWorkerStatus(o, st) /\ v.outcomes[w] = OutcomeClass(o, st)
      BY <1>1, <2>1
    <2>4. /\ st \in WorkerStates
          /\ st = "completed" <=> o # NoSighting /\ o.status = "succeeded" /\ CompletionEvidence(o)
          /\ SummarizeWorkerStatus(o, st) = "completed" <=> st = "completed"
          /\ OutcomeClass(o, st) \in {"pr_success", "no_change_done"} => st = "completed"
          /\ OutcomeClass(o, st) \in {"no_change_block", "infra_failure"} =>
               SummarizeWorkerStatus(o, st) \in {"failed", "blocked"}
      BY <2>2, WorkerLine
    <2> QED BY <2>1, <2>3, <2>4
  <1>7. v.state = "ready" <=> RequiredWorkers # {} /\ \A w \in RequiredWorkers : state[w] = "completed"
    <2>1. ASSUME v.state = "ready"
          PROVE  RequiredWorkers # {} /\ \A w \in RequiredWorkers : state[w] = "completed"
      <3>1. /\ states # {} /\ "missing-evidence" \notin states /\ "stuck" \notin states
            /\ "blocked" \notin states /\ "waiting" \notin states
        BY <1>1, <2>1 DEF ClassifyRoundState
      <3>2. \A w \in RequiredWorkers : state[w] = "completed"
        BY <1>4, <1>6, <3>1 DEF WorkerStates
      <3> QED BY <1>5, <3>1, <3>2
    <2>2. ASSUME RequiredWorkers # {}, \A w \in RequiredWorkers : state[w] = "completed"
          PROVE  v.state = "ready"
      <3>1. states = {"completed"}
        BY <1>4, <1>5, <2>2
      <3> QED BY <1>1, <3>1 DEF ClassifyRoundState
    <2> QED BY <2>1, <2>2
  <1>8. v.state = "ready" <=>
          RequiredWorkers # {} /\ \A w \in RequiredWorkers : v.summaries[w] = "completed"
    BY <1>6, <1>7
  <1>9. v.state = "ready" <=>
          RequiredWorkers # {} /\ \A w \in RequiredWorkers :
            last[w] # NoSighting /\ last[w].status = "succeeded" /\ CompletionEvidence(last[w])
    BY <1>6, <1>7
  <1> QED BY <1>2, <1>6, <1>8, <1>9

(* reconcileRoundCloseout: for any roster, observations in any order and   *)
(* number, filters and clocks, a round is ready exactly when each required *)
(* worker's newest task of the round succeeded with evidence, and the      *)
(* lines an operator reads say the same.                                   *)
THEOREM CloseoutTellsHolds == RoundSpec => []CloseoutTells
  <1>1. RoundInit => SightingsOK
    BY DEF RoundInit, SightingsOK
  <1>2. SightingsOK /\ [RoundNext]_rcVars => SightingsOK'
    BY DEF SightingsOK, RoundNext, Observe, rcVars
  <1>3. SightingsOK => CloseoutTells
    <2> SUFFICES ASSUME SightingsOK, NEW f \in RoundFilters, NEW now \in RoundClocks,
                        NEW places \in {DOMAIN seen, FromTerminalOutbox(f)}
                 PROVE  /\ ReconcileRoundCloseout(f, places, now).state = "ready" =>
                             \A w \in RequiredWorkers : \E o \in NewestOf(f, places, w) :
                                o.status = "succeeded" /\ CompletionEvidence(o)
                        /\ LET v == ReconcileRoundCloseout(f, places, now)
                           IN /\ v.state = "ready" <=>
                                   /\ RequiredWorkers # {}
                                   /\ \A w \in RequiredWorkers : v.summaries[w] = "completed"
                              /\ \A w \in RequiredWorkers :
                                   /\ v.outcomes[w] \in {"pr_success", "no_change_done"} =>
                                        v.summaries[w] = "completed"
                                   /\ v.outcomes[w] \in {"no_change_block", "infra_failure"} =>
                                        v.summaries[w] \in {"failed", "blocked"}
                              /\ \A later \in RoundClocks :
                                   ReconcileRoundCloseout(f, places, later).state = "ready"
                                     <=> v.state = "ready"
      BY DEF CloseoutTells, ReadyIsEarned, ViewAgrees, RequiredWorkers, CompletionEvidence
    <2>1. PICK scoped : scoped = FilterRoundObservations(f, places)
      OBVIOUS
    <2>2. places \subseteq DOMAIN seen /\ scoped \in SUBSET DOMAIN seen
      BY <2>1 DEF FromTerminalOutbox, FilterRoundObservations
    <2>3. PICK v : v = ReconcileRoundCloseout(f, places, now)
      OBVIOUS
    <2>4. v.state = "ready" => \A w \in RequiredWorkers : \E o \in NewestOf(f, places, w) :
            o.status = "succeeded" /\ CompletionEvidence(o)
      <3> SUFFICES ASSUME v.state = "ready", NEW w \in RequiredWorkers
                   PROVE  \E o \in NewestOf(f, places, w) :
                             o.status = "succeeded" /\ CompletionEvidence(o)
        OBVIOUS
      <3>1. PICK o : o = LatestObservation(scoped, w)
        OBVIOUS
      <3>2. o # NoSighting /\ o.status = "succeeded" /\ CompletionEvidence(o)
        BY <2>1, <2>3, <3>1, RoundIsReady
      <3>3. PICK mine : mine = {m \in scoped : seen[m].worker = w}
        OBVIOUS
      <3>4. PICK m \in mine : o = seen[m] /\ \A l \in mine : seen[l].at <= seen[m].at
        BY <2>2, <3>1, <3>2, <3>3, LatestIsNewest
      <3>5. mine = {k \in places : seen[k].worker = w /\ InRound(f, seen[k])}
        BY <2>1, <3>3 DEF FilterRoundObservations
      <3>6. o \in NewestOf(f, places, w)
        BY <3>4, <3>5 DEF NewestOf
      <3> QED BY <3>2, <3>6
    <2>5. ASSUME NEW later \in RoundClocks
          PROVE  ReconcileRoundCloseout(f, places, later).state = "ready" <=> v.state = "ready"
      <3>1. PICK u : u = ReconcileRoundCloseout(f, places, later)
        OBVIOUS
      <3> QED BY <2>3, <3>1, RoundIsReady
    <2> QED BY <2>3, <2>4, <2>5, RoundIsReady
  <1> QED BY <1>1, <1>2, <1>3, PTL DEF RoundSpec
=============================================================================
