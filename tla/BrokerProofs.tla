---------------------------- MODULE BrokerProofs ----------------------------
(***************************************************************************)
(* Proofs about Broker for every set of tasks, workers, exchanges and      *)
(* proposals and every value of the limits.                                *)
(***************************************************************************)
EXTENDS Broker, TLAPS

(* What the three task invariants need to be inductive: an existing task   *)
(* is routed to some worker, so is an existing exchange, in memory and in  *)
(* the saved snapshot.                                                     *)
Routed(r) == r.status # "none" => r.target \in Workers /\ r.assigned \in Workers

TaskOK(r) == Routed(r) /\ GateOK(r) /\ HolderOK(r) /\ BudgetOK(r)

ExchangeOK(x) == x.status # "none" => x.target \in Workers

MapsOK ==
    /\ tasks \in [Tasks -> Task]
    /\ exchanges \in [Exchanges -> Exchange]
    /\ proposals \in [Proposals -> Proposal]
    /\ workers \in [Workers -> WorkerStatus]
    /\ disk \in [exchanges: [Exchanges -> Exchange], tombstones: [Tasks -> Tombstone]]
    /\ \A t \in Tasks : TaskOK(tasks[t])
    /\ \A e \in Exchanges : ExchangeOK(exchanges[e]) /\ ExchangeOK(disk.exchanges[e])

LogsOK ==
    /\ tombstones \in [Tasks -> Tombstone]
    /\ outbox \in [Tasks -> Seq(TerminalStatus)]

IInv == MapsOK /\ LogsOK

-----------------------------------------------------------------------------
(* persistState only forgets records.                                      *)

LEMMA PersistShape ==
    ASSUME NEW T, NEW E, NEW P, NEW W, NEW tombs,
           Persist(T, E, P, W, tombs)
    PROVE  \E retT, retE, retP, retW :
             SaveRetained(T, E, P, W, tombs, retT, retE, retP, retW)
  <1>1. PICK ownE : RetainTasks(T, E, P, W, tombs, ownE)
    BY DEF Persist
  <1>2. PICK retT, retE : RetainProposals(T, E, P, W, tombs, retT, retE)
    BY <1>1 DEF RetainTasks
  <1>3. PICK retP : RetainWorkers(T, E, P, W, tombs, retT, retE, retP)
    BY <1>2 DEF RetainProposals
  <1> QED BY <1>3 DEF RetainWorkers

LEMMA NoRecords ==
    /\ NoTask \in Task /\ TaskOK(NoTask)
    /\ NoExchange \in Exchange /\ ExchangeOK(NoExchange)
    /\ NoProposal \in Proposal
  BY LimitAssumption DEF NoTask, Task, TaskOK, Routed, GateOK, HolderOK, BudgetOK, IsHeld,
     TaskStatus, HeldStatus, TerminalStatus, Opt, Intent, NoExchange, Exchange,
     ExchangeStatus, ExchangeOK, NoProposal, Proposal, ProposalStatus

LEMMA PersistPreserves ==
    ASSUME NEW T \in [Tasks -> Task], NEW E \in [Exchanges -> Exchange],
           NEW P \in [Proposals -> Proposal], NEW W \in [Workers -> WorkerStatus],
           NEW tombs \in [Tasks -> Tombstone],
           \A t \in Tasks : TaskOK(T[t]),
           \A e \in Exchanges : ExchangeOK(E[e]),
           Persist(T, E, P, W, tombs)
    PROVE  MapsOK'
  <1>1. PICK retT, retE, retP, retW :
          SaveRetained(T, E, P, W, tombs, retT, retE, retP, retW)
    BY PersistShape
  <1> USE <1>1 DEF SaveRetained
  <1>2. tasks' \in [Tasks -> Task] /\ \A t \in Tasks : TaskOK(tasks'[t])
    BY NoRecords
  <1>3. exchanges' \in [Exchanges -> Exchange] /\ \A e \in Exchanges : ExchangeOK(exchanges'[e])
    BY NoRecords
  <1>4. proposals' \in [Proposals -> Proposal]
    BY NoRecords
  <1>5. workers' \in [Workers -> WorkerStatus]
    BY DEF WorkerStatus
  <1>6. disk' \in [exchanges: [Exchanges -> Exchange], tombstones: [Tasks -> Tombstone]]
        /\ \A e \in Exchanges : ExchangeOK(disk'.exchanges[e])
    BY <1>3
  <1> QED BY <1>2, <1>3, <1>4, <1>5, <1>6 DEF MapsOK

-----------------------------------------------------------------------------
(* Each record a handler writes is well-formed again.                      *)

LEMMA OptFacts ==
    /\ \A S : None \in Opt(S)
    /\ \A S : \A x \in S : x \in Opt(S)
  BY DEF Opt

LEMMA StatusFacts ==
    /\ {"none", "blocked", "queued", "claimed", "running", "succeeded", "failed", "canceled"}
         \subseteq TaskStatus
    /\ {"none", "queued", "running", "completed", "failed"} \subseteq ExchangeStatus
  BY DEF TaskStatus, HeldStatus, TerminalStatus, ExchangeStatus

LEMMA ReassignedOK ==
    ASSUME NEW r \in Task, TaskOK(r), IsLive(r),
           NEW target \in Workers, NEW assigned \in Workers
    PROVE  LET a == Reassigned(r, target, assigned)
           IN /\ a \in Task /\ TaskOK(a) /\ a.status # "none"
              /\ a.target = target /\ a.assigned = assigned /\ a.exchange = r.exchange
  <1> DEFINE s == IF r.gated /\ ~r.approved THEN "blocked" ELSE "queued"
             a == [r EXCEPT !.target = target, !.assigned = assigned, !.status = s,
                            !.claimedBy = None, !.attempt = FALSE, !.requeues = 0,
                            !.result = FALSE, !.error = "none", !.fresh = TRUE]
  <1>1. s \in {"blocked", "queued"} /\ (r.gated /\ ~r.approved => s = "blocked")
    OBVIOUS
  <1>2. a = Reassigned(r, target, assigned)
    BY DEF Reassigned
  <1> HIDE DEF s
  <1>3. a \in Task
    BY <1>1, OptFacts, StatusFacts DEF Task
  <1>4. /\ a.status = s /\ a.target = target /\ a.assigned = assigned /\ a.claimedBy = None
        /\ a.attempt = FALSE /\ a.requeues = 0 /\ a.error = "none" /\ a.exchange = r.exchange
        /\ a.gated = r.gated /\ a.approved = r.approved /\ a.outcome = r.outcome
    BY DEF Task
  <1> HIDE DEF a
  <1>5. Routed(a) /\ HolderOK(a)
    BY <1>1, <1>4 DEF Routed, HolderOK, IsHeld, HeldStatus
  <1>6. GateOK(a)
    BY <1>1, <1>4 DEF TaskOK, GateOK, IsLive, LiveStatus, HeldStatus
  <1>7. BudgetOK(a)
    BY <1>4, LimitAssumption DEF BudgetOK
  <1> QED BY <1>1, <1>2, <1>3, <1>4, <1>5, <1>6, <1>7 DEF TaskOK

(* r may already carry the refusal that its cancel follows.                *)
LEMMA CanceledOK ==
    ASSUME NEW r \in Task, IsLive(r), Routed(r), BudgetOK(r),
           r.gated /\ ~r.approved => ~r.attempt, r.approved <=> r.outcome = "approved",
           NEW from \in Opt(Tasks) \cup {"request"}
    PROVE  LET c == Canceled(r, from)
           IN c \in Task /\ TaskOK(c) /\ c.status # "none"
  <1> DEFINE c == Canceled(r, from)
  <1>1. c \in Task
    BY OptFacts, StatusFacts DEF Canceled, Task
  <1>2. /\ c.status = "canceled" /\ c.claimedBy = None /\ c.error = "none"
        /\ c.target = r.target /\ c.assigned = r.assigned /\ c.requeues = r.requeues
        /\ c.attempt = r.attempt /\ c.gated = r.gated /\ c.approved = r.approved
        /\ c.outcome = r.outcome
    BY DEF Canceled, Task
  <1> HIDE DEF c
  <1>3. GateOK(c)
    BY <1>2 DEF GateOK
  <1>4. Routed(c) /\ HolderOK(c) /\ BudgetOK(c)
    BY <1>2 DEF Routed, HolderOK, BudgetOK, IsHeld, HeldStatus, IsLive, LiveStatus
  <1> QED BY <1>1, <1>2, <1>3, <1>4 DEF TaskOK, c

LEMMA SweptOK ==
    ASSUME NEW r \in Task, TaskOK(r), IsHeld(r)
    PROVE  LET s == Swept(r)
           IN /\ s \in Task /\ TaskOK(s) /\ s.status # "none"
              /\ s.target = r.target /\ s.assigned = r.assigned /\ s.exchange = r.exchange
  <1>1. CASE Exhausted(r)
    <2> DEFINE d == DeadLettered(r)
    <2>1. d \in Task
      BY StatusFacts DEF DeadLettered, Task
    <2>2. /\ d.status = "failed" /\ d.error = "exceeded_requeue_limit"
          /\ d.claimedBy = r.claimedBy /\ d.target = r.target /\ d.assigned = r.assigned
          /\ d.requeues = r.requeues /\ d.attempt = r.attempt /\ d.gated = r.gated
          /\ d.approved = r.approved /\ d.outcome = r.outcome /\ d.exchange = r.exchange
      BY DEF DeadLettered, Task
    <2> HIDE DEF d
    <2>3. GateOK(d)
      BY <2>2 DEF TaskOK, GateOK, IsHeld, HeldStatus
    <2>4. Routed(d) /\ HolderOK(d)
      BY <2>2 DEF TaskOK, Routed, HolderOK, IsHeld, HeldStatus
    <2>5. r.requeues \in Nat
      BY DEF Task
    <2>6. BudgetOK(d)
      BY <2>2, <2>5, <1>1, LimitAssumption DEF TaskOK, BudgetOK, Exhausted
    <2> QED BY <1>1, <2>1, <2>2, <2>3, <2>4, <2>6 DEF TaskOK, Swept, d
  <1>2. CASE ~Exhausted(r)
    <2> DEFINE q == Requeued(r)
    <2>1. r.requeues \in Nat
      BY DEF Task
    <2> DEFINE n == r.requeues + 1
    <2>a. n \in Nat
      BY <2>1
    <2>b. q = [r EXCEPT !.status = "queued", !.claimedBy = None, !.attempt = FALSE,
                        !.requeues = n, !.fresh = TRUE]
      BY DEF Requeued
    <2> HIDE DEF n, q
    <2>2. q \in Task
      BY <2>a, <2>b, OptFacts, StatusFacts DEF Task
    <2> USE DEF n, q
    <2>3. /\ q.status = "queued" /\ q.error = r.error /\ q.claimedBy = None
          /\ q.target = r.target /\ q.assigned = r.assigned /\ q.requeues = r.requeues + 1
          /\ q.attempt = FALSE /\ q.gated = r.gated /\ q.approved = r.approved
          /\ q.outcome = r.outcome /\ q.exchange = r.exchange
      BY DEF Requeued, Task
    <2> HIDE DEF q
    <2>4. GateOK(q)
      BY <2>3 DEF TaskOK, GateOK, IsHeld, HeldStatus
    <2>5. Routed(q) /\ HolderOK(q)
      BY <2>3 DEF TaskOK, Routed, HolderOK, IsHeld, HeldStatus
    <2>6. BudgetOK(q)
      BY <2>1, <2>3, <1>2, LimitAssumption
         DEF TaskOK, BudgetOK, Exhausted, IsHeld, HeldStatus
    <2> QED BY <1>2, <2>2, <2>3, <2>4, <2>5, <2>6 DEF TaskOK, Swept, q
  <1> QED BY <1>1, <1>2

LEMMA NewTaskOK ==
    ASSUME NEW parent \in Opt(Tasks), NEW e \in Opt(Exchanges), NEW intent \in Intent,
           NEW p \in Opt(Proposals), NEW target \in Workers, NEW assigned \in Workers,
           NEW flagged \in BOOLEAN, NEW ask \in Ask
    PROVE  LET r == NewTask(parent, e, intent, p, target, assigned, flagged, ask)
           IN /\ r \in Task /\ TaskOK(r) /\ r.status # "none"
              /\ r.target = target /\ r.assigned = assigned /\ r.exchange = e
  <1> DEFINE gated == RequiresApproval(intent, flagged, target, ask)
             live == LiveImpact(intent, flagged, target)
             s == IF gated THEN "blocked" ELSE "queued"
             r == [NoTask EXCEPT !.status = s, !.parent = parent, !.exchange = e,
                     !.intent = intent, !.proposal = p, !.target = target,
                     !.assigned = assigned, !.live = live, !.gated = gated]
  <1>1. gated \in BOOLEAN /\ live \in BOOLEAN
    BY DEF RequiresApproval, LiveImpact
  <1>2. s \in {"blocked", "queued"} /\ (gated => s = "blocked")
    OBVIOUS
  <1>3. r = NewTask(parent, e, intent, p, target, assigned, flagged, ask)
    BY DEF NewTask
  <1> HIDE DEF s, gated, live
  <1>4. r \in Task
    BY <1>1, <1>2, NoRecords, OptFacts, StatusFacts DEF Task
  <1>5. /\ r.status = s /\ r.target = target /\ r.assigned = assigned /\ r.exchange = e
        /\ r.claimedBy = None /\ r.attempt = FALSE /\ r.requeues = 0 /\ r.error = "none"
        /\ r.gated = gated /\ r.approved = FALSE /\ r.outcome = "none"
    BY DEF NoTask
  <1> HIDE DEF r
  <1>6. GateOK(r)
    BY <1>1, <1>2, <1>5 DEF GateOK
  <1>7. Routed(r) /\ HolderOK(r)
    BY <1>2, <1>5 DEF Routed, HolderOK, IsHeld, HeldStatus
  <1>8. BudgetOK(r)
    BY <1>5, LimitAssumption DEF BudgetOK
  <1> QED BY <1>2, <1>3, <1>4, <1>5, <1>6, <1>7, <1>8 DEF TaskOK

LEMMA ApprovedOK ==
    ASSUME NEW r \in Task, TaskOK(r), r.status \in {"blocked", "queued"}
    PROVE  LET a == [r EXCEPT !.approved = TRUE, !.outcome = "approved",
                              !.status = "queued", !.fresh = TRUE]
           IN a \in Task /\ TaskOK(a) /\ a.status # "none"
  <1> DEFINE a == [r EXCEPT !.approved = TRUE, !.outcome = "approved",
                            !.status = "queued", !.fresh = TRUE]
  <1>1. a \in Task
    BY StatusFacts DEF Task
  <1>2. /\ a.status = "queued" /\ a.approved = TRUE /\ a.outcome = "approved"
        /\ a.target = r.target /\ a.assigned = r.assigned /\ a.claimedBy = r.claimedBy
        /\ a.attempt = r.attempt /\ a.requeues = r.requeues /\ a.error = r.error
    BY DEF Task
  <1> HIDE DEF a
  <1>3. GateOK(a)
    BY <1>2 DEF GateOK
  <1>4. Routed(a) /\ HolderOK(a) /\ BudgetOK(a)
    BY <1>2 DEF TaskOK, Routed, HolderOK, BudgetOK, IsHeld, HeldStatus
  <1> QED BY <1>1, <1>2, <1>3, <1>4 DEF TaskOK, a

(* The worker that passes assertTaskWorker is the assigned one.            *)
LEMMA WorkerIsAssigned ==
    ASSUME NEW r \in Task, TaskOK(r), r.status # "none", NEW w \in Workers,
           AssertTaskWorker(r, w)
    PROVE  w = r.assigned
  BY NoneAssumption DEF TaskOK, Routed, AssertTaskWorker, Assignee

LEMMA ClaimedOK ==
    ASSUME NEW r \in Task, TaskOK(r), r.status = "queued", ApprovalSatisfied(r),
           NEW w \in Workers, w = r.assigned
    PROVE  LET c == [r EXCEPT !.status = "claimed", !.attempt = TRUE,
                              !.claimedBy = w, !.fresh = TRUE]
           IN c \in Task /\ TaskOK(c) /\ c.status # "none"
  <1> DEFINE c == [r EXCEPT !.status = "claimed", !.attempt = TRUE,
                            !.claimedBy = w, !.fresh = TRUE]
  <1>1. c \in Task
    BY StatusFacts, OptFacts DEF Task
  <1>2. /\ c.status = "claimed" /\ c.attempt = TRUE /\ c.claimedBy = w
        /\ c.target = r.target /\ c.assigned = r.assigned /\ c.requeues = r.requeues
        /\ c.error = r.error /\ c.gated = r.gated /\ c.approved = r.approved
        /\ c.outcome = r.outcome
    BY DEF Task
  <1> HIDE DEF c
  <1>3. GateOK(c)
    BY <1>2 DEF TaskOK, GateOK, ApprovalSatisfied
  <1>4. Routed(c) /\ HolderOK(c)
    BY <1>2 DEF TaskOK, Routed, HolderOK, IsHeld, HeldStatus
  <1>5. BudgetOK(c)
    BY <1>2 DEF TaskOK, BudgetOK
  <1> QED BY <1>1, <1>2, <1>3, <1>4, <1>5 DEF TaskOK, c

LEMMA StartedOK ==
    ASSUME NEW r \in Task, TaskOK(r), r.status = "claimed"
    PROVE  LET s == [r EXCEPT !.status = "running", !.fresh = TRUE]
           IN s \in Task /\ TaskOK(s) /\ s.status # "none"
  <1> DEFINE s == [r EXCEPT !.status = "running", !.fresh = TRUE]
  <1>1. s \in Task
    BY StatusFacts DEF Task
  <1>2. /\ s.status = "running" /\ s.attempt = r.attempt /\ s.claimedBy = r.claimedBy
        /\ s.target = r.target /\ s.assigned = r.assigned /\ s.requeues = r.requeues
        /\ s.error = r.error /\ s.gated = r.gated /\ s.approved = r.approved
        /\ s.outcome = r.outcome
    BY DEF Task
  <1> HIDE DEF s
  <1>3. GateOK(s) /\ Routed(s) /\ BudgetOK(s)
    BY <1>2 DEF TaskOK, GateOK, Routed, BudgetOK
  <1>4. HolderOK(s)
    BY <1>2 DEF TaskOK, HolderOK, IsHeld, HeldStatus
  <1> QED BY <1>1, <1>2, <1>3, <1>4 DEF TaskOK, s

(* completeTask and failTask, which differ in the outcome they write.      *)
LEMMA FinishedOK ==
    ASSUME NEW r \in Task, TaskOK(r), IsHeld(r), NEW q \in Task,
           q.status \in {"succeeded", "failed"}, q.error \in {"none", "worker"},
           q.target = r.target, q.assigned = r.assigned, q.requeues = r.requeues,
           q.attempt = r.attempt, q.gated = r.gated, q.approved = r.approved,
           q.outcome = r.outcome
    PROVE  TaskOK(q)
  <1>1. GateOK(q)
    BY DEF TaskOK, GateOK, IsHeld, HeldStatus
  <1>2. Routed(q) /\ HolderOK(q)
    BY DEF TaskOK, Routed, HolderOK, IsHeld, HeldStatus
  <1>3. BudgetOK(q)
    BY DEF TaskOK, BudgetOK
  <1> QED BY <1>1, <1>2, <1>3 DEF TaskOK

(* Fields no invariant looks at.                                           *)
LEMMA SameControl ==
    ASSUME NEW r, TaskOK(r), NEW q,
           q.status = r.status, q.target = r.target, q.assigned = r.assigned,
           q.claimedBy = r.claimedBy, q.attempt = r.attempt, q.requeues = r.requeues,
           q.error = r.error, q.gated = r.gated, q.approved = r.approved,
           q.outcome = r.outcome
    PROVE  TaskOK(q)
  <1>1. Routed(q) /\ BudgetOK(q)
    BY DEF TaskOK, Routed, BudgetOK
  <1>2. HolderOK(q)
    BY DEF TaskOK, HolderOK, IsHeld
  <1>3. GateOK(q)
    BY DEF TaskOK, GateOK
  <1> QED BY <1>1, <1>2, <1>3 DEF TaskOK

LEMMA AgedOK ==
    ASSUME NEW r \in Task, TaskOK(r), NEW b \in BOOLEAN
    PROVE  LET f == [r EXCEPT !.fresh = b]
           IN f \in Task /\ TaskOK(f) /\ f.status = r.status
  <1> DEFINE f == [r EXCEPT !.fresh = b]
  <1>1. f \in Task
    BY DEF Task
  <1>2. /\ f.status = r.status /\ f.target = r.target /\ f.assigned = r.assigned
        /\ f.claimedBy = r.claimedBy /\ f.attempt = r.attempt /\ f.requeues = r.requeues
        /\ f.error = r.error /\ f.gated = r.gated /\ f.approved = r.approved
        /\ f.outcome = r.outcome
    BY DEF Task
  <1> HIDE DEF f
  <1>3. TaskOK(f)
    BY <1>2, SameControl
  <1> QED BY <1>1, <1>2, <1>3 DEF f

LEMMA WokenOK ==
    ASSUME NEW r \in Task, TaskOK(r), NEW wake \in {"none", "planned", "decided"}
    PROVE  LET v == [r EXCEPT !.wake = wake]
           IN v \in Task /\ TaskOK(v) /\ v.status = r.status
  <1> DEFINE v == [r EXCEPT !.wake = wake]
  <1>1. v \in Task
    BY DEF Task
  <1>2. /\ v.status = r.status /\ v.target = r.target /\ v.assigned = r.assigned
        /\ v.claimedBy = r.claimedBy /\ v.attempt = r.attempt /\ v.requeues = r.requeues
        /\ v.error = r.error /\ v.gated = r.gated /\ v.approved = r.approved
        /\ v.outcome = r.outcome
    BY DEF Task
  <1> HIDE DEF v
  <1>3. TaskOK(v)
    BY <1>2, SameControl
  <1> QED BY <1>1, <1>2, <1>3 DEF v

LEMMA TouchedOK ==
    ASSUME NEW r \in Task, TaskOK(r)
    PROVE  Touched(r) \in Task /\ TaskOK(Touched(r)) /\ Touched(r).status = r.status
  BY AgedOK DEF Touched

-----------------------------------------------------------------------------
(* Exchange records, tombstones and the outbox.                            *)

LEMMA SyncedOK ==
    ASSUME NEW x \in Exchange, NEW t \in Tasks, NEW r \in Task, Routed(r),
           r.status # "none", NEW s \in ExchangeStatus
    PROVE  Synced(x, t, r, s) \in Exchange /\ ExchangeOK(Synced(x, t, r, s))
  <1>1. r.target \in Workers /\ Assignee(r) \in Workers
    BY DEF Routed, Assignee
  <1> QED BY <1>1, OptFacts DEF Synced, Exchange, ExchangeOK

LEMMA SyncLastOK ==
    ASSUME MapsOK, NEW T \in [Tasks -> Task], NEW S \in SUBSET Tasks,
           \A t \in S : Routed(T[t]) /\ T[t].status # "none",
           NEW last \in [Exchanges -> Opt(S)], NEW status \in [Tasks -> ExchangeStatus]
    PROVE  LET E == SyncLast(T, last, status)
           IN E \in [Exchanges -> Exchange] /\ \A e \in Exchanges : ExchangeOK(E[e])
  <1> DEFINE E == SyncLast(T, last, status)
  <1>1. ASSUME NEW e \in Exchanges PROVE E[e] \in Exchange /\ ExchangeOK(E[e])
    <2>1. CASE last[e] = None \/ exchanges[e].status = "none"
      BY <2>1 DEF SyncLast, MapsOK
    <2>2. CASE last[e] # None /\ exchanges[e].status # "none"
      <3>1. last[e] \in S
        BY <2>2 DEF Opt
      <3>2. E[e] = Synced(exchanges[e], last[e], T[last[e]], status[last[e]])
        BY <2>2 DEF SyncLast
      <3>3. exchanges[e] \in Exchange
        BY DEF MapsOK
      <3> QED BY <3>1, <3>2, <3>3, SyncedOK
    <2> QED BY <2>1, <2>2
  <1>2. E = [e \in Exchanges |-> E[e]]
    BY DEF SyncLast
  <1> HIDE DEF E
  <1>3. E \in [Exchanges -> Exchange]
    BY <1>1, <1>2
  <1> QED BY <1>1, <1>3 DEF E

LEMMA LogsFacts ==
    ASSUME LogsOK
    PROVE  /\ \A S, reason : reason \in Tombstone =>
                 WriteTombstones(S, reason) \in [Tasks -> Tombstone]
           /\ \A S, status : status \in TerminalStatus /\ Announce(S, status) =>
                 outbox' \in [Tasks -> Seq(TerminalStatus)]
  <1>1. ASSUME NEW S, NEW reason \in Tombstone
        PROVE  WriteTombstones(S, reason) \in [Tasks -> Tombstone]
    BY DEF WriteTombstones, LogsOK
  <1>2. ASSUME NEW S, NEW status \in TerminalStatus, Announce(S, status)
        PROVE  outbox' \in [Tasks -> Seq(TerminalStatus)]
    <2>1. ASSUME NEW t \in Tasks
          PROVE  Append(outbox[t], status) \in Seq(TerminalStatus)
                 /\ outbox[t] \in Seq(TerminalStatus)
      BY DEF LogsOK
    <2> QED BY <1>2, <2>1 DEF Announce
  <1> QED BY <1>1, <1>2

LEMMA UpdateTaskPreserves ==
    ASSUME IInv, NEW t \in Tasks, NEW r \in Task, TaskOK(r), r.status # "none",
           NEW status \in ExchangeStatus, NEW P \in [Proposals -> Proposal],
           Persist([tasks EXCEPT ![t] = r], SyncExchange(t, r, status), P, workers, tombstones)
    PROVE  MapsOK'
  <1> DEFINE T == [tasks EXCEPT ![t] = r]
             E == SyncExchange(t, r, status)
  <1>1. T \in [Tasks -> Task] /\ \A u \in Tasks : TaskOK(T[u])
    BY DEF IInv, MapsOK
  <1>2. ASSUME NEW e \in Exchanges PROVE E[e] \in Exchange /\ ExchangeOK(E[e])
    <2>1. exchanges[e] \in Exchange /\ ExchangeOK(exchanges[e])
      BY DEF IInv, MapsOK
    <2>2. Synced(exchanges[e], t, r, status) \in Exchange
          /\ ExchangeOK(Synced(exchanges[e], t, r, status))
      BY <2>1, SyncedOK DEF TaskOK
    <2> QED BY <2>1, <2>2 DEF SyncExchange
  <1>3. E = [e \in Exchanges |-> E[e]]
    BY DEF SyncExchange
  <1>4. /\ workers \in [Workers -> WorkerStatus] /\ tombstones \in [Tasks -> Tombstone]
        /\ Persist(T, E, P, workers, tombstones)
    BY DEF IInv, MapsOK, LogsOK
  <1> HIDE DEF T, E
  <1>5. E \in [Exchanges -> Exchange]
    BY <1>2, <1>3
  <1> QED BY <1>1, <1>2, <1>4, <1>5, PersistPreserves

(* A handler that writes one task and leaves the exchanges alone.          *)
LEMMA WriteTaskPreserves ==
    ASSUME IInv, NEW t \in Tasks, NEW r \in Task, TaskOK(r),
           PersistTasks([tasks EXCEPT ![t] = r], exchanges)
    PROVE  MapsOK'
  <1>1. /\ [tasks EXCEPT ![t] = r] \in [Tasks -> Task]
        /\ \A u \in Tasks : TaskOK([tasks EXCEPT ![t] = r][u])
    BY DEF IInv, MapsOK
  <1> QED BY <1>1, PersistPreserves DEF PersistTasks, IInv, MapsOK, LogsOK

LEMMA LogsUnchanged == ASSUME LogsOK, UNCHANGED <<tombstones, outbox>> PROVE LogsOK'
  BY DEF LogsOK

-----------------------------------------------------------------------------
(* One step per action.                                                    *)

LEMMA InitIInv == Init => IInv
  <1> SUFFICES ASSUME Init PROVE IInv
    OBVIOUS
  <1>1. tasks \in [Tasks -> Task] /\ \A t \in Tasks : TaskOK(tasks[t])
    BY NoRecords DEF Init
  <1>2. exchanges \in [Exchanges -> Exchange] /\ \A e \in Exchanges : ExchangeOK(exchanges[e])
    BY NoRecords DEF Init
  <1>3. proposals \in [Proposals -> Proposal]
    BY NoRecords DEF Init
  <1>4. workers \in [Workers -> WorkerStatus] /\ tombstones \in [Tasks -> Tombstone]
    BY DEF Init, WorkerStatus, Tombstone
  <1>5. disk \in [exchanges: [Exchanges -> Exchange], tombstones: [Tasks -> Tombstone]]
        /\ disk.exchanges = exchanges
    BY <1>2, <1>4 DEF Init
  <1>6. outbox \in [Tasks -> Seq(TerminalStatus)]
    BY DEF Init
  <1> QED BY <1>1, <1>2, <1>3, <1>4, <1>5, <1>6 DEF IInv, MapsOK, LogsOK

LEMMA WorkerStep ==
    ASSUME IInv, NEW w \in Workers, RegisterWorker(w) \/ HeartbeatWorker(w)
    PROVE  IInv'
  <1> DEFINE W == [workers EXCEPT ![w] = "seen"]
  <1>1. W \in [Workers -> WorkerStatus]
    BY DEF IInv, MapsOK, WorkerStatus
  <1>2. LogsOK'
    BY LogsUnchanged DEF IInv, RegisterWorker, HeartbeatWorker
  <1>3. CASE Persist(tasks, exchanges, proposals, W, tombstones)
    <2>1. MapsOK'
      BY <1>1, <1>3, PersistPreserves DEF IInv, MapsOK, LogsOK
    <2> QED BY <1>2, <2>1 DEF IInv
  <1>4. CASE workers' = W /\ UNCHANGED <<tasks, exchanges, proposals, disk>>
    <2>1. MapsOK'
      BY <1>1, <1>4 DEF IInv, MapsOK
    <2> QED BY <1>2, <2>1 DEF IInv
  <1> QED BY <1>3, <1>4 DEF RegisterWorker, HeartbeatWorker

LEMMA HolderStep ==
    ASSUME IInv, NEW t \in Tasks, NEW w \in Workers,
           \/ ClaimTask(t, w) \/ StartTask(t, w) \/ HeartbeatTask(t, w)
           \/ CompleteTask(t, w) \/ FailTask(t, w)
    PROVE  IInv'
  <1> DEFINE r == tasks[t]
  <1>1. r \in Task /\ TaskOK(r) /\ proposals \in [Proposals -> Proposal]
    BY DEF IInv, MapsOK
  <1>2. CASE ClaimTask(t, w)
    <2> DEFINE c == [r EXCEPT !.status = "claimed", !.attempt = TRUE,
                              !.claimedBy = w, !.fresh = TRUE]
    <2>1. w = r.assigned
      BY <1>1, <1>2, WorkerIsAssigned DEF ClaimTask
    <2>2. c \in Task /\ TaskOK(c) /\ c.status # "none"
      BY <1>1, <1>2, <2>1, ClaimedOK DEF ClaimTask
    <2>3. Persist([tasks EXCEPT ![t] = c], SyncExchange(t, c, "running"),
                  proposals, workers, tombstones)
      BY <1>2 DEF ClaimTask, UpdateTask, PersistTasks
    <2> HIDE DEF c
    <2>4. MapsOK'
      BY <1>1, <2>2, <2>3, StatusFacts, UpdateTaskPreserves
    <2> QED BY <1>2, <2>4, LogsUnchanged DEF ClaimTask, IInv
  <1>3. CASE StartTask(t, w)
    <2> DEFINE s == [r EXCEPT !.status = "running", !.fresh = TRUE]
    <2>2. s \in Task /\ TaskOK(s) /\ s.status # "none"
      BY <1>1, <1>3, StartedOK DEF StartTask
    <2>3. Persist([tasks EXCEPT ![t] = s], SyncExchange(t, s, "running"),
                  proposals, workers, tombstones)
      BY <1>3 DEF StartTask, UpdateTask, PersistTasks
    <2> HIDE DEF s
    <2>4. MapsOK'
      BY <1>1, <2>2, <2>3, StatusFacts, UpdateTaskPreserves
    <2> QED BY <1>3, <2>4, LogsUnchanged DEF StartTask, IInv
  <1>4. CASE HeartbeatTask(t, w)
    <2> DEFINE f == [r EXCEPT !.fresh = TRUE]
    <2>2. f \in Task /\ TaskOK(f)
      BY <1>1, AgedOK
    <2>3. PersistTasks([tasks EXCEPT ![t] = f], exchanges)
      BY <1>4 DEF HeartbeatTask, IInv, MapsOK
    <2> HIDE DEF f
    <2>4. MapsOK'
      BY <2>2, <2>3, WriteTaskPreserves
    <2> QED BY <1>4, <2>4, LogsUnchanged DEF HeartbeatTask, IInv
  <1>5. CASE CompleteTask(t, w)
    <2> DEFINE c == [r EXCEPT !.status = "succeeded", !.claimedBy = w, !.result = TRUE,
                              !.error = "none", !.fresh = TRUE]
    <2>1. c \in Task
      BY <1>1, StatusFacts, OptFacts DEF Task
    <2>2. /\ c.status = "succeeded" /\ c.error = "none"
          /\ c.target = r.target /\ c.assigned = r.assigned /\ c.requeues = r.requeues
          /\ c.attempt = r.attempt /\ c.gated = r.gated /\ c.approved = r.approved
          /\ c.outcome = r.outcome /\ c.proposal = r.proposal
      BY <1>1 DEF Task
    <2>3. /\ Persist([tasks EXCEPT ![t] = c], SyncExchange(t, c, "completed"),
                     CompletedProposals(c), workers, tombstones)
          /\ IsHeld(r) /\ Announce({t}, "succeeded") /\ UNCHANGED tombstones
      BY <1>5 DEF CompleteTask
    <2> HIDE DEF c
    <2>4. TaskOK(c)
      BY <1>1, <2>1, <2>2, <2>3, FinishedOK
    <2>5. CompletedProposals(c) \in [Proposals -> Proposal]
      BY <1>1 DEF CompletedProposals, Proposal, ProposalStatus
    <2>6. MapsOK'
      BY <2>1, <2>2, <2>3, <2>4, <2>5, StatusFacts, UpdateTaskPreserves
    <2>7. "succeeded" \in TerminalStatus
      BY DEF TerminalStatus
    <2>8. LogsOK'
      BY <2>3, <2>7, LogsFacts DEF LogsOK, IInv
    <2> QED BY <2>6, <2>8 DEF IInv
  <1>6. CASE FailTask(t, w)
    <2> DEFINE c == [r EXCEPT !.status = "failed", !.claimedBy = w,
                              !.error = "worker", !.fresh = TRUE]
    <2>1. c \in Task
      BY <1>1, StatusFacts, OptFacts DEF Task
    <2>2. /\ c.status = "failed" /\ c.error = "worker"
          /\ c.target = r.target /\ c.assigned = r.assigned /\ c.requeues = r.requeues
          /\ c.attempt = r.attempt /\ c.gated = r.gated /\ c.approved = r.approved
          /\ c.outcome = r.outcome
      BY <1>1 DEF Task
    <2>3. /\ Persist([tasks EXCEPT ![t] = c], SyncExchange(t, c, "failed"),
                     proposals, workers, tombstones)
          /\ IsHeld(r) /\ Announce({t}, "failed")
          /\ tombstones' = WriteTombstones({t}, "failed")
      BY <1>6 DEF FailTask, UpdateTask, PersistTasks
    <2> HIDE DEF c
    <2>4. TaskOK(c)
      BY <1>1, <2>1, <2>2, <2>3, FinishedOK
    <2>5. MapsOK'
      BY <1>1, <2>1, <2>2, <2>3, <2>4, StatusFacts, UpdateTaskPreserves
    <2>6. "failed" \in TerminalStatus /\ "failed" \in Tombstone
      BY DEF TerminalStatus, Tombstone
    <2>7. LogsOK'
      BY <2>3, <2>6, LogsFacts DEF LogsOK, IInv
    <2> QED BY <2>5, <2>7 DEF IInv
  <1> QED BY <1>2, <1>3, <1>4, <1>5, <1>6

LEMMA ProposalStep ==
    ASSUME IInv, NEW p \in Proposals,
           \/ CreateProposal(p) \/ AttachArtifact(p) \/ SubmitValidationResult(p)
           \/ ApproveProposal(p) \/ RejectProposal(p) \/ ApplyProposalLocally(p)
    PROVE  IInv'
  <1>1. PICK P \in [Proposals -> Proposal] :
             Persist(tasks, exchanges, P, workers, tombstones)
    <2>1. CASE CreateProposal(p)
      <3>1. PICK source \in Workers, target \in Workers :
              Persist(tasks, exchanges,
                      [proposals EXCEPT ![p] = [NoProposal EXCEPT !.status = "submitted",
                          !.source = source, !.target = target]], workers, tombstones)
        BY <2>1 DEF CreateProposal
      <3>2. [NoProposal EXCEPT !.status = "submitted",
                          !.source = source, !.target = target] \in Proposal
        BY OptFacts DEF NoProposal, Proposal, ProposalStatus
      <3>3. proposals \in [Proposals -> Proposal]
        BY DEF IInv, MapsOK
      <3> QED BY <3>1, <3>2, <3>3
    <2>2. ASSUME NEW status \in ProposalStatus, SetProposal(p, status)
          PROVE  \E P \in [Proposals -> Proposal] :
                     Persist(tasks, exchanges, P, workers, tombstones)
      <3>1. [proposals EXCEPT ![p].status = status, ![p].fresh = TRUE]
               \in [Proposals -> Proposal]
        BY DEF IInv, MapsOK, Proposal
      <3> QED BY <2>2, <3>1 DEF SetProposal
    <2>3. proposals[p].status \in ProposalStatus
      BY DEF IInv, MapsOK, Proposal
    <2>4. {"validated", "approved", "rejected", "applied"} \subseteq ProposalStatus
      BY DEF ProposalStatus
    <2> QED BY <2>1, <2>2, <2>3, <2>4 DEF AttachArtifact, SubmitValidationResult,
               ApproveProposal, RejectProposal, ApplyProposalLocally
  <1>2. MapsOK'
    BY <1>1, PersistPreserves DEF IInv, MapsOK, LogsOK
  <1>3. UNCHANGED <<tombstones, outbox>>
    BY DEF CreateProposal, AttachArtifact, SubmitValidationResult, ApproveProposal,
           RejectProposal, ApplyProposalLocally, SetProposal
  <1> QED BY <1>2, <1>3, LogsUnchanged DEF IInv

LEMMA CreateTaskStep ==
    ASSUME IInv, NEW t \in Tasks, CreateTask(t)
    PROVE  IInv'
  <1>1. PICK parent \in Parents, e \in Opt(Exchanges), intent \in Intents,
             p \in Opt(Proposals), target \in Workers, assigned \in Workers,
             flagged \in Flags, ask \in Asks :
             LET r == NewTask(parent, e, intent, p, target, assigned, flagged, ask)
             IN PersistTasks([tasks EXCEPT ![t] = r], LinkExchange(t, r))
                /\ (e # None => exchanges[e].status # "none")
    BY DEF CreateTask
  <1> DEFINE r == NewTask(parent, e, intent, p, target, assigned, flagged, ask)
             T == [tasks EXCEPT ![t] = r]
             E == LinkExchange(t, r)
  <1>2. /\ parent \in Opt(Tasks) /\ intent \in Intent /\ flagged \in BOOLEAN /\ ask \in Ask
    BY InputAssumption
  <1>3. r \in Task /\ TaskOK(r) /\ r.status # "none"
    BY <1>2, NewTaskOK
  <1>4. Persist(T, E, proposals, workers, tombstones)
    BY <1>1 DEF PersistTasks
  <1> HIDE DEF r
  <1>5. T \in [Tasks -> Task] /\ \A u \in Tasks : TaskOK(T[u])
    BY <1>3 DEF IInv, MapsOK
  <1>6. ASSUME NEW f \in Exchanges PROVE E[f] \in Exchange /\ ExchangeOK(E[f])
    <2>1. exchanges[f] \in Exchange /\ ExchangeOK(exchanges[f])
          /\ exchanges[f].status \in ExchangeStatus
      BY DEF IInv, MapsOK, Exchange
    <2>2. Linked(exchanges[f], t, r) \in Exchange /\ ExchangeOK(Linked(exchanges[f], t, r))
      BY <1>3, <2>1, SyncedOK DEF Linked, TaskOK
    <2> QED BY <2>1, <2>2 DEF LinkExchange
  <1>7. E = [f \in Exchanges |-> E[f]]
    BY DEF LinkExchange
  <1> HIDE DEF T, E
  <1>8. E \in [Exchanges -> Exchange]
    BY <1>6, <1>7
  <1>9. MapsOK'
    BY <1>4, <1>5, <1>6, <1>8, PersistPreserves DEF IInv, MapsOK, LogsOK
  <1> QED BY <1>9, LogsUnchanged DEF IInv, CreateTask

LEMMA TouchStep ==
    ASSUME IInv, NEW t \in Tasks,
           UpdateTaskPayload(t) \/ PlanAcceptedTaskWake(t) \/ RecordTaskWakeDecision(t)
    PROVE  IInv'
  <1> DEFINE r == tasks[t]
  <1>1. r \in Task /\ TaskOK(r) /\ Touched(r) \in Task /\ TaskOK(Touched(r))
    BY TouchedOK DEF IInv, MapsOK
  <1>2. PICK q \in Task : TaskOK(q) /\ PersistTasks([tasks EXCEPT ![t] = q], exchanges)
    <2>1. CASE UpdateTaskPayload(t)
      BY <1>1, <2>1 DEF UpdateTaskPayload, IInv, MapsOK
    <2>2. CASE PlanAcceptedTaskWake(t)
      <3> DEFINE q == IF r.wake = "none" THEN [Touched(r) EXCEPT !.wake = "planned"] ELSE r
      <3>1. q \in Task /\ TaskOK(q)
        BY <1>1, WokenOK
      <3>2. PersistTasks([tasks EXCEPT ![t] = q], exchanges)
        BY <2>2 DEF PlanAcceptedTaskWake, IInv, MapsOK
      <3> HIDE DEF q
      <3> QED BY <3>1, <3>2
    <2>3. CASE RecordTaskWakeDecision(t)
      <3> DEFINE q == [Touched(r) EXCEPT !.wake = "decided"]
      <3>1. q \in Task /\ TaskOK(q)
        BY <1>1, WokenOK
      <3>2. PersistTasks([tasks EXCEPT ![t] = q], exchanges)
        BY <2>3 DEF RecordTaskWakeDecision, IInv, MapsOK
      <3> HIDE DEF q
      <3> QED BY <3>1, <3>2
    <2> QED BY <2>1, <2>2, <2>3
  <1>3. MapsOK'
    BY <1>2, WriteTaskPreserves
  <1> QED BY <1>3, LogsUnchanged
          DEF IInv, UpdateTaskPayload, PlanAcceptedTaskWake, RecordTaskWakeDecision

LEMMA OperatorStep ==
    ASSUME IInv, NEW t \in Tasks, ReassignTask(t) \/ ApproveTask(t)
    PROVE  IInv'
  <1> DEFINE r == tasks[t]
  <1>1. r \in Task /\ TaskOK(r) /\ proposals \in [Proposals -> Proposal]
    BY DEF IInv, MapsOK
  <1>2. PICK q \in Task : TaskOK(q) /\ q.status # "none" /\ UpdateTask(t, q, "queued")
    <2>1. CASE ReassignTask(t)
      BY <1>1, <2>1, ReassignedOK DEF ReassignTask
    <2>2. CASE ApproveTask(t)
      BY <1>1, <2>2, ApprovedOK DEF ApproveTask
    <2> QED BY <2>1, <2>2
  <1>3. MapsOK'
    BY <1>1, <1>2, StatusFacts, UpdateTaskPreserves DEF UpdateTask, PersistTasks
  <1> QED BY <1>3, LogsUnchanged DEF IInv, ReassignTask, ApproveTask

-----------------------------------------------------------------------------
(* Cancels.                                                                *)

(* cancelTaskTree reaches, beside its root, only live tasks.               *)
LEMMA CancelTreeLive ==
    ASSUME NEW t \in Tasks
    PROVE  /\ CancelTree(t) \subseteq Tasks
           /\ \A c \in CancelTree(t) : c = t \/ IsLive(tasks[c])
  <1> DEFINE S == {c \in Tasks : c = t \/ IsLive(tasks[c])}
  <1>1. S \in SUBSET Tasks /\ t \in S /\ \A s \in S : LiveChildren(s) \subseteq S
    BY DEF LiveChildren
  <1> HIDE DEF S
  <1>2. CancelTree(t) \subseteq S
    BY <1>1 DEF CancelTree
  <1> QED BY <1>2 DEF CancelTree, S

LEMMA CancelMembersPreserves ==
    ASSUME IInv, NEW root \in Tasks, NEW S \in SUBSET Tasks,
           NEW T \in [Tasks -> Task], NEW tombs \in [Tasks -> Tombstone],
           \A c \in Tasks \ S : TaskOK(T[c]),
           \A c \in S : \A from \in Opt(Tasks) \cup {"request"} :
               LET q == Canceled(T[c], from)
               IN q \in Task /\ TaskOK(q) /\ q.status # "none",
           CancelMembers(root, T, S, tombs)
    PROVE  MapsOK'
  <1> DEFINE C == CancelRecords(T, root, S)
             from(c) == IF c = root THEN "request" ELSE T[c].parent
  <1>1. PICK last \in LastWritten(C, S) :
            Persist(C, SyncLast(C, last, [c \in Tasks |-> "queued"]), proposals, workers, tombs)
    BY DEF CancelMembers
  <1>2. ASSUME NEW c \in Tasks
        PROVE  C[c] \in Task /\ TaskOK(C[c]) /\ (c \in S => C[c].status # "none")
    <2>1. from(c) \in Opt(Tasks) \cup {"request"}
      BY DEF Task
    <2>2. CASE c \in S
      <3>1. C[c] = Canceled(T[c], from(c))
        BY <2>2 DEF CancelRecords
      <3> QED BY <2>1, <2>2, <3>1
    <2>3. CASE c \notin S
      BY <2>3 DEF CancelRecords
    <2> QED BY <2>2, <2>3
  <1>3. C = [c \in Tasks |-> C[c]]
    BY DEF CancelRecords
  <1> HIDE DEF C
  <1>4. C \in [Tasks -> Task]
    BY <1>2, <1>3
  <1> DEFINE queued == [c \in Tasks |-> "queued"]
  <1>5. last \in [Exchanges -> Opt(S)] /\ queued \in [Tasks -> ExchangeStatus]
    BY StatusFacts DEF LastWritten
  <1>6. \A c \in S : Routed(C[c]) /\ C[c].status # "none"
    BY <1>2 DEF TaskOK
  <1> DEFINE E == SyncLast(C, last, queued)
  <1>7. E \in [Exchanges -> Exchange] /\ \A e \in Exchanges : ExchangeOK(E[e])
    BY <1>4, <1>5, <1>6, SyncLastOK DEF IInv
  <1>8. Persist(C, E, proposals, workers, tombs)
    BY <1>1
  <1> HIDE DEF E
  <1> QED BY <1>2, <1>4, <1>7, <1>8, PersistPreserves DEF IInv, MapsOK

LEMMA PlainCanceledOK ==
    ASSUME NEW r \in Task, TaskOK(r), IsLive(r), NEW from \in Opt(Tasks) \cup {"request"}
    PROVE  LET q == Canceled(r, from)
           IN q \in Task /\ TaskOK(q) /\ q.status # "none"
  <1>1. (r.gated /\ ~r.approved => ~r.attempt) /\ (r.approved <=> r.outcome = "approved")
    BY DEF TaskOK, GateOK
  <1> QED BY <1>1, CanceledOK DEF TaskOK

LEMMA RefusedCanceledOK ==
    ASSUME NEW r \in Task, TaskOK(r), IsLive(r), ~r.approved,
           NEW q \in Task, q = [r EXCEPT !.outcome = "refused"],
           NEW from \in Opt(Tasks) \cup {"request"}
    PROVE  LET c == Canceled(q, from)
           IN c \in Task /\ TaskOK(c) /\ c.status # "none"
  <1>1. /\ q.status = r.status /\ q.target = r.target /\ q.assigned = r.assigned
        /\ q.requeues = r.requeues /\ q.error = r.error /\ q.attempt = r.attempt
        /\ q.gated = r.gated /\ q.approved = r.approved /\ q.outcome = "refused"
    BY DEF Task
  <1>2. (q.gated /\ ~q.approved => ~q.attempt) /\ (q.approved <=> q.outcome = "approved")
    BY <1>1 DEF TaskOK, GateOK
  <1>3. IsLive(q) /\ Routed(q) /\ BudgetOK(q)
    BY <1>1 DEF TaskOK, IsLive, Routed, BudgetOK
  <1> QED BY <1>2, <1>3, CanceledOK

LEMMA CancelLogs ==
    ASSUME LogsOK, NEW S, NEW U, Announce(U, "canceled"),
           tombstones' = WriteTombstones(S, "canceled")
    PROVE  LogsOK'
  <1>1. "canceled" \in TerminalStatus /\ "canceled" \in Tombstone
    BY DEF TerminalStatus, Tombstone
  <1> QED BY <1>1, LogsFacts DEF LogsOK

LEMMA CancelStep ==
    ASSUME IInv, NEW t \in Tasks, CancelTask(t) \/ CrashDuringCancel(t)
    PROVE  IInv'
  <1>1. PICK S \in SUBSET CancelTree(t), tombs \in [Tasks -> Tombstone] :
            CancelMembers(t, tasks, S, tombs)
    <2>1. \A S : WriteTombstones(S, "canceled") \in [Tasks -> Tombstone]
      BY LogsFacts DEF IInv, Tombstone
    <2>2. CASE CancelTask(t)
      BY <2>1, <2>2 DEF CancelTask
    <2>3. CASE CrashDuringCancel(t)
      BY <2>1, <2>3 DEF CrashDuringCancel
    <2> QED BY <2>2, <2>3
  <1>2. S \in SUBSET Tasks /\ \A c \in S : IsLive(tasks[c])
    BY CancelTreeLive DEF CancelTask, CrashDuringCancel
  <1>3. tasks \in [Tasks -> Task] /\ \A c \in Tasks : TaskOK(tasks[c])
    BY DEF IInv, MapsOK
  <1>4. MapsOK'
    <2>1. \A c \in S : \A from \in Opt(Tasks) \cup {"request"} :
               LET q == Canceled(tasks[c], from)
               IN q \in Task /\ TaskOK(q) /\ q.status # "none"
      BY <1>2, <1>3, PlainCanceledOK
    <2> QED BY <1>1, <1>2, <1>3, <2>1, CancelMembersPreserves
  <1>5. LogsOK'
    BY CancelLogs DEF CancelTask, CrashDuringCancel, IInv
  <1> QED BY <1>4, <1>5 DEF IInv

LEMMA RejectStep ==
    ASSUME IInv, NEW t \in Tasks, RejectTaskApproval(t)
    PROVE  IInv'
  <1> DEFINE S == CancelTree(t)
             T == [tasks EXCEPT ![t].outcome = "refused"]
             tombs == WriteTombstones(S, "canceled")
  <1>1. CancelMembers(t, T, S, tombs)
    BY DEF RejectTaskApproval
  <1>2. tasks \in [Tasks -> Task] /\ \A c \in Tasks : TaskOK(tasks[c])
    BY DEF IInv, MapsOK
  <1>3. /\ IsLive(tasks[t]) /\ ~tasks[t].approved
    BY DEF RejectTaskApproval, IsLive, LiveStatus
  <1>4. t \in S
    BY DEF CancelTree
  <1>5. S \in SUBSET Tasks /\ \A c \in S : IsLive(tasks[c])
    BY <1>3, CancelTreeLive
  <1>6. T \in [Tasks -> Task]
    BY <1>2 DEF Task
  <1>7. /\ T[t] = [tasks[t] EXCEPT !.outcome = "refused"]
        /\ \A c \in Tasks \ {t} : T[c] = tasks[c]
    BY <1>2
  <1>8. tombs \in [Tasks -> Tombstone]
    BY LogsFacts DEF IInv, Tombstone
  <1> HIDE DEF S, T, tombs
  <1>9. ASSUME NEW c \in S, NEW from \in Opt(Tasks) \cup {"request"}
        PROVE  LET q == Canceled(T[c], from)
               IN q \in Task /\ TaskOK(q) /\ q.status # "none"
    <2>1. CASE c = t
      BY <1>2, <1>3, <1>6, <1>7, <2>1, RefusedCanceledOK
    <2>2. CASE c # t
      BY <1>2, <1>5, <1>7, <2>2, PlainCanceledOK
    <2> QED BY <2>1, <2>2
  <1>10. \A c \in Tasks \ S : TaskOK(T[c])
    BY <1>2, <1>4, <1>7
  <1>11. MapsOK'
    BY <1>1, <1>5, <1>6, <1>8, <1>9, <1>10, CancelMembersPreserves
  <1>12. LogsOK'
    BY CancelLogs DEF RejectTaskApproval, IInv
  <1> QED BY <1>11, <1>12 DEF IInv

-----------------------------------------------------------------------------
(* The reaper, exchanges, the clock and crashes.                           *)

LEMMA RequeueStep ==
    ASSUME IInv, NEW threshold, RequeueStaleTasks(threshold)
    PROVE  IInv'
  <1> DEFINE S == {t \in Tasks : RequeueReason(tasks[t], threshold)}
             D == {t \in S : Exhausted(tasks[t])}
             T == [t \in Tasks |-> IF t \in S THEN Swept(tasks[t]) ELSE tasks[t]]
             status == [t \in Tasks |-> IF t \in D THEN "failed" ELSE "queued"]
             tombs == WriteTombstones(D, "dead_lettered")
  <1>1. PICK last \in LastWritten(T, S) :
            Persist(T, SyncLast(T, last, status), proposals, workers, tombs)
    BY DEF RequeueStaleTasks
  <1>2. tombstones' = tombs /\ Announce(D, "failed")
    BY DEF RequeueStaleTasks
  <1>3. tombs \in [Tasks -> Tombstone] /\ outbox' \in [Tasks -> Seq(TerminalStatus)]
    <2>1. "dead_lettered" \in Tombstone /\ "failed" \in TerminalStatus
      BY DEF Tombstone, TerminalStatus
    <2> HIDE DEF D
    <2> QED BY <1>2, <2>1, LogsFacts DEF IInv
  <1>4. status \in [Tasks -> ExchangeStatus]
    BY StatusFacts
  <1>5. ASSUME NEW t \in Tasks
        PROVE  T[t] \in Task /\ TaskOK(T[t]) /\ (t \in S => T[t].status # "none")
    <2>1. tasks[t] \in Task /\ TaskOK(tasks[t])
      BY DEF IInv, MapsOK
    <2>2. CASE t \in S
      <3>1. IsHeld(tasks[t]) /\ T[t] = Swept(tasks[t])
        BY <2>2 DEF RequeueReason
      <3> QED BY <2>1, <3>1, SweptOK
    <2>3. CASE t \notin S
      BY <2>1, <2>3
    <2> QED BY <2>2, <2>3
  <1>6. T = [t \in Tasks |-> T[t]] /\ S \in SUBSET Tasks
    OBVIOUS
  <1> HIDE DEF S, D, T, status, tombs
  <1>7. T \in [Tasks -> Task] /\ \A t \in S : Routed(T[t]) /\ T[t].status # "none"
    BY <1>5, <1>6 DEF TaskOK
  <1>8. last \in [Exchanges -> Opt(S)]
    BY DEF LastWritten
  <1> DEFINE E == SyncLast(T, last, status)
  <1>9. E \in [Exchanges -> Exchange] /\ \A e \in Exchanges : ExchangeOK(E[e])
    BY <1>4, <1>6, <1>7, <1>8, SyncLastOK DEF IInv
  <1>10. Persist(T, E, proposals, workers, tombs)
    BY <1>1
  <1> HIDE DEF E
  <1>11. MapsOK'
    BY <1>3, <1>5, <1>7, <1>9, <1>10, PersistPreserves DEF IInv, MapsOK
  <1> QED BY <1>2, <1>3, <1>11 DEF IInv, LogsOK

(* A message writes one exchange and, if at all, one task.                 *)
LEMMA WriteExchangePreserves ==
    ASSUME IInv, NEW e \in Exchanges, NEW y \in Exchange, ExchangeOK(y),
           NEW T \in [Tasks -> Task], \A t \in Tasks : TaskOK(T[t]),
           NEW tombs \in [Tasks -> Tombstone],
           Persist(T, [exchanges EXCEPT ![e] = y], proposals, workers, tombs)
    PROVE  MapsOK'
  <1>1. /\ [exchanges EXCEPT ![e] = y] \in [Exchanges -> Exchange]
        /\ \A f \in Exchanges : ExchangeOK([exchanges EXCEPT ![e] = y][f])
    BY DEF IInv, MapsOK
  <1> QED BY <1>1, PersistPreserves DEF IInv, MapsOK

LEMMA StartExchangeStep ==
    ASSUME IInv, NEW e \in Exchanges, StartExchange(e)
    PROVE  IInv'
  <1>1. PICK target \in Workers, intent \in Intents :
            Persist(tasks, [exchanges EXCEPT ![e] = [NoExchange EXCEPT
                        !.status = "queued", !.target = target, !.intent = intent]],
                    proposals, workers, tombstones)
    BY DEF StartExchange
  <1> DEFINE y == [NoExchange EXCEPT !.status = "queued", !.target = target, !.intent = intent]
  <1>2. y \in Exchange /\ ExchangeOK(y)
    BY InputAssumption, OptFacts, StatusFacts DEF NoExchange, Exchange, ExchangeOK
  <1> HIDE DEF y
  <1>3. MapsOK'
    BY <1>1, <1>2, WriteExchangePreserves DEF y, IInv, MapsOK, LogsOK
  <1> QED BY <1>3, LogsUnchanged DEF StartExchange, IInv

LEMMA EnsureExchangeTaskStep ==
    ASSUME IInv, NEW e \in Exchanges, NEW x \in Exchange, x.target \in Workers,
           NEW status \in ExchangeStatus, EnsureExchangeTask(e, x, status)
    PROVE  MapsOK'
  <1> DEFINE a == Assignee(x)
  <1>0. a \in Workers
    BY DEF Assignee, Exchange, Opt
  <1>1. CASE ReusesTask(x)
    <2> DEFINE old == tasks[x.active]
               r == IF Reroutes(x) THEN Reassigned(old, x.target, a) ELSE old
               b == IF Reroutes(x) THEN a ELSE x.assigned
               y == [x EXCEPT !.status = status, !.assigned = b]
    <2>1. x.active \in Tasks
      BY <1>1 DEF ReusesTask, Exchange, Opt
    <2>2. old \in Task /\ TaskOK(old) /\ IsLive(old)
      BY <1>1, <2>1 DEF ReusesTask, IInv, MapsOK
    <2>3. PersistTasks([tasks EXCEPT ![x.active] = r], [exchanges EXCEPT ![e] = y])
      BY <1>1 DEF EnsureExchangeTask, Exchange
    <2>4. b \in Opt(Workers)
      BY <1>0, OptFacts DEF Exchange
    <2> HIDE DEF old, b
    <2>5. r \in Task /\ TaskOK(r)
      BY <1>0, <2>2, ReassignedOK
    <2> HIDE DEF r
    <2>6. y \in Exchange /\ ExchangeOK(y)
      BY <2>4 DEF Exchange, ExchangeOK
    <2> DEFINE T == [tasks EXCEPT ![x.active] = r]
    <2>7. T \in [Tasks -> Task] /\ \A t \in Tasks : TaskOK(T[t])
      BY <2>1, <2>5 DEF IInv, MapsOK
    <2> HIDE DEF y, T
    <2> QED BY <2>3, <2>6, <2>7, WriteExchangePreserves DEF T, PersistTasks, IInv, LogsOK
  <1>2. CASE ~ReusesTask(x)
    <2> DEFINE r == NewTask(None, e, x.intent, None, x.target, a, FALSE, "unset")
    <2>1. PICK t \in Tasks :
            PersistTasks([tasks EXCEPT ![t] = r],
                [exchanges EXCEPT ![e] = [Linked(x, t, r) EXCEPT !.status = status]])
      BY <1>2 DEF EnsureExchangeTask
    <2>2. x.intent \in Intent /\ x.status \in ExchangeStatus /\ "unset" \in Ask
          /\ FALSE \in BOOLEAN
      BY DEF Exchange, Ask
    <2> HIDE DEF a
    <2>3. r \in Task /\ TaskOK(r) /\ r.status # "none" /\ r.target = x.target
      <3>1. None \in Opt(Tasks) /\ e \in Opt(Exchanges) /\ None \in Opt(Proposals)
        BY OptFacts
      <3>2. \A flagged \in BOOLEAN :
              LET q == NewTask(None, e, x.intent, None, x.target, a, flagged, "unset")
              IN q \in Task /\ TaskOK(q) /\ q.status # "none" /\ q.target = x.target
        BY <1>0, <2>2, <3>1, NewTaskOK
      <3> QED BY <3>2, Zenon
    <2> HIDE DEF r
    <2>4. Linked(x, t, r) \in Exchange /\ Linked(x, t, r).target = r.target
      BY <2>2, <2>3, SyncedOK DEF Linked, TaskOK, Synced, Exchange
    <2> DEFINE y == [Linked(x, t, r) EXCEPT !.status = status]
               T == [tasks EXCEPT ![t] = r]
    <2>5. y \in Exchange /\ ExchangeOK(y)
      BY <2>3, <2>4 DEF Exchange, ExchangeOK
    <2>6. T \in [Tasks -> Task] /\ \A u \in Tasks : TaskOK(T[u])
      BY <2>3 DEF IInv, MapsOK
    <2> HIDE DEF y, T
    <2> QED BY <2>1, <2>5, <2>6, WriteExchangePreserves DEF y, T, PersistTasks, IInv, LogsOK
  <1> QED BY <1>1, <1>2

LEMMA CancelActiveStep ==
    ASSUME IInv, NEW e \in Exchanges, NEW x \in Exchange, x.target \in Workers,
           NEW status \in ExchangeStatus, CancelActiveExchangeTask(e, x, status)
    PROVE  IInv'
  <1> DEFINE S == IF ReusesTask(x) THEN {x.active} ELSE {}
             C == CancelRecords(tasks, x.active, S)
             y == IF S # {} THEN Synced(x, x.active, C[x.active], status)
                            ELSE [x EXCEPT !.status = status]
             tombs == WriteTombstones(S, "canceled")
  <1>1. /\ Persist(C, [exchanges EXCEPT ![e] = y], proposals, workers, tombs)
        /\ tombstones' = tombs /\ Announce(S, "canceled")
    BY DEF CancelActiveExchangeTask
  <1>2. tombs \in [Tasks -> Tombstone]
    BY LogsFacts DEF IInv, Tombstone
  <1>3. S \subseteq Tasks /\ \A t \in S : IsLive(tasks[t])
    BY DEF ReusesTask, Exchange, Opt
  <1>4. ASSUME NEW t \in Tasks
        PROVE  C[t] \in Task /\ TaskOK(C[t]) /\ (t \in S => C[t].status # "none")
    <2> DEFINE from == IF t = x.active THEN "request" ELSE tasks[t].parent
    <2>1. tasks[t] \in Task /\ TaskOK(tasks[t])
      BY DEF IInv, MapsOK
    <2>2. from \in Opt(Tasks) \cup {"request"}
      BY <2>1 DEF Task
    <2>3. CASE t \in S
      <3>1. C[t] = Canceled(tasks[t], from)
        BY <2>3 DEF CancelRecords
      <3> QED BY <1>3, <2>1, <2>2, <2>3, <3>1, PlainCanceledOK
    <2>4. CASE t \notin S
      BY <2>1, <2>4 DEF CancelRecords
    <2> QED BY <2>3, <2>4
  <1>5. C = [t \in Tasks |-> C[t]]
    BY DEF CancelRecords
  <1>6. y \in Exchange /\ ExchangeOK(y)
    <2>1. CASE S # {}
      <3>1. x.active \in Tasks /\ x.active \in S
        BY <1>3, <2>1
      <3>2. Routed(C[x.active]) /\ C[x.active].status # "none" /\ C[x.active] \in Task
        BY <1>4, <3>1 DEF TaskOK
      <3>3. y = Synced(x, x.active, C[x.active], status)
        BY <2>1
      <3> HIDE DEF y, C, S
      <3> QED BY <3>1, <3>2, <3>3, SyncedOK
    <2>2. CASE S = {}
      <3>1. y = [x EXCEPT !.status = status]
        BY <2>2
      <3> HIDE DEF y, C, S
      <3> QED BY <3>1 DEF Exchange, ExchangeOK
    <2> QED BY <2>1, <2>2
  <1> HIDE DEF S, C, y, tombs
  <1>7. C \in [Tasks -> Task]
    BY <1>4, <1>5
  <1>8. MapsOK'
    BY <1>1, <1>2, <1>4, <1>6, <1>7, WriteExchangePreserves
  <1>9. LogsOK'
    BY <1>1, CancelLogs DEF tombs, IInv
  <1> QED BY <1>8, <1>9 DEF IInv

LEMMA AddExchangeMessageStep ==
    ASSUME IInv, NEW e \in Exchanges, AddExchangeMessage(e)
    PROVE  IInv'
  <1>1. PICK target \in Opt(Workers), assigned \in Opt(Workers), decision \in Decisions :
          LET x == Addressed(exchanges[e], target, assigned)
              y == IF decision = "accepted" THEN Accepted(x) ELSE x
          IN \/ /\ EnsureExchangeTask(e, y, IF decision = "none" THEN "queued" ELSE "running")
                /\ UNCHANGED <<tombstones, outbox>>
             \/ /\ exchanges' = [exchanges EXCEPT ![e] = y]
                /\ UNCHANGED <<tasks, workers, proposals, tombstones, outbox, disk>>
             \/ CancelActiveExchangeTask(e, x, "queued")
             \/ CancelActiveExchangeTask(e, x, "failed")
    BY DEF AddExchangeMessage
  <1>2. exchanges[e] \in Exchange /\ exchanges[e].target \in Workers
        /\ exchanges[e].status # "none"
    BY DEF AddExchangeMessage, IInv, MapsOK, ExchangeOK
  <1> DEFINE x == Addressed(exchanges[e], target, assigned)
             y == IF decision = "accepted" THEN Accepted(x) ELSE x
             s == IF decision = "none" THEN "queued" ELSE "running"
  <1>3. \/ EnsureExchangeTask(e, y, s) /\ UNCHANGED <<tombstones, outbox>>
        \/ /\ exchanges' = [exchanges EXCEPT ![e] = y]
           /\ UNCHANGED <<tasks, workers, proposals, tombstones, outbox, disk>>
        \/ CancelActiveExchangeTask(e, x, "queued")
        \/ CancelActiveExchangeTask(e, x, "failed")
    BY <1>1
  <1>5. s \in ExchangeStatus
    BY StatusFacts
  <1> HIDE DEF s
  <1>6. x \in Exchange /\ x.target \in Workers /\ x.status # "none"
    <2> DEFINE tgt == IF target # None THEN target ELSE exchanges[e].target
               asg == IF assigned # None THEN assigned ELSE exchanges[e].assigned
    <2>1. tgt \in Workers /\ asg \in Opt(Workers)
      BY <1>2 DEF Opt, Exchange
    <2>2. x = [exchanges[e] EXCEPT !.target = tgt, !.assigned = asg, !.fresh = TRUE]
      BY <1>2 DEF Addressed, Exchange
    <2> HIDE DEF tgt, asg, x
    <2> QED BY <1>2, <2>1, <2>2, OptFacts DEF Exchange
  <1> HIDE DEF x
  <1>7. Assignee(x) \in Opt(Workers)
    BY <1>6, OptFacts DEF Assignee, Exchange
  <1>8. Accepted(x) \in Exchange /\ Accepted(x).target = x.target
    BY <1>6, <1>7, StatusFacts DEF Exchange, Accepted
  <1>9. y \in Exchange /\ y.target \in Workers
    BY <1>6, <1>8
  <1> HIDE DEF y
  <1>10. CASE EnsureExchangeTask(e, y, s) /\ UNCHANGED <<tombstones, outbox>>
    BY <1>5, <1>9, <1>10, EnsureExchangeTaskStep, LogsUnchanged DEF IInv
  <1>11. CASE /\ exchanges' = [exchanges EXCEPT ![e] = y]
              /\ UNCHANGED <<tasks, workers, proposals, tombstones, outbox, disk>>
    <2>1. LogsOK'
      BY <1>11, LogsUnchanged DEF IInv
    <2>2. exchanges' \in [Exchanges -> Exchange] /\ \A f \in Exchanges : ExchangeOK(exchanges'[f])
      BY <1>9, <1>11 DEF IInv, MapsOK, ExchangeOK
    <2> QED BY <1>11, <2>1, <2>2 DEF IInv, MapsOK
  <1>12. CASE \/ CancelActiveExchangeTask(e, x, "queued")
              \/ CancelActiveExchangeTask(e, x, "failed")
    BY <1>6, <1>12, StatusFacts, CancelActiveStep
  <1> QED BY <1>3, <1>10, <1>11, <1>12

LEMMA ClockStep ==
    ASSUME IInv, ClockNext
    PROVE  IInv'
  <1>1. ASSUME NEW w \in Workers, WorkerAges(w) PROVE IInv'
    <2>1. workers' \in [Workers -> WorkerStatus]
      BY <1>1 DEF WorkerAges, IInv, MapsOK, WorkerStatus
    <2> QED BY <1>1, <2>1, LogsUnchanged DEF WorkerAges, IInv, MapsOK
  <1>2. ASSUME NEW t \in Tasks, TaskAges(t) PROVE IInv'
    <2> DEFINE f == [tasks[t] EXCEPT !.fresh = FALSE]
    <2>1. tasks' = [tasks EXCEPT ![t] = f]
      BY <1>2 DEF TaskAges, IInv, MapsOK
    <2>2. f \in Task /\ TaskOK(f)
      BY AgedOK DEF IInv, MapsOK
    <2> HIDE DEF f
    <2>3. tasks' \in [Tasks -> Task] /\ \A u \in Tasks : TaskOK(tasks'[u])
      BY <2>1, <2>2 DEF IInv, MapsOK
    <2> QED BY <1>2, <2>3, LogsUnchanged DEF TaskAges, IInv, MapsOK
  <1>3. ASSUME NEW e \in Exchanges, ExchangeAges(e) PROVE IInv'
    <2>1. ASSUME NEW E \in [Exchanges -> Exchange], \A f \in Exchanges : ExchangeOK(E[f])
          PROVE  LET F == [E EXCEPT ![e].fresh = FALSE]
                 IN F \in [Exchanges -> Exchange] /\ \A f \in Exchanges : ExchangeOK(F[f])
      <3> DEFINE y == [E[e] EXCEPT !.fresh = FALSE]
      <3>1. E[e] \in Exchange /\ ExchangeOK(E[e])
        BY <2>1
      <3>2. y \in Exchange /\ ExchangeOK(y)
        BY <3>1 DEF Exchange, ExchangeOK
      <3>3. [E EXCEPT ![e].fresh = FALSE] = [E EXCEPT ![e] = y]
        BY <2>1
      <3> HIDE DEF y
      <3> QED BY <2>1, <3>2, <3>3
    <2>2. /\ exchanges \in [Exchanges -> Exchange] /\ disk.exchanges \in [Exchanges -> Exchange]
          /\ \A f \in Exchanges : ExchangeOK(exchanges[f]) /\ ExchangeOK(disk.exchanges[f])
      BY DEF IInv, MapsOK
    <2>3. exchanges' \in [Exchanges -> Exchange] /\ \A f \in Exchanges : ExchangeOK(exchanges'[f])
      BY <1>3, <2>1, <2>2 DEF ExchangeAges
    <2>4. disk' = [disk EXCEPT !.exchanges = [disk.exchanges EXCEPT ![e].fresh = FALSE]]
      BY <1>3 DEF ExchangeAges, IInv, MapsOK
    <2> DEFINE F == [disk.exchanges EXCEPT ![e].fresh = FALSE]
    <2>5. F \in [Exchanges -> Exchange] /\ \A f \in Exchanges : ExchangeOK(F[f])
      BY <2>1, <2>2
    <2> HIDE DEF F
    <2>6. /\ disk' \in [exchanges: [Exchanges -> Exchange], tombstones: [Tasks -> Tombstone]]
          /\ disk'.exchanges = F
      BY <2>4, <2>5 DEF F, IInv, MapsOK
    <2>7. UNCHANGED <<tasks, workers, proposals, tombstones, outbox>>
      BY <1>3 DEF ExchangeAges
    <2> QED BY <2>3, <2>5, <2>6, <2>7, LogsUnchanged DEF IInv, MapsOK
  <1>4. ASSUME NEW p \in Proposals, ProposalAges(p) PROVE IInv'
    <2>1. proposals' \in [Proposals -> Proposal]
      BY <1>4 DEF ProposalAges, IInv, MapsOK, Proposal
    <2> QED BY <1>4, <2>1, LogsUnchanged DEF ProposalAges, IInv, MapsOK
  <1> QED BY <1>1, <1>2, <1>3, <1>4 DEF ClockNext

LEMMA RestartStep ==
    ASSUME IInv, Restart
    PROVE  IInv'
  <1>1. disk.exchanges \in [Exchanges -> Exchange] /\ disk.tombstones \in [Tasks -> Tombstone]
    BY DEF IInv, MapsOK
  <1>2. MapsOK'
    BY <1>1, PersistPreserves DEF Restart, IInv, MapsOK
  <1> QED BY <1>1, <1>2 DEF Restart, IInv, LogsOK

LEMMA NextIInv == IInv /\ [Next]_vars => IInv'
  <1> SUFFICES ASSUME IInv, [Next]_vars PROVE IInv'
    OBVIOUS
  <1>1. CASE WorkerNext
    BY <1>1, WorkerStep, HolderStep DEF WorkerNext
  <1>2. CASE RequestNext
    BY <1>2, CreateTaskStep, TouchStep, CancelStep DEF RequestNext
  <1>3. CASE OperatorNext
    BY <1>3, OperatorStep, RejectStep, RequeueStep DEF OperatorNext
  <1>4. CASE ExchangeNext
    BY <1>4, StartExchangeStep, AddExchangeMessageStep DEF ExchangeNext
  <1>5. CASE ProposalNext
    BY <1>5, ProposalStep DEF ProposalNext
  <1>6. CASE StaleReaperSweep
    BY <1>6, RequeueStep DEF StaleReaperSweep
  <1>7. CASE ClockNext
    BY <1>7, ClockStep
  <1>8. CASE CrashNext
    BY <1>8, RestartStep, CancelStep DEF CrashNext
  <1>9. CASE UNCHANGED vars
    BY <1>9, LogsUnchanged DEF vars, IInv, MapsOK
  <1> QED BY <1>1, <1>2, <1>3, <1>4, <1>5, <1>6, <1>7, <1>8, <1>9 DEF Next

-----------------------------------------------------------------------------
(* The inductive invariant holds of every run of the broker, whatever      *)
(* handlers, timers, restarts and cut-short cancels interleave.            *)
THEOREM IInvHolds == Spec => []IInv
  <1>1. Init => IInv
    BY InitIInv
  <1>2. IInv /\ [Next]_vars => IInv'
    BY NextIInv
  <1> QED BY <1>1, <1>2, PTL DEF Spec

(* Every record in the broker's Maps and in the saved snapshot keeps its   *)
(* shape.                                                                  *)
THEOREM TypeCorrect == Spec => []TypeOK
  <1>1. IInv => TypeOK
    BY DEF IInv, MapsOK, LogsOK, TypeOK
  <1> QED BY <1>1, IInvHolds, PTL

(* A task whose policy requires approval is never attempted without it,    *)
(* through creation, reassignment, requeue, exchange messages and restarts,*)
(* for every set of tasks, workers and exchanges.                          *)
THEOREM ApprovalGateHolds == Spec => []ApprovalGate
  <1>1. IInv => ApprovalGate
    BY DEF IInv, MapsOK, TaskOK, ApprovalGate
  <1> QED BY <1>1, IInvHolds, PTL

(* A held task is held by the worker it is assigned to, and a waiting task *)
(* carries no trace of an earlier holder.                                  *)
THEOREM HeldByAssigneeHolds == Spec => []HeldByAssignee
  <1>1. IInv => HeldByAssignee
    BY DEF IInv, MapsOK, TaskOK, HeldByAssignee
  <1> QED BY <1>1, IInvHolds, PTL

(* The reaper's requeues never exceed maxRequeueAttempts, and only a task  *)
(* that spent them all is dead-lettered, for every limit.                  *)
THEOREM RequeueBudgetHolds == Spec => []RequeueBudget
  <1>1. IInv => RequeueBudget
    BY DEF IInv, MapsOK, TaskOK, RequeueBudget
  <1> QED BY <1>1, IInvHolds, PTL

-----------------------------------------------------------------------------
(* Terminal tasks.  A save keeps or drops the records it is given, so it   *)
(* is enough that no handler gives it a changed terminal record.           *)

Final(t) ==
    IsTerminal(tasks[t]) =>
        tasks'[t] = NoTask \/ Outcome(tasks'[t]) = Outcome(tasks[t])

LEMMA KeptFinal ==
    ASSUME NEW T, NEW E, NEW P, NEW W, NEW tombs, Persist(T, E, P, W, tombs),
           \A t \in Tasks : IsTerminal(tasks[t]) => Outcome(T[t]) = Outcome(tasks[t])
    PROVE  \A t \in Tasks : Final(t)
  <1>1. PICK retT, retE, retP, retW :
          SaveRetained(T, E, P, W, tombs, retT, retE, retP, retW)
    BY PersistShape
  <1>2. \A t \in Tasks : tasks'[t] = T[t] \/ tasks'[t] = NoTask
    BY <1>1 DEF SaveRetained
  <1> QED BY <1>2 DEF Final

(* A handler that writes only the record of a task that is not terminal.   *)
LEMMA OneTaskFinal ==
    ASSUME IInv, NEW t \in Tasks, ~IsTerminal(tasks[t]), NEW r, NEW E, NEW P, NEW W, NEW tombs,
           Persist([tasks EXCEPT ![t] = r], E, P, W, tombs)
    PROVE  \A u \in Tasks : Final(u)
  <1> DEFINE T == [tasks EXCEPT ![t] = r]
  <1>1. \A u \in Tasks : IsTerminal(tasks[u]) => T[u] = tasks[u]
    BY DEF IInv, MapsOK
  <1>2. Persist(T, E, P, W, tombs)
    OBVIOUS
  <1> HIDE DEF T
  <1> QED BY <1>1, <1>2, KeptFinal

LEMMA LiveNotTerminal ==
    \A r : IsLive(r) \/ IsHeld(r) \/ r.status \in {"none", "blocked", "queued", "claimed"}
          => ~IsTerminal(r)
  BY DEF IsLive, IsHeld, IsTerminal, LiveStatus, HeldStatus, TerminalStatus

LEMMA CancelFinal ==
    ASSUME IInv, NEW root \in Tasks, NEW S, NEW T, NEW tombs,
           CancelMembers(root, T, S, tombs),
           \A c \in S : ~IsTerminal(tasks[c]),
           \A c \in Tasks : IsTerminal(tasks[c]) => T[c] = tasks[c]
    PROVE  \A u \in Tasks : Final(u)
  <1> DEFINE C == CancelRecords(T, root, S)
  <1>1. PICK E : Persist(C, E, proposals, workers, tombs)
    BY DEF CancelMembers
  <1>2. \A u \in Tasks : IsTerminal(tasks[u]) => C[u] = tasks[u]
    BY DEF CancelRecords
  <1> HIDE DEF C
  <1> QED BY <1>1, <1>2, KeptFinal

LEMMA WorkerFinal ==
    ASSUME IInv, WorkerNext
    PROVE  \A u \in Tasks : Final(u)
  <1>1. ASSUME NEW w \in Workers, RegisterWorker(w) \/ HeartbeatWorker(w)
        PROVE  \A u \in Tasks : Final(u)
    <2>1. CASE UNCHANGED tasks
      BY <2>1 DEF Final
    <2>2. CASE \E W : Persist(tasks, exchanges, proposals, W, tombstones)
      BY <2>2, KeptFinal
    <2> QED BY <1>1, <2>1, <2>2 DEF RegisterWorker, HeartbeatWorker
  <1>2. ASSUME NEW w \in Workers, NEW t \in Tasks,
               \/ ClaimTask(t, w) \/ StartTask(t, w) \/ HeartbeatTask(t, w)
               \/ CompleteTask(t, w) \/ FailTask(t, w)
        PROVE  \A u \in Tasks : Final(u)
    <2>1. ~IsTerminal(tasks[t])
      BY <1>2, LiveNotTerminal DEF ClaimTask, StartTask, HeartbeatTask, CompleteTask, FailTask
    <2>2. \E r, E, P : Persist([tasks EXCEPT ![t] = r], E, P, workers, tombstones)
      <3>1. CASE HeartbeatTask(t, w)
        <4>1. [tasks EXCEPT ![t].fresh = TRUE] = [tasks EXCEPT ![t] = [tasks[t] EXCEPT !.fresh = TRUE]]
          BY DEF IInv, MapsOK
        <4> QED BY <3>1, <4>1 DEF HeartbeatTask, PersistTasks
      <3>2. CASE ClaimTask(t, w) \/ StartTask(t, w) \/ FailTask(t, w)
        BY <3>2 DEF ClaimTask, StartTask, FailTask, UpdateTask, PersistTasks
      <3>3. CASE CompleteTask(t, w)
        BY <3>3 DEF CompleteTask
      <3> QED BY <1>2, <3>1, <3>2, <3>3
    <2> QED BY <2>1, <2>2, OneTaskFinal
  <1> QED BY <1>1, <1>2 DEF WorkerNext

LEMMA RequestFinal ==
    ASSUME IInv, RequestNext
    PROVE  \A u \in Tasks : Final(u)
  <1>1. PICK t \in Tasks :
          \/ CreateTask(t) \/ UpdateTaskPayload(t) \/ PlanAcceptedTaskWake(t)
          \/ RecordTaskWakeDecision(t) \/ CancelTask(t)
    BY DEF RequestNext
  <1>2. CASE CreateTask(t)
    <2>1. PICK r, E : Persist([tasks EXCEPT ![t] = r], E, proposals, workers, tombstones)
      <3>1. PICK parent \in Parents, e \in Opt(Exchanges), intent \in Intents,
                 p \in Opt(Proposals), target \in Workers, assigned \in Workers,
                 flagged \in Flags, ask \in Asks :
                 LET r == NewTask(parent, e, intent, p, target, assigned, flagged, ask)
                 IN PersistTasks([tasks EXCEPT ![t] = r], LinkExchange(t, r))
        BY <1>2 DEF CreateTask
      <3> QED BY <3>1 DEF PersistTasks
    <2> QED BY <1>2, <2>1, LiveNotTerminal, OneTaskFinal DEF CreateTask
  <1>3. CASE UpdateTaskPayload(t) \/ PlanAcceptedTaskWake(t) \/ RecordTaskWakeDecision(t)
    <2>1. PICK r : /\ Persist([tasks EXCEPT ![t] = r], exchanges, proposals, workers, tombstones)
                   /\ IsTerminal(tasks[t]) => Outcome(r) = Outcome(tasks[t])
      <3>1. CASE UpdateTaskPayload(t)
        BY <3>1 DEF UpdateTaskPayload, PersistTasks, Touched
      <3>2. CASE PlanAcceptedTaskWake(t)
        BY <3>2, LiveNotTerminal DEF PlanAcceptedTaskWake, PersistTasks
      <3>3. CASE RecordTaskWakeDecision(t)
        <4> DEFINE r == [Touched(tasks[t]) EXCEPT !.wake = "decided"]
        <4>1. Persist([tasks EXCEPT ![t] = r], exchanges, proposals, workers, tombstones)
          BY <3>3 DEF RecordTaskWakeDecision, PersistTasks, IInv, MapsOK
        <4>2. ASSUME IsTerminal(tasks[t]) PROVE Outcome(r) = Outcome(tasks[t])
          <5>1. r = [tasks[t] EXCEPT !.wake = "decided"]
            BY <4>2 DEF Touched
          <5>2. tasks[t] \in Task
            BY DEF IInv, MapsOK
          <5> HIDE DEF r
          <5> QED BY <5>1, <5>2 DEF Outcome, Task
        <4> QED BY <4>1, <4>2
      <3> QED BY <1>3, <3>1, <3>2, <3>3
    <2> DEFINE T == [tasks EXCEPT ![t] = r]
    <2>2. \A u \in Tasks : IsTerminal(tasks[u]) => Outcome(T[u]) = Outcome(tasks[u])
      BY <2>1 DEF IInv, MapsOK
    <2>3. Persist(T, exchanges, proposals, workers, tombstones)
      BY <2>1
    <2> HIDE DEF T
    <2> QED BY <2>2, <2>3, KeptFinal
  <1>4. CASE CancelTask(t)
    <2>1. \A c \in CancelTree(t) : ~IsTerminal(tasks[c])
      BY <1>4, CancelTreeLive, LiveNotTerminal DEF CancelTask
    <2>2. PICK tombs : CancelMembers(t, tasks, CancelTree(t), tombs)
      BY <1>4 DEF CancelTask
    <2> QED BY <2>1, <2>2, CancelFinal
  <1> QED BY <1>1, <1>2, <1>3, <1>4

LEMMA SweepFinal ==
    ASSUME IInv, NEW threshold, RequeueStaleTasks(threshold)
    PROVE  \A u \in Tasks : Final(u)
  <1> DEFINE S == {t \in Tasks : RequeueReason(tasks[t], threshold)}
             T == [t \in Tasks |-> IF t \in S THEN Swept(tasks[t]) ELSE tasks[t]]
  <1>1. PICK E, tombs : Persist(T, E, proposals, workers, tombs)
    BY DEF RequeueStaleTasks
  <1>2. \A u \in Tasks : IsTerminal(tasks[u]) => T[u] = tasks[u]
    BY LiveNotTerminal DEF RequeueReason
  <1> HIDE DEF T
  <1> QED BY <1>1, <1>2, KeptFinal

LEMMA OperatorFinal ==
    ASSUME IInv, OperatorNext
    PROVE  \A u \in Tasks : Final(u)
  <1>1. ASSUME NEW t \in Tasks, ReassignTask(t) \/ ApproveTask(t)
        PROVE  \A u \in Tasks : Final(u)
    <2>1. \E r, E : Persist([tasks EXCEPT ![t] = r], E, proposals, workers, tombstones)
      BY <1>1 DEF ReassignTask, ApproveTask, UpdateTask, PersistTasks
    <2>2. ~IsTerminal(tasks[t])
      BY <1>1, LiveNotTerminal DEF ReassignTask, ApproveTask
    <2> QED BY <2>1, <2>2, OneTaskFinal
  <1>2. ASSUME NEW t \in Tasks, RejectTaskApproval(t)
        PROVE  \A u \in Tasks : Final(u)
    <2> DEFINE T == [tasks EXCEPT ![t].outcome = "refused"]
    <2>1. ~IsTerminal(tasks[t])
      BY <1>2, LiveNotTerminal DEF RejectTaskApproval
    <2>2. \A c \in CancelTree(t) : ~IsTerminal(tasks[c])
      BY <2>1, CancelTreeLive, LiveNotTerminal
    <2>3. \A c \in Tasks : IsTerminal(tasks[c]) => T[c] = tasks[c]
      BY <2>1 DEF IInv, MapsOK
    <2>4. PICK tombs : CancelMembers(t, T, CancelTree(t), tombs)
      BY <1>2 DEF RejectTaskApproval
    <2> HIDE DEF T
    <2> QED BY <2>2, <2>3, <2>4, CancelFinal
  <1> QED BY <1>1, <1>2, SweepFinal DEF OperatorNext

LEMMA ExchangeFinal ==
    ASSUME IInv, ExchangeNext
    PROVE  \A u \in Tasks : Final(u)
  <1>1. ASSUME NEW e \in Exchanges, StartExchange(e) PROVE \A u \in Tasks : Final(u)
    BY <1>1, KeptFinal DEF StartExchange
  <1>2. ASSUME NEW e \in Exchanges, NEW x, NEW s, EnsureExchangeTask(e, x, s)
        PROVE  \A u \in Tasks : Final(u)
    <2>1. \E t, r, E : /\ ~IsTerminal(tasks[t])
                       /\ Persist([tasks EXCEPT ![t] = r], E, proposals, workers, tombstones)
      BY <1>2, LiveNotTerminal DEF EnsureExchangeTask, ReusesTask, PersistTasks
    <2>2. PICK t, r, E : /\ ~IsTerminal(tasks[t])
                         /\ Persist([tasks EXCEPT ![t] = r], E, proposals, workers, tombstones)
      BY <2>1
    <2> DEFINE T == [tasks EXCEPT ![t] = r]
    <2>3. \A u \in Tasks : IsTerminal(tasks[u]) => T[u] = tasks[u]
      BY <2>2 DEF IInv, MapsOK
    <2>4. Persist(T, E, proposals, workers, tombstones)
      BY <2>2
    <2> HIDE DEF T
    <2> QED BY <2>3, <2>4, KeptFinal
  <1>3. ASSUME NEW e \in Exchanges, NEW x, NEW s, CancelActiveExchangeTask(e, x, s)
        PROVE  \A u \in Tasks : Final(u)
    <2> DEFINE S == IF ReusesTask(x) THEN {x.active} ELSE {}
               C == CancelRecords(tasks, x.active, S)
    <2>1. PICK E, tombs : Persist(C, E, proposals, workers, tombs)
      BY <1>3 DEF CancelActiveExchangeTask
    <2>2. \A c \in S : ~IsTerminal(tasks[c])
      BY LiveNotTerminal DEF ReusesTask
    <2> HIDE DEF S
    <2>3. \A u \in Tasks : IsTerminal(tasks[u]) => C[u] = tasks[u]
      BY <2>2 DEF CancelRecords
    <2> HIDE DEF C
    <2> QED BY <2>1, <2>3, KeptFinal
  <1>4. ASSUME NEW e \in Exchanges, AddExchangeMessage(e) PROVE \A u \in Tasks : Final(u)
    <2>1. \/ \E x, s : EnsureExchangeTask(e, x, s)
          \/ \E x, s : CancelActiveExchangeTask(e, x, s)
          \/ UNCHANGED tasks
      BY <1>4 DEF AddExchangeMessage
    <2> QED BY <1>2, <1>3, <2>1 DEF Final
  <1> QED BY <1>1, <1>4 DEF ExchangeNext

LEMMA RestFinal ==
    ASSUME IInv, ProposalNext \/ ClockNext \/ CrashNext
    PROVE  \A u \in Tasks : Final(u)
  <1>1. CASE ProposalNext
    <2>1. PICK P : Persist(tasks, exchanges, P, workers, tombstones)
      BY <1>1 DEF ProposalNext, CreateProposal, AttachArtifact, SubmitValidationResult,
                  ApproveProposal, RejectProposal, ApplyProposalLocally, SetProposal
    <2> QED BY <2>1, KeptFinal
  <1>2. CASE ClockNext
    <2>1. CASE UNCHANGED tasks
      BY <2>1 DEF Final
    <2>2. ASSUME NEW t \in Tasks, TaskAges(t), NEW u \in Tasks PROVE Final(u)
      <3>1. tasks \in [Tasks -> Task] /\ tasks[u] \in Task
        BY DEF IInv, MapsOK
      <3>2. tasks'[u] = tasks[u] \/ tasks'[u] = [tasks[u] EXCEPT !.fresh = FALSE]
        BY <2>2, <3>1 DEF TaskAges
      <3>3. Outcome([tasks[u] EXCEPT !.fresh = FALSE]) = Outcome(tasks[u])
        BY <3>1 DEF Outcome, Task
      <3> QED BY <3>2, <3>3 DEF Final
    <2> QED BY <1>2, <2>1, <2>2 DEF ClockNext, WorkerAges, ExchangeAges, ProposalAges
  <1>3. CASE Restart
    BY <1>3, KeptFinal DEF Restart
  <1>4. ASSUME NEW t \in Tasks, CrashDuringCancel(t) PROVE \A u \in Tasks : Final(u)
    <2>1. PICK S, tombs : S \in SUBSET CancelTree(t) /\ CancelMembers(t, tasks, S, tombs)
      BY <1>4 DEF CrashDuringCancel
    <2>2. \A c \in S : ~IsTerminal(tasks[c])
      BY <1>4, <2>1, CancelTreeLive, LiveNotTerminal DEF CrashDuringCancel
    <2> QED BY <2>1, <2>2, CancelFinal
  <1> QED BY <1>1, <1>2, <1>3, <1>4 DEF CrashNext

(* docs/protocol-compatibility.md calls terminal tasks immutable: no step  *)
(* of any actor, and no crash, changes how a finished task ended.          *)
THEOREM TerminalIsFinalHolds == Spec => TerminalIsFinal
  <1>1. ASSUME IInv, [Next]_vars
        PROVE  [\A t \in Tasks : IsTerminal(tasks[t]) =>
                  tasks'[t] = NoTask \/ Outcome(tasks'[t]) = Outcome(tasks[t])]_vars
    <2>1. CASE UNCHANGED vars
      BY <2>1
    <2>2. CASE Next
      <3>1. \A u \in Tasks : Final(u)
        BY <1>1, <2>2, WorkerFinal, RequestFinal, OperatorFinal, ExchangeFinal, SweepFinal,
           RestFinal DEF Next, StaleReaperSweep
      <3> QED BY <3>1 DEF Final
    <2> QED BY <1>1, <2>1, <2>2
  <1> QED BY <1>1, IInvHolds, PTL DEF Spec, TerminalIsFinal
=============================================================================
