------------------------- MODULE LifecycleManagers --------------------------
(***************************************************************************)
(* The in-memory lifecycle managers of src/core: ExecutionManager,         *)
(* DeliveryManager, ProposalManager, WakeAuditManager, ConferenceRoom-     *)
(* Manager, and the handoff RecoveryLedger.  They share no state; each is  *)
(* a map of records with a transition table, and all but the ledger write  *)
(* their events to a CursorEventBuffer that a reader follows by cursor.    *)
(* `mgr' says which manager a behavior is about, so one specification      *)
(* covers them all without multiplying their states.                       *)
(*                                                                         *)
(* A record's status names the event its transition emits (statusToEvent-  *)
(* Kind is one to one).  Timestamps, names and free text are left out; a   *)
(* failure code is "none", a code of the manager, or "other".              *)
(***************************************************************************)
EXTENDS Integers, Sequences, FiniteSetsExt

CONSTANTS
  Managers,     \* the managers to consider
  MaxIds,       \* records of a manager: ids are 1..MaxIds[mgr]
  MaxEvents,    \* events a CursorEventBuffer retains
  MaxEventId,   \* bound on the ids the buffer of a manager allocates
  PageLimits,   \* page sizes a reader asks for
  RetryLimits,  \* maxRetries a delivery may be registered with
  Nodes,        \* nodes a task is handed between
  Origin,       \* the node that hands it on first
  Troubles,     \* what a handoff meets: "none", "receiver_unreachable", "sender_crash"
  HopLimits     \* maxHops a handoff may be created with

\* Every manager replaces a maxEvents that is not positive by its default.
ASSUME LifecycleAssumption ==
  /\ Managers \subseteq {"execution", "delivery", "proposal", "wake", "conference", "handoff"}
  /\ MaxIds \in [Managers -> Nat \ {0}] /\ MaxEventId \in [Managers -> Nat]
  /\ MaxEvents \in Nat \ {0}
  /\ PageLimits \cup RetryLimits \cup HopLimits \subseteq Nat

VARIABLES
  mgr,      \* the manager
  recs,     \* its records
  log,      \* CursorEventBuffer.events
  nextId,   \* CursorEventBuffer.nextId
  cursor,   \* the reader's last event id
  readN,    \* history: events the reader was given
  lostN,    \* history: events evicted before the reader asked for them
  effects,  \* history: per record, the work it set off
  grants    \* history: per record, the permissions it was given

lmVars == <<mgr, recs, log, nextId, cursor, readN, lostN, effects, grants>>

NoRec == [status |-> "absent"]
Ids == 1..MaxIds[mgr]
Exists(i) == recs[i] # NoRec
\* The idFactory's next id.
Fresh(i) == ~Exists(i) /\ \A j \in 1..(i - 1) : Exists(j)

----------------------------------------------------------------------------
(* CursorEventBuffer *)

Push(events, e) ==
  LET all == Append(events, e)
  IN  SubSeq(all, IF Len(all) > MaxEvents THEN Len(all) - MaxEvents + 1 ELSE 1,
             Len(all))

\* Mutant: the event of the cursor itself is read again.
SubscribeFrom(afterId, limit) ==
  {k \in DOMAIN log : /\ log[k].id >= afterId
                      /\ LET before == {j \in 1..(k - 1) : log[j].id >= afterId}
                         IN  before = {} \/ Cardinality(before) < limit}

\* The places of the events that subscribe returns: the first is taken before
\* the limit is looked at.
Subscribe(afterId, limit) ==
  {k \in DOMAIN log : /\ log[k].id > afterId
                      /\ LET before == {j \in 1..(k - 1) : log[j].id > afterId}
                         IN  before = {} \/ Cardinality(before) < limit}

\* The events that fall out of the buffer before the reader asks for them.
Unread(before, after) ==
  {k \in DOMAIN before : /\ before[k].id > cursor
                         /\ \A j \in DOMAIN after : after[j] # before[k]}

\* allocateId and push: one event about record i; what falls out unread is lost.
Emit(i, kind) ==
  LET kept == Push(log, [id |-> nextId + 1, of |-> i, kind |-> kind])
  IN  /\ nextId < MaxEventId[mgr]
      /\ nextId' = nextId + 1
      /\ log' = kept
      /\ lostN' = lostN + Cardinality(Unread(log, kept))
      /\ UNCHANGED <<cursor, readN>>

\* A reader asks for the events after its cursor.
Read(limit) ==
  LET page == Subscribe(cursor, limit)
  IN  /\ page # {}
      /\ cursor' = log[Max(page)].id
      /\ readN' = readN + Cardinality(page)
      /\ UNCHANGED <<mgr, recs, log, nextId, lostN, effects, grants>>

----------------------------------------------------------------------------
(* The transition tables and the transition every manager makes: refuse a  *)
(* move the table does not have, else set the status and emit its event.   *)

ExecutionMoves ==
  [wake_requested    |-> {"session_ready", "failed", "timeout", "cancelled"},
   session_ready     |-> {"payload_delivered", "failed", "timeout", "cancelled"},
   payload_delivered |-> {"running", "failed", "timeout", "cancelled"},
   running           |-> {"result_reported", "failed", "timeout", "cancelled"},
   result_reported   |-> {}, cancelled |-> {},
   failed            |-> {"wake_requested", "session_ready"},
   timeout           |-> {"wake_requested", "session_ready", "cancelled"}]

DeliveryMoves ==
  [result_ready     |-> {"delivery_pending", "failed", "timed_out"},
   delivery_pending |-> {"delivering", "retrying", "failed", "timed_out"},
   delivering       |-> {"delivered", "failed", "timed_out"},
   delivered        |-> {"acked", "timed_out"},
   acked            |-> {},
   failed           |-> {"retrying", "timed_out"},
   retrying         |-> {"delivery_pending", "failed", "timed_out"},
   timed_out        |-> {"retrying"}]

ProposalMoves ==
  [proposed |-> {"blocked", "approved", "rejected"},
   blocked  |-> {"approved", "rejected"},
   approved |-> {"applying", "rejected"},
   applying |-> {"applied", "failed"},
   failed   |-> {"approved", "rejected"},
   rejected |-> {}, applied |-> {}]

WakeMoves ==
  [requested   |-> {"accepted", "failed", "unreachable", "duplicate_suppressed"},
   accepted    |-> {"resumed", "launched", "failed", "unreachable"},
   resumed     |-> {"replied", "failed"},
   launched    |-> {"replied", "failed"},
   failed      |-> {"requested", "accepted"},
   unreachable |-> {"requested", "accepted"},
   replied     |-> {}, duplicate_suppressed |-> {}]

ConferenceMoves ==
  [invited  |-> {"joined", "blocked", "left"},
   joined   |-> {"speaking", "blocked", "left", "done"},
   speaking |-> {"blocked", "left", "done"},
   blocked  |-> {}, left |-> {}, done |-> {}]

HandoffMoves ==
  [initiated    |-> {"dispatched", "failed", "canceled"},
   dispatched   |-> {"acknowledged", "completed", "failed", "timed_out", "canceled"},
   acknowledged |-> {"completed", "failed", "timed_out", "canceled"},
   completed    |-> {}, failed |-> {}, timed_out |-> {}, canceled |-> {}]

Transition(i, moves, to, new) ==
  /\ Exists(i)
  /\ to \in moves[recs[i].status]
  /\ recs' = [recs EXCEPT ![i] = [new EXCEPT !.status = to]]
  /\ Emit(i, to)
  /\ UNCHANGED mgr

Create(i, new) ==
  /\ recs' = [recs EXCEPT ![i] = new]
  /\ Emit(i, new.status)
  /\ UNCHANGED mgr

Unmoved == UNCHANGED <<effects, grants>>
Granted(i) == grants' = [grants EXCEPT ![i] = @ + 1] /\ UNCHANGED effects
Effected(i) == effects' = [effects EXCEPT ![i] = @ + 1] /\ UNCHANGED grants

----------------------------------------------------------------------------
(* ExecutionManager *)

NewRun(attempts) ==
  [status |-> "wake_requested", delivered |-> FALSE, attempts |-> attempts,
   failure |-> "none"]

RequestExecution(i) ==
  /\ mgr = "execution" /\ Fresh(i)
  /\ Create(i, NewRun(1)) /\ Granted(i)

SessionReady(i) ==
  /\ mgr = "execution"
  /\ Transition(i, ExecutionMoves, "session_ready", recs[i]) /\ Unmoved

\* Mutant: a run that is revived delivers its payload again.
DeliverPayloadAgain(i) ==
  /\ mgr = "execution" /\ Exists(i)
  /\ Transition(i, ExecutionMoves, "payload_delivered", [recs[i] EXCEPT !.delivered = TRUE])
  /\ Effected(i)

\* A payload delivered before is not delivered again, whatever the status.
DeliverPayload(i) ==
  /\ mgr = "execution" /\ Exists(i) /\ ~recs[i].delivered
  /\ Transition(i, ExecutionMoves, "payload_delivered", [recs[i] EXCEPT !.delivered = TRUE])
  /\ Effected(i)

StartRunning(i) ==
  /\ mgr = "execution"
  /\ Transition(i, ExecutionMoves, "running", recs[i]) /\ Unmoved

ReportResult(i) ==
  /\ mgr = "execution"
  /\ Transition(i, ExecutionMoves, "result_reported", recs[i]) /\ Unmoved

ExecutionFailureCode ==
  [failed |-> "other", timeout |-> "execution_timeout",
   cancelled |-> "cancelled_by_operator"]

\* failExecution, timeoutExecution and cancelExecution.
EndExecution(i, to) ==
  /\ mgr = "execution" /\ Exists(i)
  /\ Transition(i, ExecutionMoves, to,
                [recs[i] EXCEPT !.failure = ExecutionFailureCode[to]])
  /\ Unmoved

\* The failed run stays; the retry is a run of its own.
RetryExecution(i, j) ==
  /\ mgr = "execution" /\ Exists(i) /\ recs[i].status \in {"failed", "timeout"}
  /\ Fresh(j)
  /\ Create(j, NewRun(recs[i].attempts + 1)) /\ Granted(j)

----------------------------------------------------------------------------
(* DeliveryManager; a delivery is known by its run (runIndex). *)

RegisterDelivery(i, limit) ==
  /\ mgr = "delivery"
  /\ IF Exists(i)
     THEN /\ recs' = [recs EXCEPT ![i].duplicate = TRUE]
          /\ UNCHANGED <<mgr, log, nextId, cursor, readN, lostN>> /\ Unmoved
     ELSE /\ Create(i, [status |-> "result_ready", attempt |-> 1, maxRetries |-> limit,
                        failure |-> "none", duplicate |-> FALSE])
          /\ Granted(i)

QueueDelivery(i) ==
  /\ mgr = "delivery"
  /\ Transition(i, DeliveryMoves, "delivery_pending", recs[i]) /\ Unmoved

StartDelivery(i) ==
  /\ mgr = "delivery"
  /\ Transition(i, DeliveryMoves, "delivering", recs[i]) /\ Effected(i)

MarkDelivered(i) ==
  /\ mgr = "delivery"
  /\ Transition(i, DeliveryMoves, "delivered", recs[i]) /\ Unmoved

AcknowledgeDelivery(i) ==
  /\ mgr = "delivery"
  /\ Transition(i, DeliveryMoves, "acked", recs[i]) /\ Unmoved

\* failDelivery and timeoutDelivery.
EndDelivery(i, to) ==
  /\ mgr = "delivery" /\ Exists(i)
  /\ Transition(i, DeliveryMoves, to, [recs[i] EXCEPT !.failure = "other"]) /\ Unmoved

\* An attempt past maxRetries turns a failed delivery into a timed out one; a
\* delivery that is already timed out has no such move, and the call throws.
RetryDelivery(i) ==
  /\ mgr = "delivery" /\ Exists(i) /\ recs[i].status \in {"failed", "timed_out"}
  /\ LET next == recs[i].attempt + 1
     IN  IF next > recs[i].maxRetries
         THEN /\ Transition(i, DeliveryMoves, "timed_out",
                            [recs[i] EXCEPT !.attempt = next,
                                            !.failure = "max_retries_exceeded"])
              /\ Unmoved
         ELSE /\ Transition(i, DeliveryMoves, "retrying",
                            [recs[i] EXCEPT !.attempt = next, !.failure = "none"])
              /\ Granted(i)

DeliveryCloseout(r) ==
  CASE r.duplicate /\ r.status = "result_ready" -> "duplicate_suppressed"
    [] r.status = "acked"     -> "acked"
    [] r.status = "delivered" -> "delivered_unacked"
    [] r.status = "timed_out" ->
         IF r.attempt > r.maxRetries THEN "max_retries_exceeded" ELSE "timed_out"
    [] r.status = "failed"    -> "failed"
    [] OTHER                  -> "pending"

----------------------------------------------------------------------------
(* ProposalManager; startApply and completeApply of a proposal already     *)
(* there return it unchanged.                                              *)

CreateManagedProposal(i) ==
  /\ mgr = "proposal" /\ Fresh(i)
  /\ Create(i, [status |-> "proposed", reason |-> "none", attempts |-> 0]) /\ Unmoved

\* block, approve and reject.
Decide(i, to) ==
  /\ mgr = "proposal" /\ Exists(i)
  /\ Transition(i, ProposalMoves, to,
                IF to = "blocked" THEN [recs[i] EXCEPT !.reason = "other"] ELSE recs[i])
  /\ IF to = "approved" THEN Granted(i) ELSE Unmoved

StartApply(i) ==
  /\ mgr = "proposal"
  /\ Transition(i, ProposalMoves, "applying", recs[i]) /\ Effected(i)

CompleteApply(i) ==
  /\ mgr = "proposal"
  /\ Transition(i, ProposalMoves, "applied", recs[i]) /\ Unmoved

FailApply(i) ==
  /\ mgr = "proposal" /\ Exists(i)
  /\ Transition(i, ProposalMoves, "failed",
                [recs[i] EXCEPT !.reason = "other", !.attempts = @ + 1])
  /\ Unmoved

----------------------------------------------------------------------------
(* WakeAuditManager; a record is a session. *)

IsWakeActive(s) == s \in {"requested", "accepted", "resumed", "launched"}

\* A request for a session that is being woken marks that wake as a duplicate.
RequestWake(i) ==
  /\ mgr = "wake"
  /\ IF Exists(i) /\ IsWakeActive(recs[i].status)
     THEN Create(i, [recs[i] EXCEPT !.status = "duplicate_suppressed"])
     ELSE Create(i, [status |-> "requested", failure |-> "none",
                     attempts |-> IF Exists(i) THEN recs[i].attempts + 1 ELSE 1])
  /\ Unmoved

AcceptWake(i) ==
  /\ mgr = "wake" /\ Transition(i, WakeMoves, "accepted", recs[i]) /\ Granted(i)

ResumeWake(i) ==
  /\ mgr = "wake" /\ Transition(i, WakeMoves, "resumed", recs[i]) /\ Effected(i)

\* launchWake emits its event a second time.
LaunchWake(i) ==
  /\ mgr = "wake" /\ Exists(i)
  /\ "launched" \in WakeMoves[recs[i].status]
  /\ nextId + 1 < MaxEventId[mgr]
  /\ recs' = [recs EXCEPT ![i].status = "launched"]
  /\ LET once  == Push(log, [id |-> nextId + 1, of |-> i, kind |-> "launched"])
         twice == Push(once, [id |-> nextId + 2, of |-> i, kind |-> "launched"])
     IN  /\ log' = twice
         /\ lostN' = lostN + Cardinality(Unread(log, once)) + Cardinality(Unread(once, twice))
  /\ nextId' = nextId + 2
  /\ UNCHANGED <<mgr, cursor, readN>> /\ Effected(i)

ReplyWake(i) ==
  /\ mgr = "wake" /\ Transition(i, WakeMoves, "replied", recs[i]) /\ Unmoved

\* failWake and markUnreachable.
EndWake(i, to) ==
  /\ mgr = "wake" /\ Exists(i)
  /\ Transition(i, WakeMoves, to,
       [recs[i] EXCEPT !.failure = IF to = "unreachable" THEN "peer_unreachable" ELSE "other"])
  /\ Unmoved

----------------------------------------------------------------------------
(* ConferenceRoomManager: record 1 is the room, the others are the nodes   *)
(* that may take part.  `index' is the room's index of emitted events,     *)
(* kept apart from the buffer, which answers a repeated call.              *)

Indexed(r, kind) == [r EXCEPT !.status = kind, !.index = @ \cup {kind}]

CreateRoom ==
  /\ mgr = "conference" /\ ~Exists(1)
  /\ Create(1, [status |-> "active", index |-> {"active"}]) /\ Effected(1)

RoomActive == Exists(1) /\ recs[1].status = "active"

Invite(i) ==
  /\ mgr = "conference" /\ i # 1 /\ RoomActive /\ ~Exists(i)
  /\ Create(i, [status |-> "invited", index |-> {"invited"}]) /\ Effected(i)

\* join, speak, block, leave and done; the status a participant already has is
\* answered from the index.
MoveParticipant(i, to) ==
  /\ mgr = "conference" /\ i # 1 /\ RoomActive /\ Exists(i)
  /\ recs[i].status # to
  /\ Transition(i, ConferenceMoves, to, Indexed(recs[i], to)) /\ Effected(i)

CloseRoom ==
  /\ mgr = "conference" /\ RoomActive
  /\ Create(1, Indexed(recs[1], "closed")) /\ Effected(1)

----------------------------------------------------------------------------
(* Handoffs and their RecoveryLedger.  A record remembers the handoff that *)
(* brought the task to its sender (prev).  The handoffs are those of one    *)
(* task; at most one of them is sealed in a behavior (a bound: seals of    *)
(* different handoffs do not touch each other).                            *)

ClassifyHandoff(why, trouble) ==
  CASE why = "again"                      -> "S4_duplicate"
    [] why = "retry"                      -> "S5_recovery"
    [] trouble = "receiver_unreachable"   -> "S2_receiver_unavailable"
    [] trouble = "sender_crash"           -> "S3_sender_crash"
    [] OTHER                              -> "S1_normal"

NormalizeHopPath(hopPath, sender, origin) ==
  LET given == IF hopPath = <<>> THEN <<origin>> ELSE hopPath
      from  == IF given[1] # origin THEN <<origin>> \o given ELSE given
  IN  IF from[Len(from)] # sender THEN Append(from, sender) ELSE from

\* The reason evaluateHandoffLoop refuses a dispatch for, "none" when it allows it.
LoopReason(path, sender, receiver, maxHops) ==
  CASE sender = receiver                      -> "same_sender_receiver"
    [] Len(path) > maxHops                    -> "max_hops_exceeded"
    [] \E k \in DOMAIN path : path[k] = receiver ->
         IF Len(path) > 1 /\ path[Len(path) - 1] = receiver
         THEN "direct_loop" ELSE "indirect_loop"
    [] OTHER                                  -> "none"

\* Why a handoff is made, after the handoff `of': its receiver hands the task on,
\* its sender retries it after a failure or sends it twice.
Follows(why, of) ==
  CASE why = "first" -> of = 0 /\ ~Exists(1)
    [] why = "hop"   -> Exists(of) /\ recs[of].status \in {"acknowledged", "completed"}
    [] why = "retry" -> Exists(of) /\ recs[of].status \in {"failed", "timed_out"}
    [] why = "again" -> Exists(of)

\* createHandoffRecord and RecoveryLedger.record, which applies the loop guard.
RecordHandoff(i, why, of, trouble, limit) ==
  LET sender   == CASE why = "first" -> Origin
                    [] why = "hop"   -> recs[of].receiver
                    [] OTHER         -> recs[of].sender
      hopPath  == IF why = "first" THEN <<>> ELSE recs[of].path
      origin   == IF hopPath = <<>> THEN sender ELSE hopPath[1]
      path     == NormalizeHopPath(hopPath, sender, origin)
      maxHops  == IF why = "first" THEN limit ELSE recs[of].maxHops
      prev     == CASE why = "first" -> 0 [] why = "hop" -> of [] OTHER -> recs[of].prev
  IN  /\ mgr = "handoff" /\ Fresh(i) /\ Follows(why, of)
      /\ \E receiver \in IF why = "again" THEN {recs[of].receiver} ELSE Nodes :
           LET reason == LoopReason(path, sender, receiver, maxHops)
           IN  /\ recs' = [recs EXCEPT ![i] =
                    [status   |-> IF reason = "none" THEN "initiated" ELSE "failed",
                     scenario |-> ClassifyHandoff(why, trouble), sender |-> sender,
                     receiver |-> receiver, path |-> path, prev |-> prev,
                     maxHops  |-> maxHops, entry |-> "none",
                     failure  |-> IF reason = "none" THEN "none" ELSE "handoff_loop_guard"]]
               /\ IF reason = "none" THEN Granted(i) ELSE Unmoved
      /\ UNCHANGED <<mgr, log, nextId, cursor, readN, lostN>>

FailureKinds(to) ==
  IF to = "failed" THEN {"receiver_rejected", "transport_error"} ELSE {"none"}

HandoffFailure(to, kind) ==
  CASE to = "failed"    -> kind
    [] to = "timed_out" -> "timeout"
    [] to = "canceled"  -> "policy_violation"
    [] OTHER            -> "none"

TransitionPhase(i, to, kind) ==
  /\ mgr = "handoff" /\ Exists(i)
  /\ to \in HandoffMoves[recs[i].status]
  /\ recs' = [recs EXCEPT ![i].status = to, ![i].failure = HandoffFailure(to, kind)]
  /\ UNCHANGED <<mgr, log, nextId, cursor, readN, lostN>>
  /\ IF to = "dispatched" THEN Effected(i) ELSE Unmoved

ComputeOutcome(h) ==
  CASE h.status = "completed" ->
         (CASE h.scenario = "S4_duplicate" -> "deduplicated"
            [] h.scenario = "S5_recovery"  -> "retried"
            [] OTHER                       -> "delivered")
    [] h.status = "timed_out" -> "timed_out"
    [] h.status = "failed" ->
         (CASE h.scenario = "S3_sender_crash" -> "partial"
            [] h.failure \in {"receiver_rejected", "receiver_unreachable"} -> "rejected"
            [] OTHER -> "failed")
    [] h.status = "canceled" -> "failed"
    [] OTHER -> "partial"

Seal(i) ==
  /\ mgr = "handoff" /\ Exists(i)
  /\ \A j \in Ids \ {i} : Exists(j) => recs[j].entry = "none"
  /\ recs' = [recs EXCEPT ![i].entry = ComputeOutcome(recs[i])]
  /\ UNCHANGED <<mgr, log, nextId, cursor, readN, lostN>> /\ Unmoved

----------------------------------------------------------------------------
(* The specification *)

LifecycleInit ==
  /\ mgr \in Managers
  /\ recs = [i \in Ids |-> NoRec]
  /\ log = <<>> /\ nextId = 0 /\ cursor = 0 /\ readN = 0 /\ lostN = 0
  /\ effects = [i \in Ids |-> 0] /\ grants = [i \in Ids |-> 0]

LifecycleNext ==
  \/ \E limit \in PageLimits : Read(limit)
  \/ \E i \in Ids :
       \/ RequestExecution(i) \/ SessionReady(i) \/ DeliverPayload(i)
       \/ StartRunning(i) \/ ReportResult(i)
       \/ \E to \in {"failed", "timeout", "cancelled"} : EndExecution(i, to)
       \/ \E j \in Ids : RetryExecution(i, j)
       \/ \E limit \in RetryLimits : RegisterDelivery(i, limit)
       \/ QueueDelivery(i) \/ StartDelivery(i) \/ MarkDelivered(i)
       \/ AcknowledgeDelivery(i) \/ RetryDelivery(i)
       \/ \E to \in {"failed", "timed_out"} : EndDelivery(i, to)
       \/ CreateManagedProposal(i) \/ StartApply(i) \/ CompleteApply(i) \/ FailApply(i)
       \/ \E to \in {"blocked", "approved", "rejected"} : Decide(i, to)
       \/ RequestWake(i) \/ AcceptWake(i) \/ ResumeWake(i) \/ LaunchWake(i) \/ ReplyWake(i)
       \/ \E to \in {"failed", "unreachable"} : EndWake(i, to)
       \/ Invite(i)
       \/ \E to \in {"joined", "speaking", "blocked", "left", "done"} : MoveParticipant(i, to)
       \/ \E limit \in HopLimits, trouble \in Troubles :
            RecordHandoff(i, "first", 0, trouble, limit)
       \/ \E why \in {"hop", "retry", "again"}, of \in Ids : \E trouble \in
            IF why = "hop" THEN Troubles ELSE {"none"} :
            RecordHandoff(i, why, of, trouble, 0)
       \/ \E to \in DOMAIN HandoffMoves : \E kind \in FailureKinds(to) :
            TransitionPhase(i, to, kind)
       \/ Seal(i)
  \/ CreateRoom \/ CloseRoom

LifecycleSpec == LifecycleInit /\ [][LifecycleNext]_lmVars

----------------------------------------------------------------------------
(* Properties *)

Moves == [execution |-> ExecutionMoves, delivery |-> DeliveryMoves,
          proposal |-> ProposalMoves, wake |-> WakeMoves,
          conference |-> ConferenceMoves, handoff |-> HandoffMoves]

\* A record's status is one of its manager's transition table, and a buffer holds
\* at most maxEvents events, with a cursor never ahead of the ids allocated.
LifecycleTypeOK ==
  /\ mgr \in Managers
  /\ \A i \in Ids : recs[i].status \in {"absent", "active", "closed"} \cup DOMAIN Moves[mgr]
  /\ Len(log) <= MaxEvents /\ nextId \in 0..MaxEventId[mgr] /\ cursor \in 0..nextId

\* The newest event a buffer retains about a record is that of the record's
\* status, and the buffer is in the order of its ids: a reader that follows the
\* events ends up with what the manager holds (transition, emitEvent).
LastEventTellsStatus ==
  \A k \in DOMAIN log :
    /\ \A j \in DOMAIN log : j < k => log[j].id < log[k].id
    /\ (\A j \in DOMAIN log : j > k => log[j].of # log[k].of)
         => recs[log[k].of].status = log[k].kind

\* Once its cursor has reached the retained events, a reader has been given each
\* event up to the cursor exactly once, except those evicted before it asked
\* (CursorEventBuffer.push and subscribe).
ReadOnceOrEvicted ==
  (log # <<>> /\ cursor >= log[1].id - 1) => readN + lostN = cursor

\* A record sets off no more work than it was given permission for: a run
\* delivers its payload once however often it fails and is revived, a delivery
\* is sent once per counted attempt, a proposal is applied once per approval, a
\* session runs once per accepted wake, a handoff is dispatched once, and a
\* conference room announces each status of a participant once.
EffectsGranted ==
  \A i \in Ids :
    IF mgr = "conference"
    THEN Exists(i) => effects[i] = Cardinality(recs[i].index)
    ELSE effects[i] <= grants[i]

\* A delivery is never sent more often than its maxRetries allows (once when it
\* is 0), and one that ran out of attempts stays timed out (retryDelivery).
SendsBounded ==
  mgr = "delivery" =>
    \A i \in Ids : Exists(i) =>
      LET r == recs[i]
      IN  /\ effects[i] <= IF r.maxRetries > 0 THEN r.maxRetries ELSE 1
          /\ r.failure = "max_retries_exceeded" =>
               DeliveryCloseout(r) = "max_retries_exceeded"

\* The hops that brought a task to where handoff i takes it, i included: the
\* least set that has i and with each handoff the one before it.
Lineage(i) ==
  LET made   == {h \in Ids : Exists(h)}
      chains == {H \in SUBSET made : i \in H /\ \A h \in H : recs[h].prev \in H \cup {0}}
  IN  {h \in made : \A H \in chains : h \in H}

\* The hops that brought a task to a node never visit a node twice, and are no
\* more than the handoff's maxHops: a dispatch back to a node of its path is
\* refused, over one or several hops (evaluateHandoffLoop).
LineageSimple ==
  mgr = "handoff" =>
    \A i \in Ids : Exists(i) /\ effects[i] > 0 =>
      LET hops == Lineage(i)
      IN  /\ \A h, k \in hops : recs[h].receiver = recs[k].receiver => h = k
          /\ Cardinality(hops) <= recs[i].maxHops
          /\ \A h, k \in hops : recs[h].prev = 0 => recs[h].sender # recs[k].receiver

\* A ledger entry says what became of the handoff, unless it was sealed before
\* the handoff ended, and then it says "partial" (seal, computeOutcome).
SealAgrees ==
  mgr = "handoff" =>
    \A i \in Ids : Exists(i) /\ recs[i].entry # "none" =>
      recs[i].entry \in {ComputeOutcome(recs[i]), "partial"}

\* No record sets off more work than it was permitted, over retries, revivals,
\* timeouts and hops (the parts name the permission of each manager).
EffectsBounded == EffectsGranted /\ SendsBounded /\ LineageSimple

\* What is written down about a record is what became of it: its status is one of
\* the manager's table, its last event tells that status, a reader of the bounded
\* buffer gets each event once, and the ledger's entry agrees.
RecordsTell ==
  LifecycleTypeOK /\ LastEventTellsStatus /\ ReadOnceOrEvicted /\ SealAgrees
=============================================================================
