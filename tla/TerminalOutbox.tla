--------------------------- MODULE TerminalOutbox ---------------------------
(***************************************************************************)
(* The terminal task outbox (src/core/terminal-event-outbox.ts), the store *)
(* of cross-broker terminal briefs that feeds it                           *)
(* (src/core/cross-broker-terminal-brief.ts), and the external notifier    *)
(* that polls and acknowledges over HTTP (src/server.ts).  Every handler   *)
(* that changes a record saves it before it answers, so a restart finds    *)
(* events and records as they were and rebuilds what it does not save.     *)
(***************************************************************************)
EXTENDS Naturals, Sequences, SequencesExt

CONSTANTS
    Tasks,        \* tasks of this broker that will finish
    Lanes,        \* children that other brokers report on
    Rounds,       \* parent rounds
    None,         \* no round, no cursor, no acknowledgement
    RunOf,        \* the round of a task, or None
    RoundOf,      \* the parent round of a lane
    Origin,       \* the broker that reports on a lane
    Identity,     \* what its packets name: "child" (childTaskId or childWorkerId) or "order"
    MaxEvents,    \* maxTerminalTaskOutboxEvents
    Statuses,     \* terminal statuses in use
    Times,        \* completedAt values in use
    Evidences,    \* acknowledgement evidence in use
    Receipts,     \* receipt statuses that updates report
    Limits        \* limits of polls; a limit no shorter than the outbox is no limit

ASSUME OutboxAssumption ==
    /\ MaxEvents \in Nat \ {0}
    /\ None \notin Rounds
    /\ RunOf \in [Tasks -> Rounds \cup {None}] /\ RoundOf \in [Lanes -> Rounds]
    /\ Identity \in [Lanes -> {"child", "order"}]
    /\ Times \cup Limits \subseteq Nat

VARIABLES
    records,      \* lane -> the stored projection
    events,       \* the outbox, oldest first
    seenOrder,    \* ids enqueued lately (seen and seenOrder hold the same ids)
    counted,      \* succeededChildIds: round -> children counted as succeeded
    cursor,       \* the notifier's saved cursor
    held,         \* ids the notifier was handed and has not dealt with
    handed,       \* history: ids that any poll returned
    log,          \* history: what was ever enqueued
    boot          \* history: length of the log at the last start

vars == <<records, events, seenOrder, counted, cursor, held, handed, log, boot>>

MaxSeen == 2 * MaxEvents

(* What names a lane in the outbox: the child when the packet names it,    *)
(* else the reporting broker (canonicalChildTaskId, syntheticTaskId).      *)
Canonical(c) == IF Identity[c] = "child" THEN c ELSE Origin[c]

(* formatTerminalTaskEventId (a task finishes once, so its completedAt     *)
(* adds nothing) and the stable key of a projection, which leaves          *)
(* completedAt out; packets name this broker as broker of record.          *)
TaskEventId(t, status) == [source |-> "task", round |-> None, of |-> t, status |-> status]
ProjectionId(c, status) ==
    [source |-> "projection", round |-> RoundOf[c], of |-> Canonical(c), status |-> status]

EventId == UNION {{TaskEventId(t, s) : t \in Tasks} \cup {ProjectionId(c, s) : c \in Lanes}
                      : s \in Statuses}

Child    == Tasks \cup {Canonical(c) : c \in Lanes}
Evidence == {"current_session_visible", "operator_visible", "operator_confirmed",
             "provider_delivery_receipt"}
Receipt  == {"accepted", "started", "produced", "provider_sent", "provider_accepted",
             "current_session_visible", "operator_visible", "timed_out", "stale", "failed"}

Event == [id: EventId, run: Rounds \cup {None}, child: Child, status: Statuses,
          progress: Nat, ack: Evidence \cup {None}, receipt: Receipt,
          decision: {"pending", "eligible", "confirmed"}]

Record == [status: Statuses, at: Times, ack: {"accepted", "duplicate_replay"}]
NoRecord == [status |-> "none", at |-> 0, ack |-> "none"]

ASSUME NamesAssumption ==
    /\ None \notin EventId
    /\ Evidences \subseteq Evidence /\ Receipts \subseteq Receipt
    /\ IsFiniteSet(Child)

IdsOf(s) == {s[i].id : i \in DOMAIN s}

(* The types; the outbox and the list of ids seen stay within their limits *)
(* whatever is enqueued, evicted and restored (enqueue, enforceRetention). *)
TypeOK ==
    /\ records \in [Lanes -> Record \cup {NoRecord}]
    /\ events \in Seq(Event) /\ Len(events) <= MaxEvents
    /\ seenOrder \in Seq(EventId) /\ Len(seenOrder) <= MaxSeen
    /\ counted \in [Rounds -> SUBSET Child]
    /\ cursor \in EventId \cup {None}
    /\ held \subseteq EventId /\ handed \subseteq EventId

Init ==
    /\ records = [c \in Lanes |-> NoRecord]
    /\ events = <<>> /\ seenOrder = <<>>
    /\ counted = [r \in Rounds |-> {}]
    /\ cursor = None /\ held = {} /\ handed = {}
    /\ log = <<>> /\ boot = 0

-----------------------------------------------------------------------------
(* Enqueueing.                                                             *)

(* enforceRetention, and the same for markSeen: oldest out first.          *)
Newest(n, s) == SubSeq(s, IF Len(s) > n THEN Len(s) - n + 1 ELSE 1, Len(s))

(* Mutant: only the id enqueued last is remembered.                       *)
KnownSeen(id) == id \in Range(Newest(1, seenOrder))

Known(id) == id \in IdsOf(events) \/ id \in Range(seenOrder)

(* applyRoundProgressMetadata: only a success counts, each child once.     *)
Count(C, run, child, status) ==
    IF run # None /\ status = "succeeded" THEN [C EXCEPT ![run] = @ \cup {child}] ELSE C

Numerator(C, run) == IF run = None THEN 0 ELSE Cardinality(C[run])

(* buildTerminalTaskPayload, with the receipt state of a new event.        *)
(* Payload texts, titles and URLs are left out; so is a missing total,     *)
(* which hides the numerator.                                              *)
NewEvent(C, id, run, child, status) ==
    [id |-> id, run |-> run, child |-> child, status |-> status,
     progress |-> Numerator(C, run), ack |-> None,
     receipt |-> "accepted", decision |-> "pending"]

Enqueue(lane, id, run, child, status) ==
    IF Known(id) THEN UNCHANGED <<events, seenOrder, counted, log>>
    ELSE LET C == Count(counted, run, child, status)
             e == NewEvent(C, id, run, child, status)
         IN /\ counted' = C
            /\ events' = Newest(MaxEvents, Append(events, e))
            /\ seenOrder' = Newest(MaxSeen, Append(seenOrder, id))
            /\ log' = Append(log, [lane |-> lane, id |-> id, run |-> run,
                                   child |-> child, status |-> status])

(* appendAuditEvent of a terminal transition; the broker makes one per     *)
(* task (AnnouncedOnce in Broker).                                         *)
FinishTask(t, status) ==
    /\ \A i \in DOMAIN log : log[i].lane # t
    /\ Enqueue(t, TaskEventId(t, status), RunOf[t], t, status)
    /\ UNCHANGED <<records, cursor, held, handed, boot>>

(* ingest of a valid packet, through                                       *)
(* ingestCrossBrokerTerminalBriefProjection.  A repeated packet is counted *)
(* and not enqueued; one that is not newer than the record is rejected.    *)
Ingest(c, status, at) ==
    \/ /\ records[c].status = status /\ records[c].at = at
       /\ records' = [records EXCEPT ![c].ack = "duplicate_replay"]
       /\ UNCHANGED <<events, seenOrder, counted, log, cursor, held, handed, boot>>
    \/ /\ records[c] = NoRecord \/ at > records[c].at
       /\ records' = [records EXCEPT ![c] =
                         [status |-> status, at |-> at, ack |-> "accepted"]]
       /\ Enqueue(c, ProjectionId(c, status), RoundOf[c], Canonical(c), status)
       /\ UNCHANGED <<cursor, held, handed, boot>>

-----------------------------------------------------------------------------
(* Receipts.                                                               *)

(* An event is changed in place; ids are unique in the outbox.             *)
UpdateEvent(e) ==
    events' = [i \in DOMAIN events |-> IF events[i].id = e.id THEN e ELSE events[i]]

(* buildReceiptStateFromAck.                                               *)
ReceiptOfAck(evidence) ==
    CASE evidence = "provider_delivery_receipt" -> "provider_sent"
      [] evidence = "current_session_visible" -> "current_session_visible"
      [] OTHER -> "operator_visible"

(* ackAuditFromReceipt.                                                    *)
DecisionOf(receipt) ==
    IF receipt \in {"operator_visible", "current_session_visible"} THEN "eligible" ELSE "pending"

Confirmed(e) == e.ack # None

(* Mutant: a second acknowledgement replaces the first.                   *)
AckedAgain(e, evidence) ==
    [e EXCEPT !.ack = evidence, !.receipt = ReceiptOfAck(evidence), !.decision = "confirmed"]

Acked(e, evidence) ==
    IF Confirmed(e) THEN e
    ELSE [e EXCEPT !.ack = evidence, !.receipt = ReceiptOfAck(evidence),
                   !.decision = "confirmed"]

(* acknowledge, for an event the notifier holds; its answer may be lost,   *)
(* and then the notifier asks again.  The server rejects an acknowledgement *)
(* without evidence before it comes here.                                  *)
Acknowledge(id, evidence) ==
    /\ id \in held
    /\ \E i \in DOMAIN events :
           events[i].id = id /\ UpdateEvent(Acked(events[i], evidence))
    /\ held' \in {held, held \ {id}}
    /\ UNCHANGED <<records, seenOrder, counted, cursor, handed, log, boot>>

(* recordReceiptStatus looks at no acknowledgement.                        *)
RecordReceiptStatus(id, status) ==
    /\ \E i \in DOMAIN events :
           /\ events[i].id = id
           /\ UpdateEvent([events[i] EXCEPT !.receipt = status,
                                            !.decision = DecisionOf(status)])
    /\ UNCHANGED <<records, seenOrder, counted, cursor, held, handed, log, boot>>

-----------------------------------------------------------------------------
(* Polls: GET /a2a/tasks/terminal-outbox, with and without                 *)
(* reconcile_unacked.  The notifier saves the cursor it gets.              *)

(* indexOfId; 0 when the cursor is unset or unknown.                       *)
IndexOfId(id) == SelectInSeq(events, LAMBDA e : e.id = id)

(* A reply keeps the order of the outbox: it is the set of its places.     *)
(* applyLimit takes the first ones.                                        *)
ApplyLimit(I, limit) == {i \in I : Cardinality({j \in I : j < i}) < limit}

LastId(I, default) == IF I = {} THEN default ELSE events[Max(I)].id

After(i) == {j \in DOMAIN events : j > i}

(* Mutant: what lies before the cursor is done with.                      *)
ReplayForward(after) == After(after)

(* The replay of subscribeWithCursor: what lacks a confirmation up to the  *)
(* cursor, then everything after it.                                       *)
Replay(after) == After(after) \cup {i \in 1..after : ~Confirmed(events[i])}

(* Mutant: the cursor moves to the end of the outbox.                     *)
NextCursorEnd(after, reply) == LastId(DOMAIN events, cursor)

NextCursor(after, reply) ==
    IF after = 0 THEN LastId(reply, None)
    ELSE LastId({i \in reply : i > after}, cursor)

Handed(reply) ==
    LET ids == {events[i].id : i \in reply}
    IN /\ held' = held \cup ids
       /\ handed' = handed \cup ids
       /\ UNCHANGED <<records, events, seenOrder, counted, log, boot>>

Subscribe(limit) ==
    LET reply == ApplyLimit(After(IndexOfId(cursor)), limit)
    IN cursor' = LastId(reply, cursor) /\ Handed(reply)

SubscribeWithCursor(limit) ==
    LET after == IndexOfId(cursor)
        reply == ApplyLimit(Replay(after), limit)
    IN cursor' = NextCursor(after, reply) /\ Handed(reply)

(* The notifier loses what it holds; or it learns that an event is gone.   *)
NotifierCrash ==
    /\ held' = {}
    /\ UNCHANGED <<records, events, seenOrder, counted, cursor, handed, log, boot>>

AcknowledgeEvicted(id) ==
    /\ id \in held \ IdsOf(events)
    /\ held' = held \ {id}
    /\ UNCHANGED <<records, events, seenOrder, counted, cursor, handed, log, boot>>

-----------------------------------------------------------------------------
(* Restart: restoreSnapshot.  Of the ids enqueued lately only those of     *)
(* retained events are known afterwards, and the numerators are counted    *)
(* anew from them.                                                         *)

RebuildSucceededChildren ==
    [r \in Rounds |-> {events[i].child :
        i \in {j \in DOMAIN events : events[j].run = r /\ events[j].status = "succeeded"}}]

Restored(e) ==
    [e EXCEPT !.decision = IF Confirmed(e) THEN "confirmed" ELSE DecisionOf(e.receipt)]

Restart ==
    /\ events' = [i \in DOMAIN events |-> Restored(events[i])]
    /\ seenOrder' = [i \in DOMAIN events |-> events[i].id]
    /\ counted' = RebuildSucceededChildren
    /\ boot' = Len(log)
    /\ UNCHANGED <<records, cursor, held, handed, log>>

-----------------------------------------------------------------------------
EnqueueNext ==
    \/ \E t \in Tasks, s \in Statuses : FinishTask(t, s)
    \/ \E c \in Lanes, s \in Statuses, at \in Times : Ingest(c, s, at)

NotifierNext ==
    \/ \E limit \in Limits : Subscribe(limit) \/ SubscribeWithCursor(limit)
    \/ \E id \in held, evidence \in Evidences : Acknowledge(id, evidence)
    \/ \E id \in IdsOf(events), status \in Receipts : RecordReceiptStatus(id, status)
    \/ \E id \in held : AcknowledgeEvicted(id)
    \/ NotifierCrash

Next == EnqueueNext \/ NotifierNext \/ Restart

Spec == Init /\ [][Next]_vars

(* A notifier that keeps polling with reconcile_unacked and, as often as   *)
(* it is handed an event, at last confirms it.                             *)
ConfirmHeld(id) == \E evidence \in Evidences : Acknowledge(id, evidence)
FairSpec ==
    /\ Spec
    /\ WF_vars(\E limit \in Limits : SubscribeWithCursor(limit))
    /\ \A id \in EventId : SF_vars(ConfirmHeld(id))

-----------------------------------------------------------------------------
(* Safety.                                                                 *)

(* An id is enqueued a second time only when it has left the outbox, and   *)
(* since the last start only when it has also left the list of ids seen,   *)
(* whatever retries, evictions and restarts came in between.               *)
DedupeWindow ==
    \A i, j \in DOMAIN log : i < j /\ log[i].id = log[j].id =>
        /\ j - i > MaxEvents
        /\ i > boot => j - i > MaxSeen

(* The numerator of a round counts the children that were announced as     *)
(* succeeded, each once, also after restarts, as long as no event of the   *)
(* round was evicted.                                                      *)
Succeeded(r) == {log[i].child : i \in {j \in DOMAIN log :
                     log[j].run = r /\ log[j].status = "succeeded"}}
ProgressWhileRetained ==
    \A r \in Rounds :
        (\A i \in DOMAIN log : log[i].run = r => log[i].id \in IdsOf(events))
            => counted[r] = Succeeded(r)

(* The outbox at its limits, over retries, evictions and restarts: it stays *)
(* within them, announces nothing twice while it can know, and counts a     *)
(* round's successes (enqueue, enforceRetention, rebuildSucceededChildren). *)
OutboxInv == TypeOK /\ DedupeWindow /\ ProgressWhileRetained

(* The saved cursor never passes an event that no poll returned, whatever  *)
(* limits, evictions and kinds of poll were mixed, as long as nothing that *)
(* was handed out came back: an event that is evicted and enqueued anew    *)
(* after a restart takes a later place than the one the notifier reached   *)
(* (subscribe and subscribeWithCursor look up the cursor by its id), and   *)
(* then only polls with reconcile_unacked return what lies before it.      *)
HandedOnce == \A i, j \in DOMAIN log : log[i].id \in handed /\ log[i].id = log[j].id => i = j
CursorCovers == HandedOnce => \A i \in 1..IndexOfId(cursor) : events[i].id \in handed

(* A confirmation stands until the event is evicted: no second             *)
(* acknowledgement, late receipt or restart changes it.                    *)
AckSticky ==
    [][\A i \in DOMAIN events : Confirmed(events[i]) =>
          \/ events[i].id \notin IdsOf(events')
          \/ \E j \in DOMAIN events' : /\ events'[j].id = events[i].id
                                       /\ events'[j].ack = events[i].ack]_vars

(* Every brief is confirmed or evicted in the end, although the notifier   *)
(* saves its cursor before it delivers, may crash at any point, and polls  *)
(* with limits: cursor advancement alone hides nothing.                    *)
EveryBriefConfirmed ==
    \A id \in EventId :
        (id \in IdsOf(events)) ~>
            (IndexOfId(id) = 0 \/ Confirmed(events[IndexOfId(id)]))
=============================================================================
