---------------------------- MODULE EventStreams ----------------------------
(***************************************************************************)
(* The event streams of the broker's HTTP server and the buffers behind    *)
(* them.  Each behavior is about one stream (`stream'):                    *)
(*   "task"        GET /a2a/tasks/:id/events: emitTaskUpdate's per-task    *)
(*                 buffer and handleTaskEventStream;                       *)
(*   "operator"    GET /a2a/operator/events: publishOperatorEvents and     *)
(*                 handleOperatorEventStream;                              *)
(*   "assignment"  GET /a2a/workers/:id/assignment-events: TaskEventStream *)
(*                 and handleWorkerAssignmentEventStream.                  *)
(* Handlers run to completion on one event loop: a connect replays, sends  *)
(* its snapshot and subscribes in one step.  Clients disconnect at any     *)
(* time and reconnect with the id of the last event they were sent; a      *)
(* restart of the broker drops connections, buffers and sequence numbers,  *)
(* and keeps the tasks.  A task's record is a version number.              *)
(***************************************************************************)
EXTENDS Integers, Sequences, FiniteSets, FiniteSetsExt

CONSTANTS
  StreamKinds, \* the streams to consider
  Clients,     \* connections; a client of "assignment" is a worker
  Jobs,        \* tasks of the "assignment" stream
  Alerts,      \* alerts of the "operator" stream
  MaxBuffered, \* maxBufferedEventsPerTask, maxEvents, operator buffer limit
  MaxUpdates,  \* bound on the changes of a behavior
  MaxProcess   \* bound on the broker processes of a behavior

ASSUME StreamsAssumption == MaxBuffered \in Nat /\ IsFiniteSet(Alerts)

VARIABLES
  stream,   \* the stream
  process,  \* the broker process, counted by restarts
  changes,  \* changes so far: the task's version
  final,    \* the task of the "task" stream has ended
  lastSeq,  \* the last sequence number allocated in this process
  buffer,   \* buffered events, oldest first
  alerts,   \* what an alert scan finds now
  known,    \* operatorAlertsById
  jobs,     \* tasks: [status, worker, gen], gen counts entries into "queued"
  client    \* per client, the connection and what it was sent

esVars == <<stream, process, changes, final, lastSeq, buffer, alerts, known, jobs, client>>

NoId == -1

NewClient ==
  [on |-> FALSE,      \* connected: its listener is registered
   last |-> NoId,     \* Last-Event-ID
   of |-> 0,          \* the process that id is from
   view |-> 0,        \* the last version it was sent
   first |-> NoId,    \* the version it began with
   got |-> {},        \* versions (jobs for a worker) it was told as events
   excused |-> {},    \* versions no longer retained when it reconnected
   skips |-> FALSE]   \* an event whose id does not follow the last one

Trimmed(buf) ==
  SubSeq(buf, IF Len(buf) > MaxBuffered THEN Len(buf) - MaxBuffered + 1 ELSE 1, Len(buf))

\* The places of the buffered events after an id.
After(id) == {k \in DOMAIN buffer : buffer[k].seq > id}
Retained == {buffer[k].ver : k \in DOMAIN buffer}

----------------------------------------------------------------------------
(* The task stream *)

\* One event written to a client's response, which the last event closes.
Told(c, e) ==
  [c EXCEPT !.last = e.seq, !.of = process, !.view = e.ver, !.got = @ \cup {e.ver},
            !.on = @ /\ ~e.final]

\* Events are numbered and kept only once somebody has subscribed to the task.
EmitTaskUpdate(ver, ends) ==
  LET active == {c \in Clients : client[c].on}
      e      == [seq |-> lastSeq + 1, ver |-> ver, final |-> ends]
  IN  IF active = {} /\ buffer = <<>>
      THEN UNCHANGED <<lastSeq, buffer, client>>
      ELSE /\ lastSeq' = lastSeq + 1
           /\ buffer' = Trimmed(Append(buffer, e))
           /\ client' = [c \in Clients |-> IF c \in active THEN Told(client[c], e)
                                           ELSE client[c]]

TaskChanges(ends) ==
  /\ stream = "task" /\ ~final /\ changes < MaxUpdates
  /\ changes' = changes + 1
  /\ final' = ends
  /\ EmitTaskUpdate(changes + 1, ends)
  /\ UNCHANGED <<stream, process, alerts, known, jobs>>

\* Mutant: the snapshot is labelled with the number of the next event.
SnapshotSeqNext == Len(buffer) + 1

\* The number the snapshot is labelled with: how many events are buffered.
SnapshotSeq == Len(buffer)

ConnectToTask(c) ==
  LET me     == client[c]
      missed == IF me.last >= 0 THEN {buffer[k].ver : k \in After(me.last)} ELSE {}
      lost   == IF me.of = process THEN (1..changes) \ Retained ELSE 1..changes
  IN  /\ stream = "task" /\ ~me.on /\ changes > 0
      /\ client' = [client EXCEPT ![c] =
           [me EXCEPT !.on = ~final, !.last = SnapshotSeq, !.of = process, !.view = changes,
                      !.first = IF @ = NoId THEN changes ELSE @,
                      !.got = @ \cup missed, !.excused = @ \cup lost]]
      /\ UNCHANGED <<stream, process, changes, final, lastSeq, buffer, alerts, known, jobs>>

----------------------------------------------------------------------------
(* The operator stream *)

\* A listener sees the events of one publish in order.
NextInStream(c, from, to) ==
  IF to < from THEN c
  ELSE [c EXCEPT !.skips = @ \/ c.last # from - 1, !.last = to, !.of = process]

\* One summary update, then the alerts opened and resolved since the last publish.
PublishOperatorEvents(found) ==
  LET events == 1 + Cardinality(found \ known) + Cardinality(known \ found)
  IN  IF \A c \in Clients : ~client[c].on
      THEN UNCHANGED <<lastSeq, buffer, known, client>>
      ELSE /\ lastSeq' = lastSeq + events
           /\ buffer' = Trimmed(buffer \o [k \in 1..events |->
                                [seq |-> lastSeq + k, ver |-> changes + 1, final |-> FALSE]])
           /\ known' = found
           /\ client' = [c \in Clients |->
                IF client[c].on THEN NextInStream(client[c], lastSeq + 1, lastSeq + events) ELSE client[c]]

\* A saved change of the broker's state, after which the scan finds `found'.
StateChanges(found) ==
  /\ stream = "operator" /\ changes < MaxUpdates
  /\ changes' = changes + 1
  /\ alerts' = found
  /\ PublishOperatorEvents(found)
  /\ UNCHANGED <<stream, process, final, jobs>>

\* Time passes: an alert opens and nothing is saved, so nothing is published.
AlertOpens(a) ==
  /\ stream = "operator" /\ a \notin alerts
  /\ alerts' = alerts \cup {a}
  /\ UNCHANGED <<stream, process, changes, final, lastSeq, buffer, known, jobs, client>>

\* resolveOperatorReplayAfterSeq: NoId resets the client to a fresh snapshot.
ReplayAfterSeq(last) ==
  IF \/ last > lastSeq
     \/ buffer # <<>> /\ last < buffer[1].seq - 1
  THEN NoId ELSE last

ConnectToOperator(c) ==
  LET me     == client[c]
      from   == ReplayAfterSeq(me.last)
      missed == IF from = NoId THEN {} ELSE After(from)
      caught == IF missed = {} THEN me
                ELSE NextInStream(me, buffer[Min(missed)].seq, buffer[Max(missed)].seq)
  IN  /\ stream = "operator" /\ ~me.on
      /\ client' = [client EXCEPT ![c] = [caught EXCEPT !.on = TRUE, !.last = lastSeq,
                                                         !.of = process]]
      /\ UNCHANGED <<stream, process, changes, final, lastSeq, buffer, alerts, known, jobs>>

----------------------------------------------------------------------------
(* The broker-wide TaskEventStream and the worker assignment stream *)

Kinds == {"created", "approved", "reassigned", "requeued", "claimed", "succeeded"}

IsWorkerAssignmentEvent(status, kind) ==
  status = "queued" /\ kind \in {"created", "approved", "reassigned", "requeued"}

\* The changes of a task that the broker audits with a kind the stream knows.
JobMoves(kind, from) ==
  CASE kind = "created"    -> IF from = "none" THEN {"queued", "blocked"} ELSE {}
    [] kind = "approved"   -> IF from = "blocked" THEN {"queued"} ELSE {}
    [] kind = "reassigned" -> IF from \in {"queued", "claimed"} THEN {"queued"}
                              ELSE IF from = "blocked" THEN {"blocked"} ELSE {}
    [] kind = "requeued"   -> IF from = "claimed" THEN {"queued"} ELSE {}
    [] kind = "claimed"    -> IF from = "queued" THEN {"claimed"} ELSE {}
    [] kind = "succeeded"  -> IF from = "claimed" THEN {"succeeded"} ELSE {}

\* TaskEventStream.push, with the listener of each connected worker.
JobChanges(j, kind, to, worker) ==
  LET gen == jobs[j].gen + 1
      e   == [seq |-> lastSeq + 1, ver |-> <<j, gen>>, status |-> to, kind |-> kind, worker |-> worker]
  IN  /\ stream = "assignment" /\ changes < MaxUpdates
      /\ to \in JobMoves(kind, jobs[j].status)
      /\ kind \notin {"created", "reassigned"} => worker = jobs[j].worker
      /\ changes' = changes + 1
      /\ jobs' = [jobs EXCEPT ![j] = [status |-> to, worker |-> worker, gen |-> gen]]
      /\ lastSeq' = lastSeq + 1
      /\ buffer' = Trimmed(Append(buffer, e))
      /\ client' = [c \in Clients |->
           IF client[c].on /\ c = worker /\ IsWorkerAssignmentEvent(to, kind)
           THEN [client[c] EXCEPT !.last = lastSeq + 1, !.of = process, !.got = @ \cup {e.ver}]
           ELSE client[c]]
      /\ UNCHANGED <<stream, process, final, alerts, known>>

QueuedFor(c) == {<<j, jobs[j].gen>> : j \in {k \in Jobs :
                   jobs[k].status = "queued" /\ jobs[k].worker = c}}

\* The opening snapshot lists the queued tasks and carries no id; a client
\* without one is replayed everything retained.
ConnectAsWorker(c) ==
  LET me     == client[c]
      missed == {k \in After(me.last) : /\ buffer[k].worker = c
                                        /\ IsWorkerAssignmentEvent(buffer[k].status, buffer[k].kind)}
  IN  /\ stream = "assignment" /\ ~me.on
      /\ client' = [client EXCEPT ![c] =
           [me EXCEPT !.on = TRUE,
                      !.got = QueuedFor(c) \cup {buffer[k].ver : k \in missed},
                      !.last = IF missed = {} THEN @ ELSE buffer[Max(missed)].seq,
                      !.of = IF missed = {} THEN @ ELSE process]]
      /\ UNCHANGED <<stream, process, changes, final, lastSeq, buffer, alerts, known, jobs>>

----------------------------------------------------------------------------
Disconnect(c) ==
  /\ client[c].on
  /\ client' = [client EXCEPT ![c].on = FALSE]
  /\ UNCHANGED <<stream, process, changes, final, lastSeq, buffer, alerts, known, jobs>>

\* A new broker process: it scans the alerts once and starts with no listener.
RestartBroker ==
  /\ process < MaxProcess
  /\ process' = process + 1
  /\ lastSeq' = 0 /\ buffer' = <<>> /\ known' = alerts
  /\ client' = [c \in Clients |-> [client[c] EXCEPT !.on = FALSE]]
  /\ UNCHANGED <<stream, changes, final, alerts, jobs>>

StreamsInit ==
  /\ stream \in StreamKinds
  /\ process = 1 /\ changes = 0 /\ final = FALSE /\ lastSeq = 0 /\ buffer = <<>>
  /\ alerts = {} /\ known = {}
  /\ jobs = [j \in Jobs |-> [status |-> "none", worker |-> "none", gen |-> 0]]
  /\ client = [c \in Clients |-> NewClient]

StreamsNext ==
  \/ \E ends \in BOOLEAN : TaskChanges(ends)
  \/ \E found \in SUBSET Alerts : StateChanges(found)
  \/ \E a \in Alerts : AlertOpens(a)
  \/ \E j \in Jobs, kind \in Kinds, to \in {"queued", "blocked", "claimed", "succeeded"},
        worker \in Clients : JobChanges(j, kind, to, worker)
  \/ \E c \in Clients : ConnectToTask(c) \/ ConnectToOperator(c) \/ ConnectAsWorker(c)
                        \/ Disconnect(c)
  \/ RestartBroker

StreamsSpec == StreamsInit /\ [][StreamsNext]_esVars

----------------------------------------------------------------------------
\* A buffer never outgrows its limit, and no client has an id of a process that
\* is still to come (trim in emitTaskUpdate and publishOperatorEvents).
StreamsTypeOK ==
  /\ lastSeq \in Nat /\ Len(buffer) <= MaxBuffered
  /\ \A c \in Clients : client[c].last \in Nat \cup {NoId} /\ client[c].of <= process

\* A connected subscriber of a task has been sent the task as it is now, and a
\* task that has ended has no subscriber left: each was sent the end and its
\* response closed (emitTaskUpdate, handleTaskEventStream).
SubscribersInSync ==
  stream = "task" =>
    \A c \in Clients : client[c].on => client[c].view = changes /\ ~final

\* Over any number of reconnects to one process, a subscriber is told every
\* change since it first connected, except those no longer buffered when it came
\* back: the id of a snapshot is never ahead of what the snapshot shows.
NothingRetainedIsMissed ==
  stream = "task" =>
    \A c \in Clients : client[c].on =>
      (client[c].first + 1)..changes \subseteq client[c].got \cup client[c].excused

\* The ids an operator client is sent have no gaps: a reconnect replays all the
\* events it missed or none (resolveOperatorReplayAfterSeq).
OperatorReplayHasNoGap ==
  stream = "operator" => \A c \in Clients : ~client[c].skips

\* A connected worker has been told of every task that is queued for it, by the
\* opening snapshot or by an event, each time the task was queued again.
QueuedWorkIsAnnounced ==
  stream = "assignment" =>
    \A c \in Clients : client[c].on => QueuedFor(c) \subseteq client[c].got

\* Whichever stream it follows, a client that stays, or comes back with its last
\* id, is told everything the bounded buffers still hold, and is told that there
\* is a gap otherwise.
SubscribersMissNothing ==
  /\ StreamsTypeOK
  /\ SubscribersInSync /\ NothingRetainedIsMissed
  /\ OperatorReplayHasNoGap
  /\ QueuedWorkIsAnnounced
=============================================================================
