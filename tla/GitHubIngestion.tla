--------------------------- MODULE GitHubIngestion ---------------------------
(***************************************************************************)
(* GitHub webhooks, and batches fetched by the bounded poller, turned into *)
(* broker tasks (github/ingestion.ts, github/webhook-parser.ts).           *)
(*                                                                         *)
(* One issue (or pull request) is followed: the service keeps all of its   *)
(* state per (repo, number) pair.  The broker is seen through the calls    *)
(* the service makes: getWorker, getTask, createTask, cancelTask (which    *)
(* cancels the tree) and completeTask.  The tasks survive a restart, the   *)
(* service's watermarks and its set of delivery ids do not.                *)
(*                                                                         *)
(* A body is a sequence of lines.  A line is a worker (an assign command   *)
(* that targets it), "bare" (an assign command without a target) or        *)
(* "prose".                                                                *)
(***************************************************************************)
EXTENDS Naturals, Sequences

CONSTANTS GitHubWorkers,    \* node ids a command may target
          Bodies,           \* the bodies of issues and comments
          MaxDeliveries,    \* bound: delivery ids are 1..MaxDeliveries, first used in order
          MaxClock,         \* bound: the clock stops there
          MaxGitHubCrashes  \* bound: restarts of the broker

VARIABLES ghTasks,    \* task id -> status, "none" before it is created
          ghKnown,    \* registered workers
          ghSeen,     \* seenDeliveries
          ghMark,     \* replayState.lastSeenAt, 0 without a replay state
          ghLife,     \* replayState.lifecycleWatermark, 0 when unset
          ghClock,
          ghNewest,   \* history: newest receivedAt accepted since the start
          ghAt,       \* history: receivedAt of the call this step made, or 0
          ghCrashes

Deliveries == 1..MaxDeliveries   \* X-GitHub-Delivery ids, and ids of polled batches

ghVars == <<ghTasks, ghKnown, ghSeen, ghMark, ghLife, ghClock, ghNewest, ghAt, ghCrashes>>

----------------------------------------------------------------------------
(* The events.                                                              *)

IssueEvents ==
    {[kind |-> "issue", action |-> "opened", body |-> b] : b \in Bodies}
    \cup {[kind |-> "issue", action |-> a, body |-> <<>>] : a \in {"closed", "reopened", "merged"}}

Comments == {[kind |-> "comment", action |-> "created", body |-> b] : b \in Bodies}

CommentEvents == Comments \cup {[kind |-> "comment", action |-> "deleted", body |-> <<>>]}

Events == IssueEvents \cup CommentEvents

(* parseAssignmentIntents: the lines that are commands with a target.       *)
ParseAssignmentIntents(body) == SelectSeq(body, LAMBDA l : l \in GitHubWorkers)

----------------------------------------------------------------------------
(* Deterministic task ids: a child is named by where the command stands,    *)
(* so an edited body maps onto the tasks of its earlier version.            *)

ParentTaskId == <<"issue">>
ChildTaskId(src, i) == <<src, i>>

Longest == CHOOSE n \in 0..10 : /\ \E b \in Bodies : Len(ParseAssignmentIntents(b)) = n
                               /\ \A b \in Bodies : Len(ParseAssignmentIntents(b)) <= n

ChildIds == {ChildTaskId("body", i) : i \in 0..(Longest - 2)}
            \cup {ChildTaskId("comment", i) : i \in 0..(Longest - 1)}
TaskIds == {ParentTaskId} \cup ChildIds

(* "done" stands for succeeded and failed, "claimed" for claimed and        *)
(* running.                                                                 *)
Live(s) == s \in {"queued", "claimed"}

----------------------------------------------------------------------------
(* One call of ingest as a function of the service's state s =              *)
(* [tasks, seen, mark, life].                                               *)

CreateTask(s, id) == IF s.tasks[id] = "none" THEN [s EXCEPT !.tasks[id] = "queued"] ELSE s

(* createChildTask for each command in turn; a command to a worker the      *)
(* broker does not know is left out.  cap is the number of commands reached *)
(* before a createTask throws or the process dies.                          *)
CreateChildren(s, src, cmds, cap) ==
    LET made == {i \in 1..Len(cmds) : i <= cap /\ cmds[i] \in ghKnown}
    IN [s EXCEPT !.tasks = [id \in TaskIds |->
            IF @[id] = "none" /\ \E i \in made : id = ChildTaskId(src, i - 1)
            THEN "queued" ELSE @[id]]]

EnsureParentTask(s, seed) ==
    IF seed \in ghKnown THEN CreateTask(s, ParentTaskId) ELSE s

HasParent(s) == s.tasks[ParentTaskId] # "none"

(* Mutant: the children before the parent.                                  *)
IngestCommandsChildFirst(s, src, cmds, rest, cap) ==
    LET c == CreateChildren(s, src, rest, cap)
    IN IF cmds = <<>> \/ cmds[1] \notin ghKnown THEN s
       ELSE IF cap < Len(rest) THEN c ELSE EnsureParentTask(c, cmds[1])

(* ingestIssue and ingestIssueComment, for a body: the first command seeds  *)
(* the parent; an issue's other commands, and all of a comment's, become    *)
(* its children.  Nothing is created when the parent cannot be.             *)
IngestCommands(s, src, cmds, rest, cap) ==
    LET p == EnsureParentTask(s, cmds[1])
    IN IF cmds = <<>> \/ cap = 0 \/ ~ HasParent(p) THEN s
       ELSE CreateChildren(p, src, rest, cap - 1)

(* cancelExistingTask calls broker.cancelTask, which cancels the tree.      *)
CancelExistingTask(s) ==
    [s EXCEPT !.tasks = [id \in TaskIds |-> IF Live(@[id]) THEN "canceled" ELSE @[id]]]

(* completeExistingTask: only a claimed task.  Its worker is known: a       *)
(* registration is never taken back.                                        *)
CompleteExistingTask(s) ==
    IF s.tasks[ParentTaskId] = "claimed"
    THEN [s EXCEPT !.tasks[ParentTaskId] = "done"]
    ELSE s

(* applyLifecycle: nothing without a parent task, nothing when it is        *)
(* terminal; a reopening never has a path in the broker.                    *)
ApplyLifecycle(s, action) ==
    IF ~ Live(s.tasks[ParentTaskId]) THEN s
    ELSE CASE action = "closed" -> CancelExistingTask(s)
           [] action = "merged" -> CompleteExistingTask(s)
           [] OTHER -> s

(* Mutant: gateLifecycleEntry without its watermarks.                       *)
GateLifecycleEntryAny(s, at) == TRUE

GateLifecycleEntry(s, at) == at >= s.life /\ at >= s.mark

Later(a, b) == IF a >= b THEN a ELSE b

(* handleIssueClosed, handleIssueReopened, handlePullRequestMerged and      *)
(* handlePullRequestClosed.                                                 *)
HandleLifecycle(s, action, at) ==
    IF GateLifecycleEntry(s, at)
    THEN ApplyLifecycle([s EXCEPT !.mark = Later(at, @), !.life = Later(at, @)], action)
    ELSE s

(* acceptEvent: an equal timestamp is accepted.                             *)
AcceptEvent(s, at) == at >= s.mark

Dispatch(s, e, at, cap) ==
    LET cmds == ParseAssignmentIntents(e.body)
    IN CASE e.action \in {"closed", "reopened", "merged"} -> HandleLifecycle(s, e.action, at)
         [] e.action = "opened" ->
                IngestCommands(s, "body", cmds, IF cmds = <<>> THEN <<>> ELSE Tail(cmds), cap)
         [] e.action = "created" -> IngestCommands(s, "comment", cmds, cmds, cap)
         [] OTHER -> s

(* ingest: the delivery is remembered before anything is done with it.      *)
Ingest(s, e, d, at, cap) ==
    IF d \in s.seen THEN s
    ELSE IF ~ AcceptEvent(s, at) THEN [s EXCEPT !.seen = @ \cup {d}]
    ELSE Dispatch([s EXCEPT !.seen = @ \cup {d}, !.mark = at], e, at, cap)

----------------------------------------------------------------------------
Svc == [tasks |-> ghTasks, seen |-> ghSeen, mark |-> ghMark, life |-> ghLife]

Becomes(s) ==
    /\ ghTasks' = s.tasks
    /\ ghSeen' = s.seen
    /\ ghMark' = s.mark
    /\ ghLife' = s.life

(* Creations of one call at most: the parent and one child per command.     *)
AllOfIt == Longest + 1
Creations(e) == IF e.body = <<>> THEN 0 ELSE Len(ParseAssignmentIntents(e.body)) + 1

Accepted(d, at) == d \notin ghSeen /\ AcceptEvent(Svc, at)

Noted(accepted, at) ==
    /\ ghNewest' = IF accepted THEN Later(ghNewest, at) ELSE ghNewest
    /\ ghAt' = at

(* POST /github/webhook: receivedAt is the time of parsing.  GitHub may     *)
(* send a delivery again, which ingest drops whatever it holds.  A          *)
(* createTask that throws after cap tasks answers 500, and the delivery     *)
(* stays remembered.                                                        *)
Webhook(d) ==
    /\ \/ d \in ghSeen /\ Becomes(Svc)
       \/ d \notin ghSeen /\ \E e \in Events : \E cap \in 0..Creations(e) :
                                Becomes(Ingest(Svc, e, d, ghClock, cap))
    /\ Noted(Accepted(d, ghClock), ghClock)
    /\ UNCHANGED <<ghKnown, ghClock, ghCrashes>>

(* A batch of the bounded poller: all of its events are ingested under one  *)
(* context, with a delivery id and a receivedAt of the fetching function.   *)
(* (One fetched again is dropped, as a webhook sent again.)  Two events     *)
(* make a batch here.                                                       *)
IngestBatch(s, first, second, d, at) ==
    LET s1 == Ingest(s, first, d, at, AllOfIt)
    IN Ingest(s1, second, d, at, AllOfIt)

PolledBatch(d) ==
    \E first \in Events, second \in Comments, at \in 1..ghClock :
       /\ d \notin ghSeen
       /\ Becomes(IngestBatch(Svc, first, second, d, at))
       /\ Noted(Accepted(d, at), at)
       /\ UNCHANGED <<ghKnown, ghClock, ghCrashes>>

(* A lifecycle handler called directly, to backfill from an older poll.     *)
Backfill ==
    \E action \in {"closed", "reopened", "merged"}, at \in 1..ghClock :
       /\ Becomes(HandleLifecycle(Svc, action, at))
       /\ Noted(GateLifecycleEntry(Svc, at), at)
       /\ UNCHANGED <<ghKnown, ghClock, ghCrashes>>

----------------------------------------------------------------------------
(* The rest of the broker.                                                  *)

RegisterWorker(w) ==
    /\ ghKnown' = ghKnown \cup {w}
    /\ ghAt' = 0
    /\ UNCHANGED <<ghTasks, ghSeen, ghMark, ghLife, ghClock, ghNewest, ghCrashes>>

(* A worker claims and ends a task, or its claim is taken back.             *)
WorkerActs(id) ==
    /\ \/ ghTasks[id] = "queued" /\ ghTasks' = [ghTasks EXCEPT ![id] = "claimed"]
       \/ ghTasks[id] = "claimed" /\ \E s \in {"queued", "done"} :
                                        ghTasks' = [ghTasks EXCEPT ![id] = s]
    /\ ghAt' = 0
    /\ UNCHANGED <<ghKnown, ghSeen, ghMark, ghLife, ghClock, ghNewest, ghCrashes>>

ClockTick ==
    /\ ghClock < MaxClock
    /\ ghClock' = ghClock + 1
    /\ ghAt' = 0
    /\ UNCHANGED <<ghTasks, ghKnown, ghSeen, ghMark, ghLife, ghNewest, ghCrashes>>

(* The process dies, possibly in the middle of a webhook; the tasks created *)
(* so far were persisted one by one.                                        *)
GitHubCrash ==
    /\ ghCrashes < MaxGitHubCrashes
    /\ ghCrashes' = ghCrashes + 1
    /\ \E e \in Events : \E cap \in 0..Creations(e) :
          ghTasks' = Ingest([Svc EXCEPT !.seen = {}], e, 1, ghClock, cap).tasks
    /\ ghSeen' = {} /\ ghMark' = 0 /\ ghLife' = 0 /\ ghNewest' = 0 /\ ghAt' = 0
    /\ UNCHANGED <<ghKnown, ghClock>>

GitHubInit ==
    /\ ghTasks = [id \in TaskIds |-> "none"]
    /\ ghKnown = {}
    /\ ghSeen = {} /\ ghMark = 0 /\ ghLife = 0
    /\ ghClock = 1
    /\ ghNewest = 0 /\ ghAt = 0 /\ ghCrashes = 0

GitHubNext ==
    \/ \E d \in Deliveries : (d = 1 \/ d - 1 \in ghSeen) /\ (Webhook(d) \/ PolledBatch(d))
    \/ Backfill
    \/ \E w \in GitHubWorkers : RegisterWorker(w)
    \/ \E id \in TaskIds : WorkerActs(id)
    \/ ClockTick
    \/ GitHubCrash

GitHubSpec == GitHubInit /\ [][GitHubNext]_ghVars

----------------------------------------------------------------------------
(* The types, and watermarks that never run ahead of the clock: a webhook,  *)
(* stamped on arrival, is never taken for stale.                            *)
GitHubTypeOK ==
    /\ ghTasks \in [TaskIds -> {"none", "queued", "claimed", "done", "canceled"}]
    /\ ghKnown \subseteq GitHubWorkers /\ ghSeen \subseteq Deliveries
    /\ ghLife <= ghMark /\ ghMark <= ghClock

(* A child task always names a parent the broker has, also when the process *)
(* died, or a save failed, in the middle of a webhook.                      *)
ChildHasParent ==
    \A c \in ChildIds : ghTasks[c] # "none" => ghTasks[ParentTaskId] # "none"

(* A close or merge that reaches the service late never ends a task: no    *)
(* event of the issue accepted since the service started is newer than the  *)
(* one that ended the parent.                                               *)
LifecycleInOrder ==
    ghAt' # 0 /\ Live(ghTasks[ParentTaskId]) /\ ~ Live(ghTasks'[ParentTaskId])
    => ghAt' = ghNewest'

(* Closing an issue whose task is live leaves none of its tasks live.       *)
CloseSettlesTree ==
    ghAt' # 0 /\ Live(ghTasks[ParentTaskId]) /\ ghTasks'[ParentTaskId] = "canceled"
    => \A id \in TaskIds : ~ Live(ghTasks'[id])

(* The end of an issue ends its tasks: all of them when it comes in time,   *)
(* none when it comes late, whatever webhooks, polls and backfills deliver. *)
IssueEndsTasks == [][LifecycleInOrder /\ CloseSettlesTree]_ghVars

(* The ingestion's own records: watermarks within the clock, and no orphan. *)
IngestionInv == GitHubTypeOK /\ ChildHasParent
=============================================================================
