----------------------------- MODULE BrokerStore -----------------------------
(***************************************************************************)
(* The broker on its SQLite store: records in memory, rows of the hot      *)
(* tables, the canonical snapshot row, the pending save hints, the two     *)
(* save paths of persistState, cleanup plans over the hot rows, crashes    *)
(* and restarts (core/broker.ts, core/store.ts, core/broker-cleanup.ts).   *)
(* A record is its version: 0 absent, Last terminal.                       *)
(***************************************************************************)
EXTENDS Naturals, Sequences, FiniteSets, FiniteSetsExt

CONSTANTS TaskIds,       \* local tasks; a task's terminal event has its id
          BriefIds,      \* briefs projected from other brokers, and their events
          Last,          \* last version of a task
          LoadSource,    \* BROKER_SQLITE_LOAD_SOURCE
          KeepTerminal,  \* maxTerminalTasks beyond the retention window
          LoadActive,    \* maxHotRuntimeNonTerminalTasks
          LoadTerminal   \* maxHotRuntimeTerminalTasks

ASSUME LastAssumption == Last \in Nat \ {0, 1}
ASSUME SourceKnown == LoadSource \in {"snapshot", "hot-tables"}
ASSUME CapsNatural ==
    KeepTerminal \in Nat /\ LoadActive \in Nat /\ LoadTerminal \in Nat

Ids == TaskIds \cup BriefIds
HotTables == {"tasks", "tombstones", "outbox"}
Tables == HotTables \cup {"briefs"}
Versions == 0..Last
Empty == [i \in Ids |-> 0]
Nobody == "none"

ASSUME IdsAssumption ==
    /\ IsFiniteSet(TaskIds)
    /\ TaskIds \cap BriefIds = {}
    /\ Nobody \notin TaskIds

VARIABLES mem,        \* the maps of InMemoryBroker
          pending,    \* pendingHot*: ids whose row the next save upserts
          rows,       \* the hot tables
          snapshot,   \* the broker_snapshots row: <<>> or <<tables>>
          recent,     \* less than HOT_PERSIST_FULL_RETENTION_INTERVAL_MS since a full save
          step,       \* how far the current request got: a crash may fall anywhere
          old,        \* terminal tasks past terminalRetentionMs
          plan        \* the last cleanup plan: the task rows it prunes, or nothing

vars == <<mem, pending, rows, snapshot, recent, step, old, plan>>

Idle == [at |-> "idle", task |-> Nobody]
NoHints == [t \in HotTables |-> {}]
NoPlan == {}

\* The types; a task record never moves past its terminal version, and there
\* is at most one snapshot row (setTaskRecord, saveSnapshot).
TypeOK ==
    /\ mem \in [Tables -> [Ids -> Versions]]
    /\ pending \in [HotTables -> SUBSET Ids]
    /\ rows \in [HotTables -> [Ids -> Versions]]
    /\ snapshot \in Seq([Tables -> [Ids -> Versions]]) /\ Len(snapshot) <= 1
    /\ recent \in BOOLEAN
    /\ step \in [at : {"idle", "saving", "burying"}, task : TaskIds \cup {Nobody}]
    /\ old \in SUBSET TaskIds
    /\ plan \in SUBSET TaskIds

Present(table) == {i \in Ids : table[i] # 0}
Terminal(table) == {t \in TaskIds : table[t] = Last}

-----------------------------------------------------------------------------
(* Retention and loading. *)

\* The old terminal tasks that may go: the newest KeepTerminal stay, and so
\* do the ones an exchange or the plan's protectedTaskIds holds on to.
Droppable(table) ==
    LET aged == old \cap Terminal(table)
    IN {S \in SUBSET aged : Cardinality(aged \ S) >= Min({KeepTerminal, Cardinality(aged)})}

Without(table, S) == [i \in Ids |-> IF i \in S THEN 0 ELSE table[i]]

\* The rows a capped SELECT ... LIMIT returns of S.
Limited(S, n) == {K \in SUBSET S : Cardinality(K) = Min({n, Cardinality(S)})}

LoadHotRuntimeSnapshot ==
    LET stored == Present(rows["tasks"])
        terminal == Terminal(rows["tasks"])
    IN {[tasks |-> Without(rows["tasks"], Ids \ K),
         tombstones |-> rows["tombstones"],
         outbox |-> rows["outbox"],
         briefs |-> Empty]
           : K \in {K \in SUBSET stored :
                       /\ K \ terminal \in Limited(stored \ terminal, LoadActive)
                       /\ K \cap terminal \in Limited(terminal, LoadTerminal)}}

LoadCanonicalSnapshot ==
    {IF snapshot = <<>> THEN [t \in Tables |-> Empty] ELSE snapshot[1]}

Load == IF LoadSource = "hot-tables" THEN LoadHotRuntimeSnapshot
                                     ELSE LoadCanonicalSnapshot

-----------------------------------------------------------------------------
(* Requests.  The broker is single-threaded: a request starts when the     *)
(* last one has ended, and a crash may fall after each of its writes.      *)

\* getTask: the row of the runtime repository wins and refreshes the memory.
Current(t) == IF rows["tasks"][t] # 0 THEN rows["tasks"][t] ELSE mem["tasks"][t]

ReadTask(t) ==
    /\ step = Idle
    /\ rows["tasks"][t] # 0
    /\ mem' = [mem EXCEPT !["tasks"][t] = rows["tasks"][t]]
    /\ UNCHANGED <<pending, rows, snapshot, recent, step, old, plan>>

\* setTaskRecord, and appendAuditEvent when the task becomes terminal: the
\* task's row is upserted at once, its terminal event only gets a hint.
UpdateTask(t) ==
    LET v == Current(t) + 1
        closing == v = Last
    IN /\ step = Idle
       /\ v <= Last
       /\ mem' = [mem EXCEPT !["tasks"][t] = v,
                             !["outbox"][t] = IF closing THEN 1 ELSE @]
       /\ rows' = [rows EXCEPT !["tasks"][t] = v]
       /\ pending' = [pending EXCEPT !["tasks"] = @ \cup {t},
                                     !["outbox"] = IF closing THEN @ \cup {t} ELSE @]
       /\ old' = old \ {t}
       /\ step' = [at |-> "saving", task |-> IF closing THEN t ELSE Nobody]
       /\ UNCHANGED <<snapshot, recent, plan>>

\* acknowledgeTerminalTaskEvent: version 2 of an event is acknowledged.
AckEvent(i) ==
    /\ step = Idle
    /\ mem["outbox"][i] = 1
    /\ mem' = [mem EXCEPT !["outbox"][i] = 2]
    /\ pending' = [pending EXCEPT !["outbox"] = @ \cup {i}]
    /\ step' = [at |-> "saving", task |-> Nobody]
    /\ UNCHANGED <<rows, snapshot, recent, old, plan>>

\* ingestCrossBrokerTerminalBriefProjection: memory only, no hint.
IngestBrief(b) ==
    /\ step = Idle
    /\ mem["briefs"][b] = 0
    /\ mem' = [mem EXCEPT !["briefs"][b] = 1,
                          !["outbox"][b] = IF @ = 0 THEN 1 ELSE @]
    /\ step' = [at |-> "saving", task |-> Nobody]
    /\ UNCHANGED <<pending, rows, snapshot, recent, old, plan>>

AfterSave == IF step.task = Nobody THEN Idle ELSE [step EXCEPT !.at = "burying"]

HasHints(hints) == \E t \in HotTables : hints[t] # {}

\* writeHotEntityHintRows
UpsertHints(table, t, hints) ==
    [i \in Ids |-> IF i \in hints[t] THEN mem[t][i] ELSE table[i]]

\* Mutant: the hot save leaves the terminal outbox to the next full save.
PersistHotWithoutOutbox ==
    /\ step.at = "saving"
    /\ recent /\ HasHints(pending)
    /\ rows' = [t \in HotTables |->
          IF t = "outbox" THEN rows[t] ELSE UpsertHints(rows[t], t, pending)]
    /\ pending' = NoHints
    /\ step' = AfterSave
    /\ UNCHANGED <<mem, snapshot, recent, old, plan>>

\* persistState within the interval: only the hinted rows are written.
PersistHot ==
    /\ step.at = "saving"
    /\ recent /\ HasHints(pending)
    /\ rows' = [t \in HotTables |-> UpsertHints(rows[t], t, pending)]
    /\ pending' = NoHints
    /\ step' = AfterSave
    /\ UNCHANGED <<mem, snapshot, recent, old, plan>>

\* Mutant: a hinted table is pruned to the hints instead of the snapshot.
WriteOnlyHintedRows(saved, hints) ==
    [t \in HotTables |->
        IF ~HasHints(hints) THEN saved[t]
        ELSE IF hints[t] = {} THEN rows[t]
        ELSE UpsertHints(Empty, t, hints)]

\* writeHotEntityTables: with hints, a hinted table is pruned to the saved
\* snapshot and gets the hinted rows; without, every table is rewritten.
WriteHotEntityTables(saved, hints) ==
    [t \in HotTables |->
        IF ~HasHints(hints) THEN saved[t]
        ELSE IF hints[t] = {} THEN rows[t]
        ELSE UpsertHints(Without(rows[t], Ids \ Present(saved[t])), t, hints)]

\* persistState otherwise: retention, then save(snapshot, hints); the
\* snapshot row is written only when no hint is left.
PersistFull ==
    /\ step.at = "saving"
    /\ ~(recent /\ HasHints(pending))
    /\ \E S \in Droppable(mem["tasks"]) :
          LET saved == [mem EXCEPT !["tasks"] = Without(@, S)]
              hints == [pending EXCEPT !["tasks"] = @ \ S]
          IN /\ mem' = saved
             /\ rows' = WriteHotEntityTables(saved, hints)
             /\ snapshot' = IF HasHints(hints) THEN snapshot ELSE <<saved>>
    /\ pending' = NoHints
    /\ recent' = TRUE
    /\ step' = AfterSave
    /\ UNCHANGED <<old, plan>>

\* Mutant: the tombstone is written to its row and not to the map.
WriteTombstoneRowOnly ==
    /\ step.at = "burying"
    /\ rows' = [rows EXCEPT !["tombstones"][step.task] = 1]
    /\ step' = Idle
    /\ UNCHANGED <<mem, pending, snapshot, recent, old, plan>>

\* writeTombstone, after persistState: row and memory now, hint for later.
WriteTombstone ==
    /\ step.at = "burying"
    /\ mem' = [mem EXCEPT !["tombstones"][step.task] = 1]
    /\ rows' = [rows EXCEPT !["tombstones"][step.task] = 1]
    /\ pending' = [pending EXCEPT !["tombstones"] = @ \cup {step.task}]
    /\ step' = Idle
    /\ UNCHANGED <<snapshot, recent, old, plan>>

-----------------------------------------------------------------------------
(* Time, cleanup, crash. *)

IntervalPasses ==
    /\ recent
    /\ recent' = FALSE
    /\ UNCHANGED <<mem, pending, rows, snapshot, step, old, plan>>

\* A terminal task grows older than the retention window.
GrowOld(t) ==
    /\ step = Idle
    /\ t \notin old /\ Current(t) = Last
    /\ old' = old \cup {t}
    /\ UNCHANGED <<mem, pending, rows, snapshot, recent, step, plan>>

\* buildBrokerCleanupPlan over the hot rows; nothing is written.
BuildCleanupPlan ==
    /\ step = Idle
    /\ \E S \in Droppable(rows["tasks"]) : S # {} /\ plan' = S
    /\ UNCHANGED <<mem, pending, rows, snapshot, recent, step, old>>

\* executeBrokerCleanupPlan: the server rebuilds the plan from the rows it
\* finds and the token must be that plan's id, so a plan the rows have moved
\* away from is refused; the memory keeps what the rows lose.
ExecuteCleanupPlan ==
    /\ step = Idle
    /\ plan # NoPlan
    /\ plan \in Droppable(rows["tasks"])
    /\ rows' = [rows EXCEPT !["tasks"] = Without(@, plan)]
    /\ plan' = NoPlan
    /\ UNCHANGED <<mem, pending, snapshot, recent, step, old>>

\* The process dies and loadSnapshot starts the next one.
Restart ==
    /\ \E loaded \in Load : \E S \in Droppable(loaded["tasks"]) :
          mem' = [loaded EXCEPT !["tasks"] = Without(@, S)]
    /\ pending' = NoHints
    /\ recent' = TRUE
    /\ step' = Idle
    /\ UNCHANGED <<rows, snapshot, old, plan>>

\* The first start: an empty database, or one into which load() has just
\* imported the JSON file (snapshot row and hot tables alike).
Init ==
    /\ \E imported \in [TaskIds -> Versions] :
          LET saved == [t \in Tables |->
                  IF t = "tasks"
                  THEN [i \in Ids |-> IF i \in TaskIds THEN imported[i] ELSE 0]
                  ELSE Empty]
          IN /\ mem = saved
             /\ rows = [t \in HotTables |-> saved[t]]
             /\ snapshot = IF saved["tasks"] = Empty THEN <<>> ELSE <<saved>>
    /\ pending = NoHints
    /\ recent = TRUE
    /\ step = Idle
    /\ old = {}
    /\ plan = NoPlan

Next ==
    \/ \E t \in TaskIds : ReadTask(t) \/ UpdateTask(t) \/ GrowOld(t)
    \/ \E i \in Ids : AckEvent(i)
    \/ \E b \in BriefIds : IngestBrief(b)
    \/ PersistHot \/ PersistFull \/ WriteTombstone
    \/ IntervalPasses \/ BuildCleanupPlan \/ ExecuteCleanupPlan
    \/ Restart

Spec == Init /\ [][Next]_vars

-----------------------------------------------------------------------------
(* Properties. *)

\* What a reader of the broker sees of a task: getTask.
Visible == [t \in TaskIds |-> Current(t)]

Durable == INSTANCE DurableRecords WITH RecordIds <- TaskIds, records <- Visible

\* With the hot tables as load source and every active row loaded, hot saves,
\* full saves, retention, cleanup, crashes and restarts together implement
\* DurableRecords: a task only moves forward, and only a terminal one goes.
RecordsDurable == Durable!DurableSpec

\* persistState and setTaskRecord: the memory never holds an older version
\* of a task than its row, so a save never writes a row backwards.
MemoryNotStale ==
    \A t \in TaskIds : mem["tasks"][t] # 0 => rows["tasks"][t] <= mem["tasks"][t]

\* Between requests the row of every local terminal event is the event in
\* memory (its acknowledgement included), whichever save path ran last; a
\* crash then replays no acknowledged event and loses no pending one.
EventsSaved ==
    step = Idle => \A t \in TaskIds : rows["outbox"][t] = mem["outbox"][t]

\* A tombstone row, written after the save it belongs to and hinted for the
\* next one, survives every later save, prune, crash and restart.
TombstonesKept ==
    [][\A t \in TaskIds : rows["tombstones"][t] <= rows["tombstones"]'[t]]_vars

\* A task that is not terminal never disappears from the broker.
ActiveNeverLost ==
    [][\A t \in TaskIds : Visible[t] \in 1..(Last - 1) => Visible'[t] # 0]_vars

\* Memory, rows and pending hints agree across the two save paths, retention,
\* cleanups and crashes: no save writes a row backwards, and between requests
\* every local terminal event is in its row.
StoreInv == TypeOK /\ MemoryNotStale /\ EventsSaved
=============================================================================
