-------------------------- MODULE BrokerStoreProofs --------------------------
(***************************************************************************)
(* Proofs about the broker on its SQLite store when it loads from the hot  *)
(* tables: what memory, rows and pending hints say of each other, the      *)
(* tombstones, and the refinement of DurableRecords.                       *)
(***************************************************************************)
EXTENDS BrokerStore, FiniteSetTheorems, TLAPS

(* A row and a record of memory that both exist are the same version; a    *)
(* record without a row is terminal (a cleanup took the row).              *)
TasksAgree ==
    \A t \in TaskIds : \/ mem["tasks"][t] = 0
                       \/ mem["tasks"][t] = rows["tasks"][t]
                       \/ mem["tasks"][t] = Last /\ rows["tasks"][t] = 0

(* A task is hinted only by the request that is being saved, which wrote   *)
(* its row already.                                                        *)
HintsAgree ==
    /\ pending["tasks"] \subseteq TaskIds
    /\ pending["tasks"] # {} => step.at = "saving"
    /\ \A t \in pending["tasks"] : mem["tasks"][t] # 0 /\ mem["tasks"][t] = rows["tasks"][t]

EventsHinted ==
    \A t \in TaskIds : \/ rows["outbox"][t] = mem["outbox"][t]
                       \/ t \in pending["outbox"] /\ step.at = "saving"

TombsAgree ==
    /\ rows["tombstones"] = mem["tombstones"]
    /\ \A i \in Ids : rows["tombstones"][i] \in {0, 1}

(* Only a request that closed a task has a tombstone to write.             *)
TaskToBury == step.at = "burying" => step.task \in TaskIds

SInv == TypeOK /\ TasksAgree /\ HintsAgree /\ EventsHinted /\ TombsAgree /\ TaskToBury

-----------------------------------------------------------------------------
(* Tables.                                                                 *)

Table == [Ids -> Versions]

LEMMA TableNames ==
    /\ HotTables = {"tasks", "tombstones", "outbox"}
    /\ Tables = {"tasks", "tombstones", "outbox", "briefs"}
    /\ TaskIds \subseteq Ids /\ BriefIds \subseteq Ids
    /\ {0, 1, 2, Last} \subseteq Versions /\ Last \in Nat /\ Last > 1
  BY LastAssumption DEF HotTables, Tables, Ids, Versions

LEMMA WithoutFacts ==
    ASSUME NEW table \in Table, NEW S
    PROVE  /\ Without(table, S) \in Table
           /\ \A i \in Ids : Without(table, S)[i] = IF i \in S THEN 0 ELSE table[i]
  BY TableNames DEF Without, Table

LEMMA UpsertFacts ==
    ASSUME TypeOK, NEW table \in Table, NEW t \in HotTables, NEW hints
    PROVE  /\ UpsertHints(table, t, hints) \in Table
           /\ \A i \in Ids : UpsertHints(table, t, hints)[i] =
                                IF i \in hints[t] THEN mem[t][i] ELSE table[i]
  BY TableNames DEF UpsertHints, Table, TypeOK

(* What a save leaves in the hot tables, of what was saved.                *)
LEMMA WrittenFacts ==
    ASSUME TypeOK, NEW saved \in [Tables -> Table], NEW hints \in [HotTables -> SUBSET Ids],
           NEW t \in HotTables
    PROVE  LET table == WriteHotEntityTables(saved, hints)[t]
           IN /\ table \in Table
              /\ HasHints(hints) /\ hints[t] = {} => table = rows[t]
              /\ HasHints(hints) /\ hints[t] # {} =>
                    \A i \in Ids : table[i] = IF i \in hints[t] THEN mem[t][i]
                                              ELSE IF saved[t][i] = 0 THEN 0 ELSE rows[t][i]
              /\ ~HasHints(hints) => table = saved[t]
  <1> DEFINE table == WriteHotEntityTables(saved, hints)[t]
             kept == Without(rows[t], Ids \ Present(saved[t]))
  <1>1. t \in Tables /\ saved[t] \in Table /\ rows[t] \in Table
    BY TableNames DEF TypeOK, Table
  <1>2. kept \in Table
    BY <1>1, WithoutFacts
  <1>3. \A i \in Ids : kept[i] = IF saved[t][i] = 0 THEN 0 ELSE rows[t][i]
    BY <1>1, WithoutFacts DEF Present
  <1>4. table = IF ~HasHints(hints) THEN saved[t]
                ELSE IF hints[t] = {} THEN rows[t] ELSE UpsertHints(kept, t, hints)
    BY DEF WriteHotEntityTables
  <1> HIDE DEF table, kept
  <1>5. /\ UpsertHints(kept, t, hints) \in Table
        /\ \A i \in Ids : UpsertHints(kept, t, hints)[i] =
                             IF i \in hints[t] THEN mem[t][i] ELSE kept[i]
    BY <1>2, UpsertFacts
  <1> QED BY <1>1, <1>3, <1>4, <1>5 DEF table

LEMMA OneRow ==
    ASSUME NEW D
    PROVE  /\ <<>> \in Seq(D) /\ Len(<<>>) <= 1
           /\ \A x \in D : <<x>> \in Seq(D) /\ Len(<<x>>) <= 1
  OBVIOUS

LEMMA DroppableFacts ==
    ASSUME NEW table, NEW S \in Droppable(table)
    PROVE  S \subseteq TaskIds /\ \A t \in S : table[t] = Last
  BY DEF Droppable, Terminal

-----------------------------------------------------------------------------
LEMMA InitSInv == Init => SInv
  <1> SUFFICES ASSUME Init PROVE SInv
    OBVIOUS
  <1>1. PICK imported \in [TaskIds -> Versions] :
          LET saved == [t \in Tables |->
                  IF t = "tasks"
                  THEN [i \in Ids |-> IF i \in TaskIds THEN imported[i] ELSE 0]
                  ELSE Empty]
          IN /\ mem = saved
             /\ rows = [t \in HotTables |-> saved[t]]
             /\ snapshot = IF saved["tasks"] = Empty THEN <<>> ELSE <<saved>>
    BY DEF Init
  <1>2. Empty \in Table
    BY TableNames DEF Empty, Table
  <1> DEFINE tasks == [i \in Ids |-> IF i \in TaskIds THEN imported[i] ELSE 0]
             saved == [t \in Tables |-> IF t = "tasks" THEN tasks ELSE Empty]
  <1>3. tasks \in Table
    BY TableNames DEF Table
  <1>4. /\ mem = saved /\ rows = [t \in HotTables |-> saved[t]]
        /\ snapshot = IF saved["tasks"] = Empty THEN <<>> ELSE <<saved>>
    BY <1>1
  <1> HIDE DEF tasks
  <1>5. saved \in [Tables -> Table]
    BY <1>2, <1>3
  <1>6. rows \in [HotTables -> Table] /\ \A t \in HotTables : rows[t] = mem[t]
    BY <1>4, <1>5, TableNames
  <1>9. \A i \in Ids : rows["tombstones"][i] = 0
    BY <1>4, TableNames DEF Empty
  <1> HIDE DEF saved
  <1>7. snapshot \in Seq([Tables -> Table]) /\ Len(snapshot) <= 1
    BY <1>4, <1>5, OneRow
  <1>8. TypeOK
    <2>1. /\ pending \in [HotTables -> SUBSET Ids]
          /\ step \in [at : {"idle", "saving", "burying"}, task : TaskIds \cup {Nobody}]
          /\ old \in SUBSET TaskIds /\ plan \in SUBSET TaskIds
      BY DEF Init, NoHints, Idle, NoPlan
    <2>2. recent \in BOOLEAN
      BY DEF Init
    <2> QED BY <1>4, <1>5, <1>6, <1>7, <2>1, <2>2 DEF TypeOK, Table
  <1> QED BY <1>6, <1>8, <1>9, TableNames DEF Init, SInv, TasksAgree, HintsAgree, EventsHinted,
             TombsAgree, TaskToBury, NoHints, Idle

-----------------------------------------------------------------------------
(* One step per action.                                                    *)

LEMMA ReadTaskStep ==
    ASSUME SInv, NEW t \in TaskIds, ReadTask(t)
    PROVE  SInv'
  <1> DEFINE v == rows["tasks"][t]
  <1>1. mem' = [mem EXCEPT !["tasks"][t] = v] /\ step = Idle
        /\ UNCHANGED <<pending, rows, snapshot, recent, step, old, plan>>
    BY DEF ReadTask
  <1>2. v \in Versions /\ mem \in [Tables -> Table]
    <2>1. rows["tasks"] \in Table /\ t \in Ids /\ mem \in [Tables -> Table]
      BY TableNames DEF SInv, TypeOK, Table
    <2> QED BY <2>1 DEF Table
  <1> HIDE DEF v
  <1>3. /\ mem' \in [Tables -> Table] /\ mem'["tasks"] = [mem["tasks"] EXCEPT ![t] = v]
        /\ \A x \in Tables \ {"tasks"} : mem'[x] = mem[x]
    BY <1>1, <1>2, TableNames DEF Table
  <1>4. mem'["tasks"][t] = v /\ \A u \in TaskIds \ {t} : mem'["tasks"][u] = mem["tasks"][u]
    BY <1>2, <1>3, TableNames DEF Table
  <1>5. TypeOK'
    BY <1>1, <1>3 DEF SInv, TypeOK, Table
  <1>6. TasksAgree'
    BY <1>1, <1>4 DEF SInv, TasksAgree, v
  <1>7. HintsAgree'
    BY <1>1 DEF SInv, HintsAgree, Idle
  <1> QED BY <1>1, <1>3, <1>5, <1>6, <1>7, TableNames DEF SInv, EventsHinted, TombsAgree, TaskToBury

LEMMA UpdateTaskStep ==
    ASSUME SInv, NEW t \in TaskIds, UpdateTask(t)
    PROVE  SInv'
  <1> DEFINE v == Current(t) + 1
             o == IF v = Last THEN 1 ELSE mem["outbox"][t]
             h == IF v = Last THEN pending["outbox"] \cup {t} ELSE pending["outbox"]
             now == [at |-> "saving", task |-> IF v = Last THEN t ELSE Nobody]
  <1>1. /\ step = Idle /\ v <= Last
        /\ mem' = [mem EXCEPT !["tasks"][t] = v, !["outbox"][t] = o]
        /\ rows' = [rows EXCEPT !["tasks"][t] = v]
        /\ pending' = [pending EXCEPT !["tasks"] = @ \cup {t}, !["outbox"] = h]
        /\ old' = old \ {t} /\ step' = now
        /\ UNCHANGED <<snapshot, recent, plan>>
    BY TableNames DEF UpdateTask, SInv, TypeOK, Table
  <1>2. /\ mem \in [Tables -> Table] /\ rows \in [HotTables -> Table]
        /\ pending \in [HotTables -> SUBSET Ids]
    BY DEF SInv, TypeOK, Table
  <1>3. v \in Versions /\ v # 0 /\ o \in Versions
    <2>1. Current(t) \in Nat
      <3>1. rows["tasks"] \in Table /\ mem["tasks"] \in Table /\ t \in Ids
        BY <1>2, TableNames
      <3>2. rows["tasks"][t] \in Versions /\ mem["tasks"][t] \in Versions
        BY <3>1 DEF Table
      <3> QED BY <3>2 DEF Current, Versions
    <2>2. v \in Versions /\ v # 0
      BY <1>1, <2>1, TableNames DEF Versions
    <2>3. mem["outbox"][t] \in Versions
      BY <1>2, TableNames DEF Table
    <2> QED BY <2>2, <2>3, TableNames
  <1>4. h \in SUBSET Ids /\ pending["outbox"] \subseteq h
        /\ (o = mem["outbox"][t] \/ t \in h)
    BY <1>2, TableNames
  <1>5. now \in [at : {"idle", "saving", "burying"}, task : TaskIds \cup {Nobody}]
        /\ now.at = "saving"
    OBVIOUS
  <1> HIDE DEF v, o, h, now
  <1>6. /\ mem' \in [Tables -> Table] /\ mem'["tasks"] = [mem["tasks"] EXCEPT ![t] = v]
        /\ mem'["outbox"] = [mem["outbox"] EXCEPT ![t] = o]
        /\ mem'["tombstones"] = mem["tombstones"]
    BY <1>1, <1>2, <1>3, TableNames DEF Table
  <1>7. /\ rows' \in [HotTables -> Table] /\ rows'["tasks"] = [rows["tasks"] EXCEPT ![t] = v]
        /\ rows'["outbox"] = rows["outbox"] /\ rows'["tombstones"] = rows["tombstones"]
    BY <1>1, <1>2, <1>3, TableNames DEF Table
  <1>8. /\ pending' \in [HotTables -> SUBSET Ids] /\ pending'["outbox"] = h
        /\ pending'["tasks"] = pending["tasks"] \cup {t}
    BY <1>1, <1>2, <1>4, TableNames
  <1>9. /\ mem'["tasks"][t] = v /\ rows'["tasks"][t] = v /\ mem'["outbox"][t] = o
        /\ \A u \in TaskIds \ {t} : /\ mem'["tasks"][u] = mem["tasks"][u]
                                     /\ rows'["tasks"][u] = rows["tasks"][u]
                                     /\ mem'["outbox"][u] = mem["outbox"][u]
    BY <1>2, <1>6, <1>7, TableNames DEF Table
  <1>10. TypeOK'
    BY <1>1, <1>5, <1>6, <1>7, <1>8 DEF SInv, TypeOK, Table
  <1>11. TasksAgree'
    BY <1>9 DEF SInv, TasksAgree
  <1>12. HintsAgree'
    <2>1. pending["tasks"] = {}
      BY <1>1 DEF SInv, HintsAgree, Idle
    <2> QED BY <1>1, <1>3, <1>5, <1>8, <1>9, <2>1 DEF HintsAgree
  <1>13. EventsHinted'
    <2>1. \A u \in TaskIds : rows["outbox"][u] = mem["outbox"][u]
      BY <1>1 DEF SInv, EventsHinted, Idle
    <2> QED BY <1>1, <1>4, <1>5, <1>7, <1>8, <1>9, <2>1 DEF EventsHinted
  <1> QED BY <1>1, <1>5, <1>6, <1>7, <1>10, <1>11, <1>12, <1>13 DEF SInv, TombsAgree, TaskToBury

LEMMA AckEventStep ==
    ASSUME SInv, NEW i \in Ids, AckEvent(i)
    PROVE  SInv'
  <1>1. /\ step = Idle /\ mem' = [mem EXCEPT !["outbox"][i] = 2]
        /\ pending' = [pending EXCEPT !["outbox"] = @ \cup {i}]
        /\ step' = [at |-> "saving", task |-> Nobody]
        /\ UNCHANGED <<rows, snapshot, recent, old, plan>>
    BY DEF AckEvent
  <1>2. mem \in [Tables -> Table] /\ pending \in [HotTables -> SUBSET Ids] /\ 2 \in Versions
    BY TableNames DEF SInv, TypeOK, Table
  <1>3. /\ mem' \in [Tables -> Table] /\ mem'["outbox"] = [mem["outbox"] EXCEPT ![i] = 2]
        /\ mem'["tasks"] = mem["tasks"] /\ mem'["tombstones"] = mem["tombstones"]
    BY <1>1, <1>2, TableNames DEF Table
  <1>4. \A u \in Ids \ {i} : mem'["outbox"][u] = mem["outbox"][u]
    BY <1>2, <1>3, TableNames DEF Table
  <1>5. /\ pending' \in [HotTables -> SUBSET Ids] /\ pending'["tasks"] = pending["tasks"]
        /\ pending'["outbox"] = pending["outbox"] \cup {i}
    BY <1>1, <1>2, TableNames
  <1>6. TypeOK'
    BY <1>1, <1>3, <1>5 DEF SInv, TypeOK, Table
  <1>7. EventsHinted'
    <2>1. \A u \in TaskIds : rows["outbox"][u] = mem["outbox"][u]
      BY <1>1 DEF SInv, EventsHinted, Idle
    <2> QED BY <1>1, <1>4, <1>5, <2>1, TableNames DEF EventsHinted
  <1>8. HintsAgree'
    BY <1>1, <1>3, <1>5 DEF SInv, HintsAgree
  <1> QED BY <1>1, <1>3, <1>6, <1>7, <1>8 DEF SInv, TasksAgree, TombsAgree, TaskToBury

LEMMA IngestBriefStep ==
    ASSUME SInv, NEW b \in BriefIds, IngestBrief(b)
    PROVE  SInv'
  <1> DEFINE o == IF mem["outbox"][b] = 0 THEN 1 ELSE mem["outbox"][b]
  <1>1. /\ step = Idle /\ mem' = [mem EXCEPT !["briefs"][b] = 1, !["outbox"][b] = o]
        /\ step' = [at |-> "saving", task |-> Nobody]
        /\ UNCHANGED <<pending, rows, snapshot, recent, old, plan>>
    BY TableNames DEF IngestBrief, SInv, TypeOK
  <1>2. mem \in [Tables -> Table] /\ 1 \in Versions /\ o \in Versions
    BY TableNames DEF SInv, TypeOK, Table
  <1> HIDE DEF o
  <1>3. /\ mem' \in [Tables -> Table] /\ mem'["outbox"] = [mem["outbox"] EXCEPT ![b] = o]
        /\ mem'["tasks"] = mem["tasks"] /\ mem'["tombstones"] = mem["tombstones"]
    BY <1>1, <1>2, TableNames DEF Table
  <1>4. \A u \in TaskIds : mem'["outbox"][u] = mem["outbox"][u]
    BY <1>2, <1>3, TableNames, IdsAssumption DEF Table
  <1>5. TypeOK'
    BY <1>1, <1>3 DEF SInv, TypeOK, Table
  <1>6. EventsHinted'
    BY <1>1, <1>4 DEF SInv, EventsHinted
  <1>7. HintsAgree'
    BY <1>1, <1>3 DEF SInv, HintsAgree
  <1> QED BY <1>1, <1>3, <1>5, <1>6, <1>7 DEF SInv, TasksAgree, TombsAgree, TaskToBury

LEMMA AfterSaveFacts ==
    ASSUME TypeOK
    PROVE  /\ AfterSave \in [at : {"idle", "saving", "burying"}, task : TaskIds \cup {Nobody}]
           /\ AfterSave.at = "burying" => AfterSave.task \in TaskIds
           /\ AfterSave.at # "saving"
  BY DEF TypeOK, AfterSave, Idle

(* After either save no hint is left, and it is enough that the tables it  *)
(* wrote agree with the memory it leaves.                                  *)
LEMMA SaveStep ==
    ASSUME SInv, mem' \in [Tables -> Table], rows' \in [HotTables -> Table],
           snapshot' \in Seq([Tables -> Table]), Len(snapshot') <= 1, recent' \in BOOLEAN,
           pending' = NoHints, step' = AfterSave, UNCHANGED <<old, plan>>, TasksAgree',
           \A t \in TaskIds : rows'["outbox"][t] = mem'["outbox"][t], TombsAgree'
    PROVE  SInv'
  <1>1. pending' \in [HotTables -> SUBSET Ids] /\ pending'["tasks"] = {}
    BY TableNames DEF NoHints
  <1>2. TypeOK'
    BY <1>1, AfterSaveFacts DEF SInv, TypeOK, Table
  <1> QED BY <1>1, <1>2, AfterSaveFacts DEF SInv, HintsAgree, EventsHinted, TaskToBury

LEMMA PersistHotStep ==
    ASSUME SInv, PersistHot
    PROVE  SInv'
  <1>1. /\ rows' = [t \in HotTables |-> UpsertHints(rows[t], t, pending)]
        /\ pending' = NoHints /\ step' = AfterSave
        /\ UNCHANGED <<mem, snapshot, recent, old, plan>>
    BY DEF PersistHot
  <1>2. ASSUME NEW x \in HotTables
        PROVE  /\ rows'[x] \in Table
               /\ \A i \in Ids : rows'[x][i] = IF i \in pending[x] THEN mem[x][i] ELSE rows[x][i]
    BY <1>1, UpsertFacts DEF SInv, TypeOK, Table
  <1>3. rows' \in [HotTables -> Table]
    BY <1>1, <1>2
  <1>4. TasksAgree'
    <2>1. \A t \in TaskIds : rows'["tasks"][t] = rows["tasks"][t]
      BY <1>2, TableNames DEF SInv, HintsAgree
    <2> QED BY <1>1, <2>1 DEF SInv, TasksAgree
  <1>5. \A t \in TaskIds : rows'["outbox"][t] = mem'["outbox"][t]
    BY <1>1, <1>2, TableNames DEF SInv, EventsHinted
  <1>6. TombsAgree'
    <2>1. \A i \in Ids : rows'["tombstones"][i] = rows["tombstones"][i]
      BY <1>2, TableNames DEF SInv, TombsAgree
    <2>2. rows["tombstones"] \in Table /\ rows'["tombstones"] \in Table
      BY <1>3, TableNames DEF SInv, TypeOK, Table
    <2>3. rows'["tombstones"] = rows["tombstones"]
      BY <2>1, <2>2 DEF Table
    <2> QED BY <1>1, <2>3 DEF SInv, TombsAgree
  <1> QED BY <1>1, <1>3, <1>4, <1>5, <1>6, SaveStep DEF SInv, TypeOK, Table

(* What persistState writes when it saves in full.                         *)
LEMMA PersistFullFacts ==
    ASSUME SInv, PersistFull
    PROVE  \E S \in Droppable(mem["tasks"]) :
             LET hints == [pending EXCEPT !["tasks"] = @ \ S]
             IN /\ mem' \in [Tables -> Table] /\ mem'["tasks"] = Without(mem["tasks"], S)
                /\ \A x \in Tables \ {"tasks"} : mem'[x] = mem[x]
                /\ rows' = WriteHotEntityTables(mem', hints)
                /\ snapshot' \in {snapshot, <<mem'>>}
                /\ hints \in [HotTables -> SUBSET Ids] /\ hints["tasks"] = pending["tasks"] \ S
                /\ \A x \in HotTables \ {"tasks"} : hints[x] = pending[x]
  <1>1. PICK S \in Droppable(mem["tasks"]) :
          LET saved == [mem EXCEPT !["tasks"] = Without(@, S)]
              hints == [pending EXCEPT !["tasks"] = @ \ S]
          IN /\ mem' = saved
             /\ rows' = WriteHotEntityTables(saved, hints)
             /\ snapshot' = IF HasHints(hints) THEN snapshot ELSE <<saved>>
    BY DEF PersistFull
  <1> DEFINE hints == [pending EXCEPT !["tasks"] = @ \ S]
  <1>2. mem \in [Tables -> Table] /\ mem["tasks"] \in Table
        /\ pending \in [HotTables -> SUBSET Ids]
    BY TableNames DEF SInv, TypeOK, Table
  <1>3. Without(mem["tasks"], S) \in Table
    BY <1>2, WithoutFacts
  <1>4. /\ mem' = [mem EXCEPT !["tasks"] = Without(mem["tasks"], S)]
        /\ rows' = WriteHotEntityTables(mem', hints)
        /\ snapshot' \in {snapshot, <<mem'>>}
    BY <1>1, <1>2
  <1>5. /\ mem' \in [Tables -> Table] /\ mem'["tasks"] = Without(mem["tasks"], S)
        /\ \A x \in Tables \ {"tasks"} : mem'[x] = mem[x]
    BY <1>2, <1>3, <1>4, TableNames
  <1>6. /\ hints \in [HotTables -> SUBSET Ids] /\ hints["tasks"] = pending["tasks"] \ S
        /\ \A x \in HotTables \ {"tasks"} : hints[x] = pending[x]
    BY <1>2, TableNames
  <1> QED BY <1>4, <1>5, <1>6

LEMMA PersistFullStep ==
    ASSUME SInv, PersistFull
    PROVE  SInv'
  <1>1. PICK S \in Droppable(mem["tasks"]) :
             LET hints == [pending EXCEPT !["tasks"] = @ \ S]
             IN /\ mem' \in [Tables -> Table] /\ mem'["tasks"] = Without(mem["tasks"], S)
                /\ \A x \in Tables \ {"tasks"} : mem'[x] = mem[x]
                /\ rows' = WriteHotEntityTables(mem', hints)
                /\ snapshot' \in {snapshot, <<mem'>>}
                /\ hints \in [HotTables -> SUBSET Ids] /\ hints["tasks"] = pending["tasks"] \ S
                /\ \A x \in HotTables \ {"tasks"} : hints[x] = pending[x]
    BY PersistFullFacts
  <1> DEFINE hints == [pending EXCEPT !["tasks"] = @ \ S]
  <1>2. /\ mem' \in [Tables -> Table] /\ mem'["tasks"] = Without(mem["tasks"], S)
        /\ \A x \in Tables \ {"tasks"} : mem'[x] = mem[x]
        /\ rows' = WriteHotEntityTables(mem', hints)
        /\ snapshot' \in {snapshot, <<mem'>>}
        /\ hints \in [HotTables -> SUBSET Ids] /\ hints["tasks"] = pending["tasks"] \ S
        /\ \A x \in HotTables \ {"tasks"} : hints[x] = pending[x]
    BY <1>1
  <1> HIDE DEF hints
  <1>3. \A t \in TaskIds : mem'["tasks"][t] = IF t \in S THEN 0 ELSE mem["tasks"][t]
    <2>1. mem["tasks"] \in Table
      BY TableNames DEF SInv, TypeOK, Table
    <2> QED BY <1>2, <2>1, WithoutFacts, TableNames
  <1>4. ASSUME NEW x \in HotTables
        PROVE  /\ rows'[x] \in Table
               /\ HasHints(hints) /\ hints[x] = {} => rows'[x] = rows[x]
               /\ HasHints(hints) /\ hints[x] # {} =>
                    \A i \in Ids : rows'[x][i] = IF i \in hints[x] THEN mem[x][i]
                                                 ELSE IF mem'[x][i] = 0 THEN 0 ELSE rows[x][i]
               /\ ~HasHints(hints) => rows'[x] = mem'[x]
    BY <1>2, WrittenFacts DEF SInv
  <1>5. rows' \in [HotTables -> Table]
    <2>1. rows' = [x \in HotTables |-> rows'[x]]
      BY <1>2 DEF WriteHotEntityTables
    <2> QED BY <1>4, <2>1
  <1>6. TasksAgree'
    <2>1. ASSUME NEW t \in TaskIds, mem'["tasks"][t] # 0
          PROVE  rows'["tasks"][t] \in {mem["tasks"][t], rows["tasks"][t]}
      BY <1>3, <1>4, <2>1, TableNames DEF SInv, HintsAgree
    <2> QED BY <1>3, <2>1 DEF SInv, TasksAgree
  <1>7. \A t \in TaskIds : rows'["outbox"][t] = mem'["outbox"][t]
    <2>1. mem'["outbox"] = mem["outbox"] /\ hints["outbox"] = pending["outbox"]
      BY <1>2, TableNames
    <2>2. ASSUME NEW t \in TaskIds, t \notin hints["outbox"]
          PROVE  rows["outbox"][t] = mem["outbox"][t]
      BY <2>1, <2>2 DEF SInv, EventsHinted
    <2> QED BY <1>4, <2>1, <2>2, TableNames
  <1>8. TombsAgree'
    <2>1. mem'["tombstones"] = rows["tombstones"] /\ mem["tombstones"] = rows["tombstones"]
      BY <1>2, TableNames DEF SInv, TombsAgree
    <2>2. rows["tombstones"] \in Table /\ rows'["tombstones"] \in Table
      BY <1>5, TableNames DEF SInv, TypeOK, Table
    <2>3. \A i \in Ids : rows'["tombstones"][i] = rows["tombstones"][i]
      BY <1>4, <2>1, TableNames
    <2>4. rows'["tombstones"] = rows["tombstones"]
      BY <2>2, <2>3 DEF Table
    <2> QED BY <2>1, <2>4 DEF SInv, TombsAgree
  <1>9. snapshot' \in Seq([Tables -> Table]) /\ Len(snapshot') <= 1
    <2>1. snapshot \in Seq([Tables -> Table]) /\ Len(snapshot) <= 1
      BY DEF SInv, TypeOK, Table
    <2> QED BY <1>2, <2>1, OneRow
  <1>10. pending' = NoHints /\ recent' = TRUE /\ step' = AfterSave /\ UNCHANGED <<old, plan>>
    BY DEF PersistFull
  <1> QED BY <1>2, <1>5, <1>6, <1>7, <1>8, <1>9, <1>10, SaveStep

LEMMA WriteTombstoneStep ==
    ASSUME SInv, WriteTombstone
    PROVE  SInv'
  <1> DEFINE t == step.task
  <1>1. /\ mem' = [mem EXCEPT !["tombstones"][t] = 1]
        /\ rows' = [rows EXCEPT !["tombstones"][t] = 1]
        /\ pending' = [pending EXCEPT !["tombstones"] = @ \cup {t}]
        /\ step.at = "burying" /\ step' = Idle
        /\ UNCHANGED <<snapshot, recent, old, plan>>
    BY DEF WriteTombstone
  <1>2. /\ mem \in [Tables -> Table] /\ rows \in [HotTables -> Table]
        /\ pending \in [HotTables -> SUBSET Ids] /\ t \in TaskIds \cup {Nobody}
        /\ 1 \in Versions
    BY TableNames DEF SInv, TypeOK, Table
  <1>3. t \in TaskIds
    BY <1>1 DEF SInv, TaskToBury
  <1> HIDE DEF t
  <1>4. /\ mem' \in [Tables -> Table] /\ mem'["tombstones"] = [mem["tombstones"] EXCEPT ![t] = 1]
        /\ \A x \in Tables \ {"tombstones"} : mem'[x] = mem[x]
    BY <1>1, <1>2, <1>3, TableNames DEF Table
  <1>5. /\ rows' \in [HotTables -> Table]
        /\ rows'["tombstones"] = [rows["tombstones"] EXCEPT ![t] = 1]
        /\ \A x \in HotTables \ {"tombstones"} : rows'[x] = rows[x]
    BY <1>1, <1>2, <1>3, TableNames DEF Table
  <1>6. /\ pending' \in [HotTables -> SUBSET Ids]
        /\ \A x \in HotTables \ {"tombstones"} : pending'[x] = pending[x]
    BY <1>1, <1>2, <1>3, TableNames
  <1>7. TypeOK'
    BY <1>1, <1>4, <1>5, <1>6 DEF SInv, TypeOK, Table, Idle
  <1>8. TasksAgree' /\ EventsHinted'
    BY <1>1, <1>4, <1>5, TableNames DEF SInv, TasksAgree, EventsHinted
  <1>9. HintsAgree'
    BY <1>1, <1>6, TableNames DEF SInv, HintsAgree
  <1>10. TombsAgree'
    BY <1>4, <1>5 DEF SInv, TombsAgree
  <1> QED BY <1>1, <1>7, <1>8, <1>9, <1>10 DEF SInv, TaskToBury, Idle

LEMMA QuietStep ==
    ASSUME SInv, IntervalPasses \/ BuildCleanupPlan \/ \E t \in TaskIds : GrowOld(t)
    PROVE  SInv'
  <1>1. UNCHANGED <<mem, pending, rows, snapshot, step>>
    BY DEF IntervalPasses, BuildCleanupPlan, GrowOld
  <1>2. recent' \in BOOLEAN /\ old' \in SUBSET TaskIds /\ plan' \in SUBSET TaskIds
    <2>1. recent \in BOOLEAN /\ old \in SUBSET TaskIds /\ plan \in SUBSET TaskIds
      BY DEF SInv, TypeOK
    <2>2. CASE IntervalPasses
      BY <2>1, <2>2 DEF IntervalPasses
    <2>3. CASE BuildCleanupPlan
      BY <2>1, <2>3, DroppableFacts DEF BuildCleanupPlan
    <2>4. CASE \E t \in TaskIds : GrowOld(t)
      BY <2>1, <2>4 DEF GrowOld
    <2> QED BY <2>2, <2>3, <2>4
  <1> QED BY <1>1, <1>2 DEF SInv, TypeOK, TasksAgree, HintsAgree, EventsHinted, TombsAgree,
             TaskToBury

LEMMA ExecuteCleanupPlanStep ==
    ASSUME SInv, ExecuteCleanupPlan
    PROVE  SInv'
  <1>1. /\ step = Idle /\ plan \in Droppable(rows["tasks"])
        /\ rows' = [rows EXCEPT !["tasks"] = Without(rows["tasks"], plan)] /\ plan' = NoPlan
        /\ UNCHANGED <<mem, pending, snapshot, recent, step, old>>
    BY DEF ExecuteCleanupPlan, SInv, TypeOK
  <1>2. rows \in [HotTables -> Table] /\ rows["tasks"] \in Table
    BY TableNames DEF SInv, TypeOK, Table
  <1> DEFINE pruned == Without(rows["tasks"], plan)
  <1>3. pruned \in Table /\ \A t \in TaskIds : pruned[t] = IF t \in plan THEN 0 ELSE rows["tasks"][t]
    BY <1>2, WithoutFacts, TableNames
  <1> HIDE DEF pruned
  <1>4. /\ rows' \in [HotTables -> Table] /\ rows'["tasks"] = pruned
        /\ \A x \in HotTables \ {"tasks"} : rows'[x] = rows[x]
    BY <1>1, <1>2, <1>3, TableNames DEF pruned
  <1>5. TypeOK'
    BY <1>1, <1>4 DEF SInv, TypeOK, Table, NoPlan
  <1>6. TasksAgree'
    <2>1. \A t \in plan : rows["tasks"][t] = Last
      BY <1>1, DroppableFacts
    <2> QED BY <1>1, <1>3, <1>4, <2>1 DEF SInv, TasksAgree
  <1>7. HintsAgree'
    BY <1>1 DEF SInv, HintsAgree, Idle
  <1> QED BY <1>1, <1>4, <1>5, <1>6, <1>7, TableNames DEF SInv, EventsHinted, TombsAgree, TaskToBury

(* What a restart from the hot tables finds: the tasks K that it loads,    *)
(* without the ones that retention drops.                                  *)
LEMMA RestartFacts ==
    ASSUME SInv, Restart, LoadSource = "hot-tables"
    PROVE  /\ mem' \in [Tables -> Table]
           /\ mem'["tombstones"] = rows["tombstones"] /\ mem'["outbox"] = rows["outbox"]
           /\ \E K \in SUBSET Present(rows["tasks"]), S \in SUBSET Ids :
                 /\ K \ Terminal(rows["tasks"]) \in
                       Limited(Present(rows["tasks"]) \ Terminal(rows["tasks"]), LoadActive)
                 /\ \A i \in S : rows["tasks"][i] = Last
                 /\ \A i \in Ids : mem'["tasks"][i] = IF i \in K \ S THEN rows["tasks"][i] ELSE 0
  <1> DEFINE R == rows["tasks"]
             Snap(K) == [tasks |-> Without(R, Ids \ K), tombstones |-> rows["tombstones"],
                         outbox |-> rows["outbox"], briefs |-> Empty]
  <1>1. PICK loaded \in Load : \E S \in Droppable(loaded["tasks"]) :
            mem' = [loaded EXCEPT !["tasks"] = Without(@, S)]
    BY DEF Restart
  <1>2. PICK K \in SUBSET Present(R) :
            /\ K \ Terminal(R) \in Limited(Present(R) \ Terminal(R), LoadActive)
            /\ loaded = Snap(K)
    <2>1. loaded \in LoadHotRuntimeSnapshot
      BY <1>1 DEF Load
    <2>2. LoadHotRuntimeSnapshot =
            {Snap(K) : K \in {K \in SUBSET Present(R) :
                /\ K \ Terminal(R) \in Limited(Present(R) \ Terminal(R), LoadActive)
                /\ K \cap Terminal(R) \in Limited(Terminal(R), LoadTerminal)}}
      BY DEF LoadHotRuntimeSnapshot
    <2> HIDE DEF Snap, R
    <2> QED BY <2>1, <2>2
  <1> DEFINE L == Without(R, Ids \ K)
  <1>3. R \in Table /\ rows["tombstones"] \in Table /\ rows["outbox"] \in Table /\ Empty \in Table
    BY TableNames DEF SInv, TypeOK, Table, Empty
  <1>4. L \in Table /\ \A i \in Ids : L[i] = IF i \in K THEN R[i] ELSE 0
    BY <1>3, WithoutFacts
  <1>5. loaded["tasks"] = L /\ loaded \in [Tables -> Table]
        /\ loaded["tombstones"] = rows["tombstones"] /\ loaded["outbox"] = rows["outbox"]
    <2>1. /\ loaded["tasks"] = L /\ loaded["tombstones"] = rows["tombstones"]
          /\ loaded["outbox"] = rows["outbox"] /\ loaded["briefs"] = Empty
      BY <1>2
    <2>2. loaded = [x \in Tables |-> loaded[x]]
      BY <1>2, TableNames
    <2> HIDE DEF L
    <2> QED BY <1>3, <1>4, <2>1, <2>2, TableNames
  <1> HIDE DEF L
  <1>6. PICK S \in Droppable(L) : mem' = [loaded EXCEPT !["tasks"] = Without(L, S)]
    BY <1>1, <1>5
  <1>7. /\ Without(L, S) \in Table
        /\ \A i \in Ids : Without(L, S)[i] = IF i \in S THEN 0 ELSE L[i]
    BY <1>4, WithoutFacts
  <1>8. /\ mem' \in [Tables -> Table] /\ mem'["tasks"] = Without(L, S)
        /\ mem'["tombstones"] = rows["tombstones"] /\ mem'["outbox"] = rows["outbox"]
    BY <1>5, <1>6, <1>7, TableNames
  <1>9. S \in SUBSET Ids /\ \A i \in S : L[i] = Last
    BY <1>6, DroppableFacts, TableNames
  <1>10. \A i \in S : R[i] = Last
    BY <1>4, <1>9, TableNames
  <1>11. \A i \in Ids : mem'["tasks"][i] = IF i \in K \ S THEN R[i] ELSE 0
    BY <1>4, <1>7, <1>8
  <1> QED BY <1>2, <1>8, <1>9, <1>10, <1>11

LEMMA RestartStep ==
    ASSUME SInv, Restart, LoadSource = "hot-tables"
    PROVE  SInv'
  <1>1. /\ pending' = NoHints /\ recent' = TRUE /\ step' = Idle
        /\ UNCHANGED <<rows, snapshot, old, plan>>
    BY DEF Restart
  <1>2. /\ mem' \in [Tables -> Table] /\ pending' \in [HotTables -> SUBSET Ids]
        /\ pending'["tasks"] = {}
    BY <1>1, RestartFacts, TableNames DEF NoHints
  <1>3. TypeOK'
    <2>1. recent' \in BOOLEAN
      BY <1>1
    <2> QED BY <1>1, <1>2, <2>1 DEF SInv, TypeOK, Table, Idle
  <1>4. TasksAgree'
    <2>1. \A i \in Ids : mem'["tasks"][i] \in {0, rows["tasks"][i]}
      BY RestartFacts
    <2> QED BY <1>1, <2>1, TableNames DEF TasksAgree
  <1> QED BY <1>1, <1>2, <1>3, <1>4, RestartFacts DEF SInv, HintsAgree, EventsHinted, TombsAgree,
             TaskToBury, Idle

LEMMA NextSInv ==
    ASSUME LoadSource = "hot-tables", SInv, [Next]_vars
    PROVE  SInv'
  <1>1. ASSUME NEW t \in TaskIds, ReadTask(t) \/ UpdateTask(t) \/ GrowOld(t) PROVE SInv'
    BY <1>1, ReadTaskStep, UpdateTaskStep, QuietStep
  <1>2. CASE UNCHANGED vars
    BY <1>2 DEF vars, SInv, TypeOK, TasksAgree, HintsAgree, EventsHinted, TombsAgree, TaskToBury
  <1> QED BY <1>1, <1>2, AckEventStep, IngestBriefStep, PersistHotStep, PersistFullStep,
             WriteTombstoneStep, QuietStep, ExecuteCleanupPlanStep, RestartStep DEF Next

LEMMA SInvHolds ==
    ASSUME LoadSource = "hot-tables"
    PROVE  Spec => []SInv
  <1>1. Init => SInv
    BY InitSInv
  <1>2. SInv /\ [Next]_vars => SInv'
    BY NextSInv
  <1> QED BY <1>1, <1>2, PTL DEF Spec

(* On a broker that loads from its hot tables, whatever mix of hot saves,  *)
(* full saves, retention, cleanups, crashes and restarts ran, no save can  *)
(* write a row backwards, and between requests every terminal event of a   *)
(* local task is in its row.                                               *)
THEOREM StoreInvHolds ==
    ASSUME LoadSource = "hot-tables"
    PROVE  Spec => []StoreInv
  <1>1. ASSUME SInv PROVE MemoryNotStale
    <2>1. \A t \in TaskIds : rows["tasks"][t] \in Nat /\ mem["tasks"][t] \in Nat
      <3>1. rows["tasks"] \in Table /\ mem["tasks"] \in Table
        BY <1>1, TableNames DEF SInv, TypeOK, Table
      <3> QED BY <3>1, TableNames DEF Table, Versions
    <2> QED BY <1>1, <2>1, TableNames DEF SInv, TasksAgree, MemoryNotStale
  <1>2. SInv => EventsSaved
    BY DEF SInv, EventsHinted, EventsSaved, Idle
  <1>3. SInv => StoreInv
    BY <1>1, <1>2 DEF SInv, StoreInv
  <1> QED BY <1>3, SInvHolds, PTL

(* A tombstone row survives every later save, prune, crash and restart.    *)
THEOREM TombstonesKeptHolds ==
    ASSUME LoadSource = "hot-tables"
    PROVE  Spec => TombstonesKept
  <1>1. ASSUME SInv, [Next]_vars
        PROVE  [\A t \in TaskIds : rows["tombstones"][t] <= rows["tombstones"]'[t]]_vars
    <2>1. SInv'
      BY <1>1, NextSInv
    <2>2. ASSUME NEW t \in TaskIds PROVE rows["tombstones"][t] \in Nat
      <3>1. rows["tombstones"] \in Table
        BY <1>1, TableNames DEF SInv, TypeOK, Table
      <3> QED BY <3>1, TableNames DEF Table, Versions
    <2>3. CASE mem'["tombstones"] \in {mem["tombstones"], rows["tombstones"]}
      <3>1. rows'["tombstones"] = rows["tombstones"]
        BY <1>1, <2>1, <2>3 DEF SInv, TombsAgree
      <3> QED BY <2>2, <3>1
    <2>4. CASE WriteTombstone
      <3>1. rows["tombstones"] \in Table /\ step.task \in TaskIds
            /\ rows' = [rows EXCEPT !["tombstones"][step.task] = 1] /\ rows \in [HotTables -> Table]
        BY <1>1, <2>4, TableNames DEF WriteTombstone, SInv, TypeOK, Table, TaskToBury
      <3>2. rows'["tombstones"] = [rows["tombstones"] EXCEPT ![step.task] = 1]
        BY <3>1, TableNames
      <3>3. \A i \in Ids : rows["tombstones"][i] \in {0, 1}
        BY <1>1 DEF SInv, TombsAgree
      <3> QED BY <2>2, <3>1, <3>2, <3>3, TableNames DEF Table
    <2>5. UNCHANGED vars \/ WriteTombstone
          \/ mem'["tombstones"] \in {mem["tombstones"], rows["tombstones"]}
      <3>1. ASSUME NEW t \in TaskIds, ReadTask(t) \/ UpdateTask(t) \/ GrowOld(t)
            PROVE  mem'["tombstones"] = mem["tombstones"]
        BY <1>1, <3>1, TableNames DEF ReadTask, UpdateTask, GrowOld, SInv, TypeOK
      <3>2. ASSUME NEW i \in Ids, AckEvent(i) PROVE mem'["tombstones"] = mem["tombstones"]
        BY <1>1, <3>2, TableNames DEF AckEvent, SInv, TypeOK
      <3>3. ASSUME NEW b \in BriefIds, IngestBrief(b) PROVE mem'["tombstones"] = mem["tombstones"]
        BY <1>1, <3>3, TableNames DEF IngestBrief, SInv, TypeOK
      <3>4. CASE PersistFull
        BY <1>1, <3>4, PersistFullFacts, TableNames
      <3>5. CASE PersistHot \/ IntervalPasses \/ BuildCleanupPlan \/ ExecuteCleanupPlan
        BY <3>5 DEF PersistHot, IntervalPasses, BuildCleanupPlan, ExecuteCleanupPlan
      <3>6. CASE Restart
        BY <1>1, <3>6, RestartFacts
      <3> QED BY <1>1, <3>1, <3>2, <3>3, <3>4, <3>5, <3>6 DEF Next
    <2> QED BY <2>2, <2>3, <2>4, <2>5
  <1> QED BY <1>1, SInvHolds, PTL DEF Spec, TombstonesKept

-----------------------------------------------------------------------------
(* Refinement.  When every active row is loaded at a start, memory lacks   *)
(* only terminal records.                                                  *)

LoadedInv ==
    /\ \A t \in TaskIds : mem["tasks"][t] = 0 => rows["tasks"][t] \in {0, Last}
    /\ \A i \in Ids \ TaskIds : rows["tasks"][i] = 0 /\ mem["tasks"][i] = 0

RInv == SInv /\ LoadedInv

(* Task t is as it was, or was terminal and is gone.                       *)
KeptOrGone(t) == Current(t)' = Current(t) \/ (Current(t) = Last /\ Current(t)' = 0)

LEMMA TaskTables ==
    ASSUME SInv
    PROVE  /\ mem["tasks"] \in Table /\ rows["tasks"] \in Table
           /\ mem \in [Tables -> Table] /\ rows \in [HotTables -> Table]
  BY TableNames DEF SInv, TypeOK, Table

LEMMA SameTasks ==
    ASSUME RInv, \A i \in Ids : rows'["tasks"][i] = rows["tasks"][i],
           \A i \in Ids : mem'["tasks"][i] = mem["tasks"][i]
    PROVE  LoadedInv' /\ \A t \in TaskIds : KeptOrGone(t)
  BY TableNames DEF RInv, LoadedInv, KeptOrGone, Current

LEMMA OtherActions ==
    ASSUME RInv, \/ \E t \in TaskIds : GrowOld(t)
                 \/ \E i \in Ids : AckEvent(i)
                 \/ \E b \in BriefIds : IngestBrief(b)
                 \/ PersistHot \/ WriteTombstone \/ IntervalPasses \/ BuildCleanupPlan
    PROVE  LoadedInv' /\ \A t \in TaskIds : KeptOrGone(t)
  <1>1. CASE (\E t \in TaskIds : GrowOld(t)) \/ IntervalPasses \/ BuildCleanupPlan
    <2>1. UNCHANGED <<mem, rows>>
      BY <1>1 DEF GrowOld, IntervalPasses, BuildCleanupPlan
    <2> QED BY <2>1, SameTasks
  <1>2. CASE \E i \in Ids : AckEvent(i)
    <2>1. rows' = rows /\ mem'["tasks"] = mem["tasks"]
      BY <1>2, TaskTables, TableNames DEF AckEvent, RInv
    <2> QED BY <2>1, SameTasks
  <1>3. CASE \E b \in BriefIds : IngestBrief(b)
    <2>1. rows' = rows /\ mem'["tasks"] = mem["tasks"]
      BY <1>3, TaskTables, TableNames DEF IngestBrief, RInv
    <2> QED BY <2>1, SameTasks
  <1>4. CASE WriteTombstone
    <2>1. rows'["tasks"] = rows["tasks"] /\ mem'["tasks"] = mem["tasks"]
      BY <1>4, TaskTables, TableNames DEF WriteTombstone, RInv
    <2> QED BY <2>1, SameTasks
  <1>5. CASE PersistHot
    <2>1. /\ mem' = mem
          /\ \A i \in Ids : rows'["tasks"][i] = IF i \in pending["tasks"] THEN mem["tasks"][i]
                                                ELSE rows["tasks"][i]
      BY <1>5, TableNames DEF PersistHot, UpsertHints
    <2>2. \A i \in Ids : rows'["tasks"][i] = rows["tasks"][i]
      BY <2>1 DEF RInv, SInv, HintsAgree
    <2> QED BY <2>1, <2>2, SameTasks
  <1> QED BY <1>1, <1>2, <1>3, <1>4, <1>5

LEMMA ReadTaskKeeps ==
    ASSUME RInv, NEW t \in TaskIds, ReadTask(t)
    PROVE  LoadedInv' /\ \A u \in TaskIds : KeptOrGone(u)
  <1> DEFINE v == rows["tasks"][t]
  <1>1. v # 0 /\ rows' = rows /\ mem' = [mem EXCEPT !["tasks"][t] = v]
    BY DEF ReadTask
  <1> HIDE DEF v
  <1>2. mem'["tasks"] = [mem["tasks"] EXCEPT ![t] = v]
    BY <1>1, TaskTables, TableNames DEF RInv
  <1>3. mem'["tasks"][t] = v /\ \A i \in Ids \ {t} : mem'["tasks"][i] = mem["tasks"][i]
    BY <1>2, TaskTables, TableNames DEF RInv, Table
  <1>4. LoadedInv'
    BY <1>1, <1>3, TableNames DEF RInv, LoadedInv
  <1>5. \A u \in TaskIds : Current(u)' = Current(u)
    BY <1>1, <1>3, TableNames DEF Current, v
  <1> QED BY <1>4, <1>5 DEF KeptOrGone

LEMMA PersistFullKeeps ==
    ASSUME RInv, PersistFull
    PROVE  LoadedInv' /\ \A t \in TaskIds : KeptOrGone(t)
  <1>1. PICK S \in Droppable(mem["tasks"]) :
             LET hints == [pending EXCEPT !["tasks"] = @ \ S]
             IN /\ mem' \in [Tables -> Table] /\ mem'["tasks"] = Without(mem["tasks"], S)
                /\ rows' = WriteHotEntityTables(mem', hints)
                /\ hints \in [HotTables -> SUBSET Ids] /\ hints["tasks"] = pending["tasks"] \ S
    BY PersistFullFacts DEF RInv
  <1> DEFINE hints == [pending EXCEPT !["tasks"] = @ \ S]
  <1>2. /\ mem' \in [Tables -> Table] /\ mem'["tasks"] = Without(mem["tasks"], S)
        /\ rows' = WriteHotEntityTables(mem', hints)
        /\ hints \in [HotTables -> SUBSET Ids] /\ hints["tasks"] = pending["tasks"] \ S
    BY <1>1
  <1> HIDE DEF hints
  <1>3. \A i \in Ids : mem'["tasks"][i] = IF i \in S THEN 0 ELSE mem["tasks"][i]
    BY <1>2, TaskTables, WithoutFacts DEF RInv
  <1>4. S \subseteq TaskIds /\ \A t \in S : mem["tasks"][t] = Last
    BY DroppableFacts
  <1>5. /\ HasHints(hints) /\ hints["tasks"] = {} => rows'["tasks"] = rows["tasks"]
        /\ HasHints(hints) /\ hints["tasks"] # {} =>
             \A i \in Ids : rows'["tasks"][i] =
                IF i \in hints["tasks"] THEN mem["tasks"][i]
                ELSE IF mem'["tasks"][i] = 0 THEN 0 ELSE rows["tasks"][i]
        /\ ~HasHints(hints) => rows'["tasks"] = mem'["tasks"]
    BY <1>2, WrittenFacts, TableNames DEF RInv, SInv
  <1>6. ASSUME NEW i \in Ids
        PROVE  \/ rows'["tasks"][i] = rows["tasks"][i]
               \/ rows'["tasks"][i] = mem'["tasks"][i]
    <2>1. i \in hints["tasks"] => i \notin S /\ mem["tasks"][i] = mem'["tasks"][i]
      BY <1>2, <1>3
    <2> QED BY <1>5, <2>1
  <1>7. ASSUME NEW t \in TaskIds
        PROVE  /\ mem'["tasks"][t] = 0 => rows'["tasks"][t] \in {0, Last}
               /\ KeptOrGone(t)
    <2>1. /\ mem["tasks"][t] = 0 => rows["tasks"][t] \in {0, Last}
          /\ \/ mem["tasks"][t] = 0 \/ mem["tasks"][t] = rows["tasks"][t]
             \/ mem["tasks"][t] = Last /\ rows["tasks"][t] = 0
      BY DEF RInv, LoadedInv, SInv, TasksAgree
    <2>2. /\ mem'["tasks"][t] = mem["tasks"][t] \/ (mem'["tasks"][t] = 0 /\ mem["tasks"][t] = Last)
          /\ rows'["tasks"][t] \in {rows["tasks"][t], mem'["tasks"][t]}
      BY <1>3, <1>4, <1>6, TableNames
    <2> QED BY <2>1, <2>2, TableNames DEF KeptOrGone, Current
  <1>8. \A i \in Ids \ TaskIds : rows'["tasks"][i] = 0 /\ mem'["tasks"][i] = 0
    BY <1>3, <1>6 DEF RInv, LoadedInv
  <1> QED BY <1>7, <1>8 DEF LoadedInv

LEMMA ExecuteCleanupPlanKeeps ==
    ASSUME RInv, ExecuteCleanupPlan
    PROVE  LoadedInv' /\ \A t \in TaskIds : KeptOrGone(t)
  <1>1. /\ mem' = mem /\ plan \in Droppable(rows["tasks"])
        /\ rows'["tasks"] = Without(rows["tasks"], plan)
    BY TaskTables, TableNames DEF ExecuteCleanupPlan, RInv
  <1>2. /\ \A i \in Ids : rows'["tasks"][i] = IF i \in plan THEN 0 ELSE rows["tasks"][i]
        /\ plan \subseteq TaskIds /\ \A t \in plan : rows["tasks"][t] = Last
    BY <1>1, TaskTables, WithoutFacts, DroppableFacts DEF RInv
  <1>3. LoadedInv'
    BY <1>1, <1>2, TableNames DEF RInv, LoadedInv
  <1>4. ASSUME NEW t \in TaskIds PROVE KeptOrGone(t)
    <2>1. \/ mem["tasks"][t] = 0 \/ mem["tasks"][t] = rows["tasks"][t]
          \/ mem["tasks"][t] = Last /\ rows["tasks"][t] = 0
      BY DEF RInv, SInv, TasksAgree
    <2> QED BY <1>1, <1>2, <2>1, TableNames DEF KeptOrGone, Current
  <1> QED BY <1>3, <1>4

LEMMA RestartKeeps ==
    ASSUME LoadSource = "hot-tables", Cardinality(TaskIds) <= LoadActive, RInv, Restart
    PROVE  LoadedInv' /\ \A t \in TaskIds : KeptOrGone(t)
  <1> DEFINE R == rows["tasks"]
             active == Present(R) \ Terminal(R)
  <1>1. PICK K \in SUBSET Present(R), S \in SUBSET Ids :
           /\ K \ Terminal(R) \in Limited(active, LoadActive)
           /\ \A i \in S : R[i] = Last
           /\ \A i \in Ids : mem'["tasks"][i] = IF i \in K \ S THEN R[i] ELSE 0
    BY RestartFacts DEF RInv
  <1>2. active \in SUBSET TaskIds
    BY DEF Present, RInv, LoadedInv
  <1>3. IsFiniteSet(active) /\ Cardinality(active) <= LoadActive /\ Cardinality(active) \in Nat
    <2>1. IsFiniteSet(active) /\ Cardinality(active) <= Cardinality(TaskIds)
      BY <1>2, FS_Subset, IdsAssumption
    <2>2. Cardinality(active) \in Nat /\ Cardinality(TaskIds) \in Nat
      BY <2>1, FS_CardinalityType, IdsAssumption
    <2> HIDE DEF active
    <2> QED BY <2>1, <2>2, CapsNatural
  <1> HIDE DEF active
  <1>4. Min({LoadActive, Cardinality(active)}) = Cardinality(active)
    BY <1>3, CapsNatural DEF Min
  <1>5. active \subseteq K
    <2> DEFINE G == K \ Terminal(R)
    <2>1. G \in SUBSET active /\ Cardinality(G) = Cardinality(active)
      BY <1>1, <1>4 DEF Limited
    <2>2. G = active
      <3> HIDE DEF G
      <3> QED BY <1>3, <2>1, FS_Subset
    <2> QED BY <2>2
  <1>6. rows' = rows
    BY DEF Restart
  <1>7. ASSUME NEW t \in TaskIds
        PROVE  /\ mem'["tasks"][t] = 0 => rows'["tasks"][t] \in {0, Last}
               /\ KeptOrGone(t)
    <2>1. R[t] # 0 /\ R[t] # Last => t \in K \ S
      BY <1>1, <1>5, TableNames DEF active, Present, Terminal
    <2>2. mem'["tasks"][t] \in {0, R[t]}
      BY <1>1, TableNames
    <2>3. R[t] = 0 => mem["tasks"][t] \in {0, Last}
      BY DEF RInv, SInv, TasksAgree
    <2>4. mem'["tasks"][t] = 0 => R[t] \in {0, Last}
      BY <1>1, <2>1, TableNames
    <2>5. KeptOrGone(t)
      BY <1>6, <2>2, <2>3, TableNames DEF KeptOrGone, Current
    <2> QED BY <1>6, <2>4, <2>5
  <1>8. \A i \in Ids \ TaskIds : rows'["tasks"][i] = 0 /\ mem'["tasks"][i] = 0
    BY <1>1, <1>6 DEF RInv, LoadedInv
  <1> QED BY <1>7, <1>8 DEF LoadedInv

LEMMA CurrentTyped ==
    ASSUME SInv, NEW t \in TaskIds
    PROVE  Current(t) \in 0..Last
  <1>1. rows["tasks"][t] \in Versions /\ mem["tasks"][t] \in Versions
    BY TaskTables, TableNames DEF Table
  <1> QED BY <1>1 DEF Current, Versions

(* A request moves its task one version on, for every reader.              *)
LEMMA UpdateTaskAdvances ==
    ASSUME RInv, NEW t \in TaskIds, UpdateTask(t)
    PROVE  /\ LoadedInv'
           /\ Current(t) < Last /\ Current(t)' = Current(t) + 1
           /\ \A u \in TaskIds \ {t} : Current(u)' = Current(u)
  <1> DEFINE c == Current(t)
             v == c + 1
             o == IF v = Last THEN 1 ELSE mem["outbox"][t]
  <1>1. /\ v <= Last
        /\ mem' = [mem EXCEPT !["tasks"][t] = v, !["outbox"][t] = o]
        /\ rows' = [rows EXCEPT !["tasks"][t] = v]
    BY TaskTables, TableNames DEF UpdateTask, RInv, Table
  <1>2. c \in 0..Last
    BY CurrentTyped DEF RInv
  <1> HIDE DEF c, o
  <1>3. v # 0 /\ c < Last /\ v \in Nat
    BY <1>1, <1>2, TableNames
  <1> HIDE DEF v
  <1>4. /\ mem'["tasks"] = [mem["tasks"] EXCEPT ![t] = v]
        /\ rows'["tasks"] = [rows["tasks"] EXCEPT ![t] = v]
    BY <1>1, TaskTables, TableNames DEF RInv
  <1>5. /\ mem'["tasks"][t] = v /\ rows'["tasks"][t] = v
        /\ \A i \in Ids \ {t} : /\ mem'["tasks"][i] = mem["tasks"][i]
                                /\ rows'["tasks"][i] = rows["tasks"][i]
    BY <1>4, TaskTables, TableNames DEF RInv, Table
  <1>6. LoadedInv'
    BY <1>3, <1>5, TableNames DEF RInv, LoadedInv
  <1>7. Current(t)' = v /\ \A u \in TaskIds \ {t} : Current(u)' = Current(u)
    BY <1>3, <1>5, TableNames DEF Current
  <1> QED BY <1>3, <1>6, <1>7 DEF v, c

(* Steps that keep or forget each task implement Forget.                   *)
LEMMA ForgetsOnly ==
    ASSUME \A t \in TaskIds : KeptOrGone(t)
    PROVE  \E S \in SUBSET TaskIds : Durable!Forget(S)
  <1> DEFINE S == {t \in TaskIds : Current(t)' # Current(t)}
  <1>1. \A t \in S : Visible[t] = Last
    BY DEF KeptOrGone, Visible
  <1>2. \A t \in TaskIds : Current(t)' = IF t \in S THEN 0 ELSE Visible[t]
    BY DEF KeptOrGone, Visible
  <1>3. Visible' = [t \in TaskIds |-> Current(t)']
    BY DEF Visible
  <1> HIDE DEF S
  <1>4. Visible' = [t \in TaskIds |-> IF t \in S THEN 0 ELSE Visible[t]]
    BY <1>2, <1>3
  <1>5. S \in SUBSET TaskIds
    BY DEF S
  <1> QED BY <1>1, <1>4, <1>5 DEF Durable!Forget

LEMMA NextRInv ==
    ASSUME LoadSource = "hot-tables", Cardinality(TaskIds) <= LoadActive, RInv, [Next]_vars
    PROVE  RInv' /\ [Durable!DurableNext]_Visible
  <1>1. SInv'
    BY NextSInv DEF RInv
  <1>2. ASSUME NEW t \in TaskIds, UpdateTask(t)
        PROVE  LoadedInv' /\ Durable!DurableNext
    <2>1. /\ Current(t) < Last /\ Current(t)' = Current(t) + 1
          /\ \A u \in TaskIds \ {t} : Current(u)' = Current(u)
      BY <1>2, UpdateTaskAdvances
    <2>2. Visible' = [u \in TaskIds |-> Current(u)']
      BY DEF Visible
    <2>3. Visible' = [Visible EXCEPT ![t] = @ + 1] /\ Visible[t] < Last
      BY <2>1, <2>2 DEF Visible
    <2> QED BY <1>2, <2>3, UpdateTaskAdvances DEF Durable!DurableNext, Durable!Advance
  <1>3. CASE UNCHANGED vars
    <2>1. LoadedInv' /\ Visible' = Visible
      BY <1>3 DEF vars, RInv, LoadedInv, Visible, Current
    <2> QED BY <1>1, <2>1 DEF RInv
  <1>4. CASE LoadedInv' /\ \A t \in TaskIds : KeptOrGone(t)
    BY <1>1, <1>4, ForgetsOnly DEF Durable!DurableNext, RInv
  <1>5. ASSUME NEW t \in TaskIds, ReadTask(t)
        PROVE  LoadedInv' /\ \A u \in TaskIds : KeptOrGone(u)
    BY <1>5, ReadTaskKeeps
  <1>6. \/ UNCHANGED vars \/ (\E t \in TaskIds : UpdateTask(t))
        \/ LoadedInv' /\ \A t \in TaskIds : KeptOrGone(t)
    BY <1>5, OtherActions, PersistFullKeeps, ExecuteCleanupPlanKeeps, RestartKeeps DEF Next
  <1> QED BY <1>1, <1>2, <1>3, <1>4, <1>6 DEF RInv

LEMMA InitRInv == Init => RInv /\ Durable!DurableInit
  <1> SUFFICES ASSUME Init PROVE RInv /\ Durable!DurableInit
    OBVIOUS
  <1>1. SInv
    BY InitSInv
  <1>2. PICK imported \in [TaskIds -> Versions] :
          /\ mem = [t \in Tables |->
                  IF t = "tasks"
                  THEN [i \in Ids |-> IF i \in TaskIds THEN imported[i] ELSE 0]
                  ELSE Empty]
          /\ rows = [t \in HotTables |-> mem[t]]
    BY TableNames DEF Init
  <1>3. /\ rows["tasks"] = mem["tasks"]
        /\ mem["tasks"] = [i \in Ids |-> IF i \in TaskIds THEN imported[i] ELSE 0]
    BY <1>2, TableNames
  <1>4. LoadedInv
    BY <1>3 DEF LoadedInv
  <1>5. Visible \in [TaskIds -> 0..Last]
    BY <1>1, CurrentTyped DEF Visible
  <1> QED BY <1>1, <1>4, <1>5 DEF RInv, Durable!DurableInit

(* A broker that loads from hot tables whose active rows all fit under the *)
(* load cap implements DurableRecords: for a reader of getTask, every      *)
(* save path, retention pass, cleanup, crash and restart only moves a task *)
(* one version on, or forgets a task that was terminal.                    *)
THEOREM RecordsDurableHolds ==
    ASSUME LoadSource = "hot-tables", Cardinality(TaskIds) <= LoadActive
    PROVE  Spec => RecordsDurable
  <1>1. RInv /\ [Next]_vars => RInv' /\ [Durable!DurableNext]_Visible
    BY NextRInv
  <1>2. Init => RInv /\ Durable!DurableInit
    BY InitRInv
  <1> QED BY <1>1, <1>2, PTL DEF Spec, RecordsDurable, Durable!DurableSpec
=============================================================================
