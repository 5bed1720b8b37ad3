-------------------------- MODULE BrokerLinksProofs --------------------------
(***************************************************************************)
(* Proofs about what the broker's records say of each other: a task and    *)
(* the records it names, its announcements, its tombstone, its lineage and *)
(* the exchange that follows it, for every value of the constants.         *)
(***************************************************************************)
EXTENDS BrokerProofs

(* The records task r names exist in the Maps E, P and W.                  *)
RefsOK(r, E, P, W) ==
    /\ r.exchange # None => E[r.exchange].status # "none"
    /\ r.proposal # None => P[r.proposal].status # "none"
    /\ IsLive(r) => W[r.target] # "none" /\ W[r.assigned] # "none"

(* A restart goes back to the saved exchanges, so they count as well.      *)
RefsInv ==
    \A t \in Tasks : /\ RefsOK(tasks[t], exchanges, proposals, workers)
                     /\ RefsOK(tasks[t], disk.exchanges, proposals, workers)

(* The announcements of a task tell each of its ends, and leave room for   *)
(* the end of a live one.                                                  *)
LifeOK(r, log) ==
    /\ IsTerminal(r) => log # <<>> /\ log[Len(log)] = r.status
    /\ Len(log) <= MaxLives
    /\ IsLive(r) => Len(log) < MaxLives /\ r.error = "none"

Told(log, status) == \E i \in DOMAIN log : log[i] = status

LineageOK(r, log) ==
    r.canceledFrom \in Tasks => r.parent = r.canceledFrom /\ Told(log[r.parent], "canceled")

Tells(z, r) ==
    /\ z = "canceled" => r.status = "canceled"
    /\ z = "failed" => r.status = "failed" /\ r.error = "worker"
    /\ z = "dead_lettered" <=> r.error = "exceeded_requeue_limit"

(* A tombstone is of a task that ended; it tells of this life only when    *)
(* there is no other.                                                      *)
TombOK(z, r, log) ==
    /\ z # "none" => log # <<>>
    /\ MaxLives = 1 /\ r.status # "none" => Tells(z, r)

LifeInv ==
    \A t \in Tasks : /\ LifeOK(tasks[t], outbox[t])
                     /\ LineageOK(tasks[t], outbox)
                     /\ TombOK(tombstones[t], tasks[t], outbox[t])
                     /\ TombOK(disk.tombstones[t], tasks[t], outbox[t])

(* Where ids are used once, the active task of exchange e is a task of e   *)
(* or was dropped, and record x of e agrees with it.                       *)
ActiveOK(x, e, T, log) ==
    MaxLives = 1 /\ x.active # None =>
        LET a == T[x.active] IN
        \/ a.status = "none" /\ log[x.active] # <<>>
        \/ /\ a.status # "none" /\ a.exchange = e
           /\ IsLive(a) => x.target = a.target /\ x.assigned = a.assigned
           /\ x.status = "completed" /\ IsTerminal(a) => a.status = "succeeded"

FollowInv ==
    \A e \in Exchanges : /\ ActiveOK(exchanges[e], e, tasks, outbox)
                         /\ ActiveOK(disk.exchanges[e], e, tasks, outbox)

LInv == IInv /\ RefsInv /\ LifeInv /\ FollowInv

-----------------------------------------------------------------------------
(* What one step makes of a task r: it keeps what the invariants read, is  *)
(* worked on while live, ends, or begins.                                  *)

SameLinks(q, r) ==
    /\ q.parent = r.parent /\ q.exchange = r.exchange
    /\ q.proposal = r.proposal /\ q.intent = r.intent

SameRoute(q, r) == q.target = r.target /\ q.assigned = r.assigned

Kept(q, r) ==
    /\ SameLinks(q, r) /\ SameRoute(q, r)
    /\ q.status = r.status /\ q.error = r.error /\ q.canceledFrom = r.canceledFrom

Worked(q, r) ==
    /\ SameLinks(q, r) /\ IsLive(r) /\ IsLive(q)
    /\ q.error \in {r.error, "none"} /\ q.canceledFrom = r.canceledFrom
    /\ SameRoute(q, r) \/ (Registered(q.target) /\ Registered(q.assigned))

Ended(q, r) == SameLinks(q, r) /\ SameRoute(q, r) /\ IsLive(r) /\ IsTerminal(q)

Created(q, r) ==
    /\ r.status = "none" /\ IsLive(q) /\ q.error = "none" /\ q.canceledFrom = None
    /\ Registered(q.target) /\ Registered(q.assigned)
    /\ q.exchange # None => exchanges[q.exchange].status # "none"
    /\ q.proposal # None => proposals[q.proposal].status # "none"

(* The proposals P hold the effect of an apply task r that succeeds.       *)
AppliedIn(P, r) ==
    r.intent = "apply_local_change" /\ r.proposal # None =>
        /\ proposals[r.proposal].status = "approved"
        /\ P[r.proposal].status = "applied" /\ P[r.proposal].fresh

TaskMove(t, q, P) ==
    \/ /\ outbox'[t] = outbox[t]
       /\ \/ Kept(q, tasks[t])
          \/ Worked(q, tasks[t])
          \/ Created(q, tasks[t]) /\ Len(outbox[t]) < MaxLives
    \/ /\ Ended(q, tasks[t])
       /\ outbox'[t] = Append(outbox[t], q.status)
       /\ q.status = "succeeded" => AppliedIn(P, tasks[t])
       /\ \/ q.canceledFrom \in {tasks[t].canceledFrom, "request"}
          \/ /\ q.canceledFrom = q.parent
             /\ outbox'[q.parent] = Append(outbox[q.parent], "canceled")

(* A tombstone z of task t is an old one, or tells of the end in this step. *)
TombMove(t, q, z) ==
    \/ /\ z \in {tombstones[t], disk.tombstones[t]}
       /\ Ended(q, tasks[t]) => q.error # "exceeded_requeue_limit"
    \/ Ended(q, tasks[t]) /\ Tells(z, q)

SameExchange(y, x) == y.status = x.status /\ y.active = x.active /\ SameRoute(y, x)

Undisturbed(q, r) ==
    /\ SameLinks(q, r) /\ SameRoute(q, r)
    /\ q.status = r.status \/ (IsLive(q) /\ IsLive(r))

Follows(y, e, q) ==
    /\ q.exchange = e /\ q.status # "none" /\ SameRoute(y, q)
    /\ y.status = "completed" /\ IsTerminal(q) => q.status = "succeeded"

(* The routing of x disagrees with its live active task or the registry.   *)
Astray(x) ==
    \/ x.assigned = None \/ ~Registered(x.assigned) \/ ~Registered(x.target)
    \/ ~SameRoute(x, tasks[x.active])

(* What one step makes of exchange e, beside tasks T: nothing, while its   *)
(* tasks are undisturbed; it follows one of its tasks; it has no active    *)
(* task, or none that is live; it follows the task that was active; or a   *)
(* message was refused for its routing.                                    *)
ExchangeMove(e, y, T) ==
    LET x == exchanges[e] IN
    \/ /\ SameExchange(y, x) \/ SameExchange(y, disk.exchanges[e])
       /\ \A t \in Tasks : tasks[t].status # "none" /\ tasks[t].exchange = e =>
             Undisturbed(T[t], tasks[t]) \/ \E f \in Exchanges \ {e} : exchanges[f].active = t
    \/ y.active \in Tasks /\ Follows(y, e, T[y.active])
    \/ y.active = None
    \/ /\ y.active = x.active /\ ~ReusesTask(x)
       /\ y.status = x.status \/ y.status # "completed"
       /\ \A t \in Tasks : Kept(T[t], tasks[t])
    \/ /\ y.active = x.active /\ ReusesTask(x) /\ y.status # "completed"
       /\ SameLinks(T[y.active], tasks[y.active]) /\ T[y.active].status # "none"
       /\ y.target = T[y.active].target
       /\ y.assigned = T[y.active].assigned \/ x.assigned = None
    \/ ReusesTask(x) /\ Astray(x)

(* No record that exists in the old Map is missing in the new one.         *)
GrowsE(E) == \A e \in Exchanges : exchanges[e].status # "none" => E[e].status # "none"
GrowsP(P) == \A p \in Proposals : proposals[p].status # "none" => P[p].status # "none"
GrowsW(W) == \A w \in Workers : workers[w] # "none" => W[w] # "none"

(* The Maps a handler has written, before they are saved with tombs.       *)
Written(T, E, P, W, tombs) ==
    /\ \A t \in Tasks : /\ TaskMove(t, T[t], P)
                        /\ TombMove(t, T[t], tombs[t])
                        /\ TombMove(t, T[t], tombstones'[t])
    /\ \A e \in Exchanges : ExchangeMove(e, E[e], T)
    /\ GrowsE(E) \/ (E = disk.exchanges /\ \A t \in Tasks : Kept(T[t], tasks[t]))
    /\ GrowsP(P) /\ GrowsW(W)

SavedStep == \E T, E, P, W, tombs : Persist(T, E, P, W, tombs) /\ Written(T, E, P, W, tombs)

(* A step that saves nothing changes no task but its age.                  *)
UnsavedStep ==
    /\ Written(tasks', exchanges', proposals', workers', disk'.tombstones)
    /\ disk'.tombstones = disk.tombstones /\ tombstones' = tombstones
    /\ \A e \in Exchanges : SameExchange(disk'.exchanges[e], disk.exchanges[e])
    /\ \A t \in Tasks : Kept(tasks'[t], tasks[t])

-----------------------------------------------------------------------------
(* What persistState keeps: a task that is live or fresh, a proposal that  *)
(* is fresh, and whatever a kept task names.                               *)

LEMMA PersistKeeps ==
    ASSUME NEW T, NEW E, NEW P, NEW W, NEW tombs, Persist(T, E, P, W, tombs)
    PROVE  \E retT, retE, retP, retW :
             /\ SaveRetained(T, E, P, W, tombs, retT, retE, retP, retW)
             /\ \A t \in Tasks \ retT : IsTerminal(T[t])
             /\ \A p \in Proposals \ retP : ~P[p].fresh
             /\ \A t \in retT :
                   /\ T[t].exchange \in Exchanges => T[t].exchange \in retE
                   /\ T[t].proposal \in Proposals => T[t].proposal \in retP
                   /\ T[t].target \in Workers => T[t].target \in retW
                   /\ T[t].assigned \in Workers => T[t].assigned \in retW
  <1>1. PICK ownE : RetainTasks(T, E, P, W, tombs, ownE)
    BY DEF Persist
  <1>2. PICK keptT : RetainProposals(T, E, P, W, tombs,
                         Retained(Tasks, ExpiredTasks(T, E, ownE), keptT),
                         ownE \cup {e \in Exchanges : \E t \in
                            Retained(Tasks, ExpiredTasks(T, E, ownE), keptT) : T[t].exchange = e})
    BY <1>1 DEF RetainTasks
  <1> DEFINE retT == Retained(Tasks, ExpiredTasks(T, E, ownE), keptT)
             retE == ownE \cup {e \in Exchanges : \E t \in retT : T[t].exchange = e}
  <1>3. \A t \in Tasks \ retT : IsTerminal(T[t])
    BY DEF Retained, ExpiredTasks
  <1>4. \A t \in retT : T[t].exchange \in Exchanges => T[t].exchange \in retE
    OBVIOUS
  <1>5. RetainProposals(T, E, P, W, tombs, retT, retE)
    BY <1>2
  <1> HIDE DEF retT, retE
  <1>6. PICK keptP : RetainWorkers(T, E, P, W, tombs, retT, retE,
                         Retained(Proposals, ExpiredProposals(T, P, retT), keptP))
    BY <1>5 DEF RetainProposals
  <1> DEFINE retP == Retained(Proposals, ExpiredProposals(T, P, retT), keptP)
  <1>7. /\ \A p \in Proposals \ retP : ~P[p].fresh
        /\ \A t \in retT : T[t].proposal \in Proposals => T[t].proposal \in retP
    BY DEF Retained, ExpiredProposals
  <1>8. RetainWorkers(T, E, P, W, tombs, retT, retE, retP)
    BY <1>6
  <1> HIDE DEF retP
  <1> DEFINE protected == ProtectedWorkers(T, E, P, retT, retE, retP)
  <1>9. PICK keptW : SaveRetained(T, E, P, W, tombs, retT, retE, retP,
                         Retained(Workers, ExpiredWorkers(W, protected), keptW))
    BY <1>8 DEF RetainWorkers
  <1> DEFINE retW == Retained(Workers, ExpiredWorkers(W, protected), keptW)
  <1>10. \A t \in retT : T[t].target \in protected /\ T[t].assigned \in protected
    BY DEF ProtectedWorkers, NamedBy
  <1>11. \A w \in Workers : w \in protected => w \in retW
    BY DEF Retained, ExpiredWorkers
  <1> HIDE DEF protected, retW
  <1> QED BY <1>3, <1>4, <1>7, <1>9, <1>10, <1>11 DEF retW

(* Every step leaves of each Map what was written or nothing.              *)
LEMMA SaveFacts ==
    ASSUME NEW T, NEW E, NEW P, NEW W, NEW tombs, Persist(T, E, P, W, tombs)
    PROVE  /\ \A t \in Tasks : tasks'[t] = T[t] \/ (tasks'[t] = NoTask /\ IsTerminal(T[t]))
           /\ \A e \in Exchanges : /\ exchanges'[e] = E[e] \/ exchanges'[e] = NoExchange
                                   /\ disk'.exchanges[e] = exchanges'[e]
           /\ \A p \in Proposals : P[p].fresh => proposals'[p] = P[p]
           /\ disk'.tombstones = tombs
  <1>1. PICK retT, retE, retP, retW :
             /\ SaveRetained(T, E, P, W, tombs, retT, retE, retP, retW)
             /\ \A t \in Tasks \ retT : IsTerminal(T[t])
             /\ \A p \in Proposals \ retP : ~P[p].fresh
    BY PersistKeeps
  <1> QED BY <1>1 DEF SaveRetained

-----------------------------------------------------------------------------
(* References.                                                             *)

LEMMA MovedRefs ==
    ASSUME LInv, NEW T, NEW E, NEW P, NEW W, NEW tombs, Written(T, E, P, W, tombs),
           NEW t \in Tasks, T[t] \in Task, TaskOK(T[t])
    PROVE  RefsOK(T[t], E, P, W)
  <1> DEFINE r == tasks[t]
             q == T[t]
  <1>1. /\ r \in Task /\ TaskOK(r)
        /\ RefsOK(r, exchanges, proposals, workers)
        /\ RefsOK(r, disk.exchanges, proposals, workers)
    BY DEF LInv, IInv, MapsOK, RefsInv
  <1>2. Kept(q, r) \/ Worked(q, r) \/ Created(q, r) \/ Ended(q, r)
    BY DEF Written, TaskMove
  <1>3. /\ q.exchange \in Opt(Exchanges) /\ q.proposal \in Opt(Proposals)
        /\ IsLive(q) => q.target \in Workers /\ q.assigned \in Workers
        /\ IsLive(r) => r.target \in Workers /\ r.assigned \in Workers
    BY <1>1 DEF Task, TaskOK, Routed, IsLive, LiveStatus, HeldStatus
  <1>4. /\ GrowsP(P) /\ GrowsW(W)
        /\ GrowsE(E) \/ (E = disk.exchanges /\ Kept(q, r))
    BY DEF Written
  <1> HIDE DEF r, q
  <1>5. q.exchange # None => E[q.exchange].status # "none"
    BY <1>1, <1>2, <1>3, <1>4 DEF GrowsE, Opt, RefsOK, Kept, Worked, Created, Ended, SameLinks
  <1>6. q.proposal # None => P[q.proposal].status # "none"
    BY <1>1, <1>2, <1>3, <1>4 DEF GrowsP, Opt, RefsOK, Kept, Worked, Created, Ended, SameLinks
  <1>7. IsLive(q) => workers[q.target] # "none" /\ workers[q.assigned] # "none"
    BY <1>1, <1>2 DEF RefsOK, Kept, Worked, Created, Ended, SameRoute, Registered, IsLive,
       IsTerminal, LiveStatus, HeldStatus, TerminalStatus
  <1>8. IsLive(q) => W[q.target] # "none" /\ W[q.assigned] # "none"
    BY <1>3, <1>4, <1>7 DEF GrowsW
  <1> QED BY <1>5, <1>6, <1>8 DEF RefsOK, q

LEMMA NoTaskRefs ==
    ASSUME NEW E, NEW P, NEW W
    PROVE  RefsOK(NoTask, E, P, W)
  BY DEF RefsOK, NoTask, IsLive, LiveStatus, HeldStatus

LEMMA SavedRefs ==
    ASSUME LInv, IInv', SavedStep
    PROVE  RefsInv'
  <1>1. PICK T, E, P, W, tombs : Persist(T, E, P, W, tombs) /\ Written(T, E, P, W, tombs)
    BY DEF SavedStep
  <1>2. PICK retT, retE, retP, retW :
             /\ SaveRetained(T, E, P, W, tombs, retT, retE, retP, retW)
             /\ \A t \in retT :
                   /\ T[t].exchange \in Exchanges => T[t].exchange \in retE
                   /\ T[t].proposal \in Proposals => T[t].proposal \in retP
                   /\ T[t].target \in Workers => T[t].target \in retW
                   /\ T[t].assigned \in Workers => T[t].assigned \in retW
    BY <1>1, PersistKeeps
  <1>3. ASSUME NEW t \in Tasks PROVE RefsOK(tasks'[t], exchanges', proposals', workers')
    <2>1. CASE t \notin retT
      <3>1. tasks'[t] = NoTask
        BY <1>2, <2>1 DEF SaveRetained
      <3> QED BY <3>1, NoTaskRefs
    <2>2. CASE t \in retT
      <3> DEFINE q == T[t]
      <3>1. tasks'[t] = q
        BY <1>2, <2>2 DEF SaveRetained
      <3>2. q \in Task /\ TaskOK(q)
        BY <3>1 DEF IInv, MapsOK
      <3>3. RefsOK(q, E, P, W)
        BY <1>1, <3>2, MovedRefs
      <3>4. /\ q.exchange \in Opt(Exchanges) /\ q.proposal \in Opt(Proposals)
            /\ IsLive(q) => q.target \in Workers /\ q.assigned \in Workers
        BY <3>2 DEF Task, TaskOK, Routed, IsLive, LiveStatus, HeldStatus
      <3>5. /\ q.exchange # None => exchanges'[q.exchange] = E[q.exchange]
            /\ q.proposal # None => proposals'[q.proposal] = P[q.proposal]
            /\ IsLive(q) => /\ workers'[q.target] = W[q.target]
                            /\ workers'[q.assigned] = W[q.assigned]
        BY <1>2, <2>2, <3>4 DEF SaveRetained, Opt
      <3> HIDE DEF q
      <3> QED BY <3>1, <3>3, <3>5 DEF RefsOK
    <2> QED BY <2>1, <2>2
  <1>4. disk'.exchanges = exchanges'
    BY <1>2 DEF SaveRetained
  <1> QED BY <1>3, <1>4 DEF RefsInv

LEMMA UnsavedRefs ==
    ASSUME LInv, IInv', UnsavedStep
    PROVE  RefsInv'
  <1>1. ASSUME NEW t \in Tasks
        PROVE  /\ RefsOK(tasks'[t], exchanges', proposals', workers')
               /\ RefsOK(tasks'[t], disk'.exchanges, proposals', workers')
    <2>1. tasks'[t] \in Task /\ TaskOK(tasks'[t])
      BY DEF IInv, MapsOK
    <2>2. RefsOK(tasks'[t], exchanges', proposals', workers')
      BY <2>1, MovedRefs DEF UnsavedStep
    <2>3. /\ tasks'[t].exchange = tasks[t].exchange
          /\ tasks'[t].exchange \in Opt(Exchanges)
      BY <2>1 DEF UnsavedStep, Kept, SameLinks, Task
    <2>4. \A e \in Exchanges : disk'.exchanges[e].status = disk.exchanges[e].status
      BY DEF UnsavedStep, SameExchange
    <2>5. tasks[t].exchange # None => disk.exchanges[tasks[t].exchange].status # "none"
      BY DEF LInv, RefsInv, RefsOK
    <2>6. tasks'[t].exchange # None => disk'.exchanges[tasks'[t].exchange].status # "none"
      BY <2>3, <2>4, <2>5 DEF Opt
    <2> QED BY <2>2, <2>6 DEF RefsOK
  <1> QED BY <1>1 DEF RefsInv

-----------------------------------------------------------------------------
(* Announcements, lineage and tombstones.                                  *)

LEMMA LogMoves ==
    ASSUME LInv, NEW q, NEW P, NEW t \in Tasks, TaskMove(t, q, P)
    PROVE  /\ outbox[t] \in Seq(TerminalStatus) /\ Len(outbox[t]) \in Nat
           /\ outbox[t] # <<>> => outbox'[t] # <<>>
           /\ \A s : Told(outbox[t], s) => Told(outbox'[t], s)
  <1>1. outbox[t] \in Seq(TerminalStatus)
    BY DEF LInv, IInv, LogsOK
  <1>2. CASE outbox'[t] = outbox[t]
    BY <1>1, <1>2
  <1>3. CASE Ended(q, tasks[t]) /\ outbox'[t] = Append(outbox[t], q.status)
    <2>1. q.status \in TerminalStatus
      BY <1>3 DEF Ended, IsTerminal
    <2> DEFINE log == outbox[t]
               new == Append(log, q.status)
    <2>2. /\ new # <<>> /\ \A i \in DOMAIN log : i \in DOMAIN new /\ new[i] = log[i]
      BY <1>1, <2>1
    <2> HIDE DEF new
    <2> QED BY <1>1, <1>3, <2>2 DEF Told, new
  <1> QED BY <1>2, <1>3 DEF TaskMove

LEMMA MovedLife ==
    ASSUME LInv, NEW q, NEW P, NEW t \in Tasks, TaskMove(t, q, P)
    PROVE  LifeOK(q, outbox'[t])
  <1> DEFINE r == tasks[t]
             log == outbox[t]
  <1>1. LifeOK(r, log)
    BY DEF LInv, LifeInv
  <1>2. log \in Seq(TerminalStatus) /\ Len(log) \in Nat /\ MaxLives \in Nat
    BY LogMoves, InputAssumption
  <1>3. \A x : ~(IsLive(x) /\ IsTerminal(x))
    BY LiveNotTerminal
  <1> HIDE DEF r, log
  <1>4. CASE outbox'[t] = log /\ Kept(q, r)
    BY <1>1, <1>4 DEF Kept, LifeOK, IsLive, IsTerminal
  <1>5. CASE outbox'[t] = log /\ Worked(q, r)
    BY <1>1, <1>2, <1>3, <1>5 DEF Worked, LifeOK
  <1>6. CASE outbox'[t] = log /\ Created(q, r) /\ Len(log) < MaxLives
    BY <1>2, <1>3, <1>6 DEF Created, LifeOK
  <1>7. CASE Ended(q, r) /\ outbox'[t] = Append(log, q.status)
    <2>1. q.status \in TerminalStatus
      BY <1>7 DEF Ended, IsTerminal
    <2> DEFINE new == Append(log, q.status)
    <2>2. new # <<>> /\ Len(new) = Len(log) + 1 /\ new[Len(new)] = q.status
      BY <1>2, <2>1
    <2> HIDE DEF new
    <2>3. Len(log) < MaxLives
      BY <1>1, <1>7 DEF Ended, LifeOK
    <2>4. Len(new) <= MaxLives
      BY <1>2, <2>2, <2>3
    <2>5. ~IsLive(q)
      BY <1>3, <1>7 DEF Ended
    <2> QED BY <1>7, <2>2, <2>4, <2>5 DEF LifeOK, new
  <1> QED BY <1>4, <1>5, <1>6, <1>7 DEF TaskMove, r, log

LEMMA MovedLineage ==
    ASSUME LInv, NEW T, NEW P, \A t \in Tasks : TaskMove(t, T[t], P), NEW t \in Tasks
    PROVE  LineageOK(T[t], outbox')
  <1> DEFINE r == tasks[t]
             q == T[t]
  <1>1. LineageOK(r, outbox)
    BY DEF LInv, LifeInv
  <1>2. \A u \in Tasks : Told(outbox[u], "canceled") => Told(outbox'[u], "canceled")
    BY LogMoves
  <1>3. TaskMove(t, q, P)
    OBVIOUS
  <1>4. \A u \in Tasks : outbox[u] \in Seq(TerminalStatus)
    BY DEF LInv, IInv, LogsOK
  <1> SUFFICES LineageOK(q, outbox')
    OBVIOUS
  <1> HIDE DEF q, r
  <1>5. CASE q.parent = r.parent /\ q.canceledFrom = r.canceledFrom
    BY <1>1, <1>2, <1>5 DEF LineageOK
  <1>6. CASE q.canceledFrom \in {None, "request"}
    BY <1>6, NoneAssumption, MarkAssumption DEF LineageOK
  <1>7. CASE /\ q.canceledFrom = q.parent
             /\ outbox'[q.parent] = Append(outbox[q.parent], "canceled")
    <2> SUFFICES ASSUME q.parent \in Tasks PROVE Told(outbox'[q.parent], "canceled")
      BY <1>7 DEF LineageOK
    <2> DEFINE log == outbox[q.parent]
               new == Append(log, "canceled")
    <2>1. log \in Seq(TerminalStatus) /\ "canceled" \in TerminalStatus
      BY <1>4 DEF TerminalStatus
    <2>2. Len(new) \in DOMAIN new /\ new[Len(new)] = "canceled"
      BY <2>1
    <2> HIDE DEF new
    <2> QED BY <1>7, <2>2 DEF Told, new
  <1> QED BY <1>3, <1>5, <1>6, <1>7 DEF TaskMove, Kept, Worked, Created, Ended, SameLinks, r, q

LEMMA MovedTomb ==
    ASSUME LInv, NEW q, NEW P, NEW t \in Tasks, TaskMove(t, q, P), NEW z, TombMove(t, q, z)
    PROVE  TombOK(z, q, outbox'[t])
  <1> DEFINE r == tasks[t]
             log == outbox[t]
  <1>1. /\ LifeOK(r, log) /\ TombOK(tombstones[t], r, log)
        /\ TombOK(disk.tombstones[t], r, log)
    BY DEF LInv, LifeInv
  <1>2. /\ log \in Seq(TerminalStatus) /\ Len(log) \in Nat /\ MaxLives \in Nat
        /\ log # <<>> => outbox'[t] # <<>>
    BY LogMoves, InputAssumption
  <1>3. Len(log) < 1 => log = <<>>
    BY <1>2
  <1> HIDE DEF r, log
  <1>4. CASE Ended(q, r) /\ Tells(z, q)
    <2>1. outbox'[t] = Append(log, q.status) \/ Kept(q, r) \/ Worked(q, r) \/ Created(q, r)
      BY DEF TaskMove, log, r
    <2>2. ~(Kept(q, r) \/ Worked(q, r) \/ Created(q, r))
      BY <1>4, LiveNotTerminal DEF Kept, Worked, Created, Ended, IsLive, IsTerminal, LiveStatus,
         HeldStatus, TerminalStatus
    <2>3. q.status \in TerminalStatus
      BY <1>4 DEF Ended, IsTerminal
    <2>4. outbox'[t] # <<>>
      BY <1>2, <2>1, <2>2, <2>3
    <2> QED BY <1>4, <2>4 DEF TombOK
  <1>5. CASE /\ TombOK(z, r, log)
             /\ Ended(q, r) => q.error # "exceeded_requeue_limit"
    <2>1. z # "none" => outbox'[t] # <<>>
      BY <1>2, <1>5 DEF TombOK
    <2>2. ASSUME MaxLives = 1, q.status # "none" PROVE Tells(z, q)
      <3>1. CASE Kept(q, r)
        BY <1>5, <2>2, <3>1 DEF TombOK, Tells, Kept
      <3>2. CASE Worked(q, r) \/ Ended(q, r) \/ (Created(q, r) /\ Len(log) < MaxLives)
        <4>1. log = <<>>
          BY <1>1, <1>3, <2>2, <3>2 DEF LifeOK, Worked, Ended
        <4>2. z = "none"
          BY <1>5, <4>1 DEF TombOK
        <4>3. q.error # "exceeded_requeue_limit"
          BY <1>1, <1>5, <3>2 DEF LifeOK, Worked, Created
        <4> QED BY <4>2, <4>3 DEF Tells
      <3> QED BY <3>1, <3>2 DEF TaskMove, r, log
    <2> QED BY <2>1, <2>2 DEF TombOK
  <1> QED BY <1>1, <1>4, <1>5 DEF TombMove, r

LEMMA MovedAll ==
    ASSUME LInv, NEW T, NEW E, NEW P, NEW W, NEW tombs, Written(T, E, P, W, tombs),
           NEW t \in Tasks
    PROVE  /\ LifeOK(T[t], outbox'[t]) /\ LineageOK(T[t], outbox')
           /\ TombOK(tombstones'[t], T[t], outbox'[t]) /\ TombOK(tombs[t], T[t], outbox'[t])
  BY MovedLife, MovedLineage, MovedTomb DEF Written

LEMMA NoTaskLife ==
    ASSUME NEW q, NEW z, NEW log, NEW logs, LifeOK(q, log), TombOK(z, q, log)
    PROVE  LifeOK(NoTask, log) /\ LineageOK(NoTask, logs) /\ TombOK(z, NoTask, log)
  BY NoneAssumption DEF LifeOK, LineageOK, TombOK, NoTask, IsLive, IsTerminal, LiveStatus,
     HeldStatus, TerminalStatus

LEMMA SavedLife ==
    ASSUME LInv, SavedStep
    PROVE  LifeInv'
  <1>1. PICK T, E, P, W, tombs : Persist(T, E, P, W, tombs) /\ Written(T, E, P, W, tombs)
    BY DEF SavedStep
  <1>2. disk'.tombstones = tombs
    BY <1>1, SaveFacts
  <1>3. ASSUME NEW t \in Tasks
        PROVE  /\ LifeOK(tasks'[t], outbox'[t]) /\ LineageOK(tasks'[t], outbox')
               /\ TombOK(tombstones'[t], tasks'[t], outbox'[t])
               /\ TombOK(tombs[t], tasks'[t], outbox'[t])
    <2>1. tasks'[t] = T[t] \/ tasks'[t] = NoTask
      BY <1>1, SaveFacts
    <2>2. /\ LifeOK(T[t], outbox'[t]) /\ LineageOK(T[t], outbox')
          /\ TombOK(tombstones'[t], T[t], outbox'[t]) /\ TombOK(tombs[t], T[t], outbox'[t])
      BY <1>1, MovedAll
    <2> QED BY <2>1, <2>2, NoTaskLife
  <1> QED BY <1>2, <1>3 DEF LifeInv

LEMMA UnsavedLife ==
    ASSUME LInv, UnsavedStep
    PROVE  LifeInv'
  BY MovedAll DEF UnsavedStep, LifeInv

-----------------------------------------------------------------------------
(* Exchanges.                                                              *)

(* The live active task of an exchange is a task of that exchange, and the *)
(* exchange routes to it.                                                  *)
LEMMA ReusedIsOwn ==
    ASSUME LInv, MaxLives = 1, NEW e \in Exchanges, ReusesTask(exchanges[e])
    PROVE  LET x == exchanges[e]
               r == tasks[x.active]
           IN /\ x.active \in Tasks /\ r.exchange = e
              /\ SameRoute(x, r) /\ ~Astray(x)
              /\ x.target \in Workers /\ x.assigned \in Workers
  <1> DEFINE x == exchanges[e]
             r == tasks[x.active]
  <1>1. x.active \in Tasks /\ x.active # None /\ IsLive(r)
    BY DEF ReusesTask, LInv, IInv, MapsOK, Exchange, Opt
  <1>2. ActiveOK(x, e, tasks, outbox) /\ RefsOK(r, exchanges, proposals, workers) /\ Routed(r)
    BY <1>1 DEF LInv, FollowInv, RefsInv, IInv, MapsOK, TaskOK
  <1> HIDE DEF x
  <1>3. r.status # "none"
    BY <1>1 DEF IsLive, LiveStatus, HeldStatus
  <1>4. r.exchange = e /\ SameRoute(x, r)
    BY <1>1, <1>2, <1>3 DEF ActiveOK, SameRoute
  <1>5. x.target \in Workers /\ x.assigned \in Workers
    BY <1>2, <1>3, <1>4 DEF Routed, SameRoute
  <1>6. Registered(x.target) /\ Registered(x.assigned)
    BY <1>1, <1>2, <1>4 DEF RefsOK, Registered, SameRoute
  <1> QED BY <1>1, <1>4, <1>5, <1>6, NoneAssumption DEF Astray, x

LEMMA MovedActive ==
    ASSUME LInv, NEW T, NEW E, NEW P, NEW W, NEW tombs, Written(T, E, P, W, tombs),
           NEW e \in Exchanges, E[e].active \in Opt(Tasks)
    PROVE  ActiveOK(E[e], e, T, outbox')
  <1> DEFINE y == E[e]
             a == y.active
             q == T[a]
             r == tasks[a]
  <1> SUFFICES ASSUME MaxLives = 1, a # None
               PROVE  ActiveOK(y, e, T, outbox')
    BY DEF ActiveOK
  <1>1. a \in Tasks
    BY DEF Opt
  <1>2. TaskMove(a, q, P) /\ ExchangeMove(e, y, T)
    BY <1>1 DEF Written
  <1>3. /\ ActiveOK(exchanges[e], e, tasks, outbox) /\ ActiveOK(disk.exchanges[e], e, tasks, outbox)
        /\ \A f \in Exchanges : ActiveOK(exchanges[f], f, tasks, outbox)
    BY DEF LInv, FollowInv
  <1>4. ASSUME r.status = "none", outbox[a] # <<>>
        PROVE  q.status = "none" /\ outbox'[a] # <<>>
    <2>1. outbox'[a] # <<>> /\ Len(outbox[a]) \in Nat /\ outbox[a] \in Seq(TerminalStatus)
      BY <1>1, <1>2, <1>4, LogMoves
    <2>2. ~(Len(outbox[a]) < MaxLives)
      BY <1>4, <2>1
    <2> QED BY <1>2, <1>4, <2>1, <2>2 DEF TaskMove, Kept, Worked, Ended, IsLive, LiveStatus, HeldStatus
  <1> HIDE DEF y
  <1>5. CASE /\ SameExchange(y, exchanges[e]) \/ SameExchange(y, disk.exchanges[e])
             /\ r.status # "none" /\ r.exchange = e =>
                   Undisturbed(q, r) \/ \E f \in Exchanges \ {e} : exchanges[f].active = a
    <2>1. PICK x : SameExchange(y, x) /\ ActiveOK(x, e, tasks, outbox)
      BY <1>3, <1>5
    <2>2. CASE r.status = "none" /\ outbox[a] # <<>>
      BY <1>4, <2>2 DEF ActiveOK
    <2>3. CASE ~(r.status = "none" /\ outbox[a] # <<>>)
      <3>1. /\ r.status # "none" /\ r.exchange = e
            /\ IsLive(r) => SameRoute(x, r)
            /\ x.status = "completed" /\ IsTerminal(r) => r.status = "succeeded"
        BY <2>1, <2>3 DEF ActiveOK, SameExchange, SameRoute
      <3>2. \A f \in Exchanges : exchanges[f].active = a => f = e
        BY <1>1, <1>3, <3>1, NoneAssumption DEF ActiveOK
      <3>3. Undisturbed(q, r)
        BY <1>5, <3>1, <3>2
      <3>4. q.exchange = e /\ q.status # "none"
        BY <3>1, <3>3 DEF Undisturbed, SameLinks, IsLive, LiveStatus, HeldStatus
      <3>5. IsLive(q) => y.target = q.target /\ y.assigned = q.assigned
        BY <2>1, <3>1, <3>3 DEF Undisturbed, SameRoute, SameExchange, IsLive
      <3>6. y.status = "completed" /\ IsTerminal(q) => q.status = "succeeded"
        BY <2>1, <3>1, <3>3, LiveNotTerminal DEF Undisturbed, SameExchange, IsTerminal
      <3> QED BY <3>4, <3>5, <3>6 DEF ActiveOK
    <2> QED BY <2>2, <2>3
  <1>6. CASE Follows(y, e, q)
    BY <1>6 DEF Follows, ActiveOK, SameRoute
  <1>7. CASE /\ a = exchanges[e].active /\ ~ReusesTask(exchanges[e])
             /\ y.status = exchanges[e].status \/ y.status # "completed"
             /\ Kept(q, r)
    <2>1. ~IsLive(r)
      BY <1>7 DEF ReusesTask
    <2>2. CASE r.status = "none" /\ outbox[a] # <<>>
      BY <1>4, <2>2 DEF ActiveOK
    <2>3. CASE ~(r.status = "none" /\ outbox[a] # <<>>)
      <3>1. /\ r.status # "none" /\ r.exchange = e
            /\ exchanges[e].status = "completed" /\ IsTerminal(r) => r.status = "succeeded"
        BY <1>3, <1>7, <2>3 DEF ActiveOK
      <3> QED BY <1>7, <2>1, <3>1 DEF ActiveOK, Kept, SameLinks, IsLive, IsTerminal
    <2> QED BY <2>2, <2>3
  <1>8. CASE /\ a = exchanges[e].active /\ ReusesTask(exchanges[e]) /\ y.status # "completed"
             /\ SameLinks(q, r) /\ q.status # "none" /\ y.target = q.target
             /\ y.assigned = q.assigned \/ exchanges[e].assigned = None
    <2>1. r.exchange = e /\ exchanges[e].assigned # None
      BY <1>8, ReusedIsOwn, NoneAssumption
    <2> QED BY <1>8, <2>1 DEF ActiveOK, SameLinks
  <1>9. CASE ReusesTask(exchanges[e]) /\ Astray(exchanges[e])
    BY <1>9, ReusedIsOwn
  <1> QED BY <1>1, <1>2, <1>5, <1>6, <1>7, <1>8, <1>9 DEF ExchangeMove

LEMMA DroppedActive ==
    ASSUME NEW y, NEW e, NEW T, NEW U, NEW log, ActiveOK(y, e, T, log), y.active \in Opt(Tasks),
           \A t \in Tasks : /\ LifeOK(T[t], log[t])
                            /\ U[t] = T[t] \/ (U[t] = NoTask /\ IsTerminal(T[t]))
    PROVE  ActiveOK(y, e, U, log)
  <1> SUFFICES ASSUME MaxLives = 1, y.active # None PROVE ActiveOK(y, e, U, log)
    BY DEF ActiveOK
  <1>1. y.active \in Tasks
    BY DEF Opt
  <1>2. CASE U[y.active] = T[y.active]
    BY <1>2 DEF ActiveOK
  <1>3. CASE U[y.active] = NoTask /\ IsTerminal(T[y.active])
    <2>1. log[y.active] # <<>> /\ U[y.active].status = "none"
      BY <1>1, <1>3 DEF LifeOK, NoTask
    <2> QED BY <2>1 DEF ActiveOK
  <1> QED BY <1>1, <1>2, <1>3

LEMMA SavedFollow ==
    ASSUME LInv, IInv', SavedStep
    PROVE  FollowInv'
  <1>1. PICK T, E, P, W, tombs : Persist(T, E, P, W, tombs) /\ Written(T, E, P, W, tombs)
    BY DEF SavedStep
  <1>2. ASSUME NEW e \in Exchanges PROVE ActiveOK(exchanges'[e], e, tasks', outbox')
    <2>1. CASE exchanges'[e] = NoExchange
      BY <2>1 DEF ActiveOK, NoExchange
    <2>2. CASE exchanges'[e] = E[e]
      <3>1. E[e].active \in Opt(Tasks)
        BY <2>2 DEF IInv, MapsOK, Exchange
      <3>2. ActiveOK(E[e], e, T, outbox')
        BY <1>1, <3>1, MovedActive
      <3>3. \A t \in Tasks : /\ LifeOK(T[t], outbox'[t])
                             /\ tasks'[t] = T[t] \/ (tasks'[t] = NoTask /\ IsTerminal(T[t]))
        BY <1>1, MovedAll, SaveFacts
      <3>4. ActiveOK(E[e], e, tasks', outbox')
        BY <3>1, <3>2, <3>3, DroppedActive
      <3> QED BY <2>2, <3>4
    <2> QED BY <1>1, <2>1, <2>2, SaveFacts
  <1>3. \A e \in Exchanges : disk'.exchanges[e] = exchanges'[e]
    BY <1>1, SaveFacts
  <1> QED BY <1>2, <1>3 DEF FollowInv

LEMMA UnsavedFollow ==
    ASSUME LInv, IInv', UnsavedStep
    PROVE  FollowInv'
  <1>1. ASSUME NEW e \in Exchanges
        PROVE  /\ ActiveOK(exchanges'[e], e, tasks', outbox')
               /\ ActiveOK(disk'.exchanges[e], e, tasks', outbox')
    <2>1. exchanges'[e].active \in Opt(Tasks) /\ disk'.exchanges[e].active \in Opt(Tasks)
      BY DEF IInv, MapsOK, Exchange
    <2>2. ActiveOK(exchanges'[e], e, tasks', outbox')
      BY <2>1, MovedActive DEF UnsavedStep
    <2> DEFINE x == disk.exchanges[e]
               y == disk'.exchanges[e]
    <2>3. SameExchange(y, x) /\ ActiveOK(x, e, tasks, outbox)
      BY DEF UnsavedStep, LInv, FollowInv
    <2> HIDE DEF x, y
    <2>4. \A t \in Tasks : /\ Kept(tasks'[t], tasks[t])
                           /\ outbox[t] # <<>> => outbox'[t] # <<>>
      BY LogMoves DEF UnsavedStep, Written
    <2>5. y.active \in Opt(Tasks)
      BY <2>1 DEF y
    <2>6. ActiveOK(y, e, tasks', outbox')
      BY <2>3, <2>4, <2>5 DEF ActiveOK, SameExchange, Kept, SameRoute, SameLinks, IsLive,
         IsTerminal, Opt
    <2> QED BY <2>2, <2>6 DEF y
  <1> QED BY <1>1 DEF FollowInv

-----------------------------------------------------------------------------
(* What the handlers have in common.                                       *)

LEMMA SameIsKept ==
    /\ \A r : Kept(r, r) /\ Undisturbed(r, r) /\ SameLinks(r, r)
    /\ \A q, r : Kept(q, r) => Undisturbed(q, r)
    /\ \A x : SameExchange(x, x)
  BY DEF Kept, Undisturbed, SameLinks, SameRoute, SameExchange

(* A task that does not end needs no announcement and no tombstone.        *)
Quiet(t, q) ==
    \/ Kept(q, tasks[t]) \/ Worked(q, tasks[t])
    \/ Created(q, tasks[t]) /\ Len(outbox[t]) < MaxLives

LEMMA QuietNotEnded == \A t, q : Quiet(t, q) => ~Ended(q, tasks[t])
  BY LiveNotTerminal DEF Quiet, Kept, Worked, Created, Ended, IsLive, IsTerminal, LiveStatus,
     HeldStatus, TerminalStatus

LEMMA QuietMoves ==
    ASSUME UNCHANGED <<tombstones, outbox>>, NEW T, NEW P,
           \A t \in Tasks : Quiet(t, T[t])
    PROVE  \A t \in Tasks : /\ TaskMove(t, T[t], P)
                            /\ TombMove(t, T[t], tombstones[t])
                            /\ TombMove(t, T[t], tombstones'[t])
                            /\ TombMove(t, T[t], disk.tombstones[t])
  <1>1. ASSUME NEW t \in Tasks
        PROVE  /\ TaskMove(t, T[t], P)
               /\ \A z \in {tombstones[t], disk.tombstones[t]} : TombMove(t, T[t], z)
    <2>1. Quiet(t, T[t])
      OBVIOUS
    <2>2. ~Ended(T[t], tasks[t])
      BY <2>1, QuietNotEnded
    <2> QED BY <2>1, <2>2 DEF TaskMove, TombMove, Quiet
  <1> QED BY <1>1

(* Exchanges nobody wrote, beside tasks nobody disturbed.                  *)
LEMMA SameExchanges ==
    ASSUME NEW T, \A t \in Tasks : Undisturbed(T[t], tasks[t])
    PROVE  /\ \A e \in Exchanges : ExchangeMove(e, exchanges[e], T)
           /\ \A e \in Exchanges : ExchangeMove(e, disk.exchanges[e], T)
           /\ GrowsE(exchanges)
  BY SameIsKept DEF ExchangeMove, GrowsE

LEMMA SameRest == GrowsP(proposals) /\ GrowsW(workers)
  BY DEF GrowsP, GrowsW

(* syncExchangeStateFromTask makes the exchange of the task follow it.     *)
LEMMA SyncMoves ==
    ASSUME LInv, NEW t \in Tasks, NEW q \in Task, Routed(q), q.status # "none",
           SameLinks(q, tasks[t]),
           NEW s \in {"queued", "running", "completed", "failed"},
           s = "completed" => q.status = "succeeded"
    PROVE  LET T == [tasks EXCEPT ![t] = q]
               E == SyncExchange(t, q, s)
           IN GrowsE(E) /\ \A e \in Exchanges : ExchangeMove(e, E[e], T)
  <1> DEFINE T == [tasks EXCEPT ![t] = q]
             E == SyncExchange(t, q, s)
  <1>1. tasks \in [Tasks -> Task] /\ exchanges \in [Exchanges -> Exchange]
    BY DEF LInv, IInv, MapsOK
  <1>2. T[t] = q /\ \A u \in Tasks \ {t} : T[u] = tasks[u]
    BY <1>1
  <1>3. tasks[t].exchange # None => exchanges[tasks[t].exchange].status # "none"
    BY DEF LInv, RefsInv, RefsOK
  <1>4. q.assigned \in Workers /\ Assignee(q) = q.assigned
    BY NoneAssumption DEF Routed, Assignee
  <1> HIDE DEF T
  <1>5. ASSUME NEW e \in Exchanges
        PROVE  /\ exchanges[e].status # "none" => E[e].status # "none"
               /\ ExchangeMove(e, E[e], T)
    <2>1. CASE q.exchange = e
      <3> DEFINE y == Synced(exchanges[e], t, q, s)
      <3>1. exchanges[e].status # "none"
        BY <1>3, <2>1, NoneAssumption DEF SameLinks
      <3>2. E[e] = y
        BY <2>1, <3>1 DEF SyncExchange
      <3>3. exchanges[e] \in Exchange
        BY <1>1
      <3>4. y.active = t /\ y.target = q.target /\ y.assigned = q.assigned /\ y.status = s
        BY <1>4, <3>3 DEF Synced, Exchange
      <3> HIDE DEF y
      <3>5. Follows(y, e, T[y.active]) /\ y.active \in Tasks
        BY <1>2, <2>1, <3>4 DEF Follows, SameRoute
      <3> QED BY <3>2, <3>4, <3>5 DEF ExchangeMove
    <2>2. CASE q.exchange # e
      <3>1. E[e] = exchanges[e]
        BY <2>2 DEF SyncExchange
      <3>2. \A u \in Tasks : tasks[u].exchange = e => T[u] = tasks[u]
        BY <1>2, <2>2 DEF SameLinks
      <3> QED BY <3>1, <3>2, SameIsKept DEF ExchangeMove
    <2> QED BY <2>1, <2>2
  <1> QED BY <1>5 DEF GrowsE, T

(* A handler that works on one task and synchronises its exchange.         *)
LEMMA WorkedStep ==
    ASSUME LInv, NEW t \in Tasks, NEW q \in Task, Routed(q), Worked(q, tasks[t]),
           NEW s \in {"queued", "running"}, UpdateTask(t, q, s),
           UNCHANGED <<tombstones, outbox>>
    PROVE  SavedStep
  <1> DEFINE T == [tasks EXCEPT ![t] = q]
             E == SyncExchange(t, q, s)
  <1>1. q.status # "none" /\ SameLinks(q, tasks[t])
    BY DEF Worked, IsLive, LiveStatus, HeldStatus
  <1>2. GrowsE(E) /\ \A e \in Exchanges : ExchangeMove(e, E[e], T)
    BY <1>1, SyncMoves
  <1>3. Persist(T, E, proposals, workers, tombstones)
    BY DEF UpdateTask, PersistTasks
  <1>4. tasks \in [Tasks -> Task]
    BY DEF LInv, IInv, MapsOK
  <1>5. \A u \in Tasks : Quiet(u, T[u])
    BY <1>4, SameIsKept DEF Quiet
  <1> HIDE DEF T, E
  <1>6. Written(T, E, proposals, workers, tombstones)
    BY <1>2, <1>5, QuietMoves, SameRest DEF Written
  <1> QED BY <1>3, <1>6 DEF SavedStep

(* A handler that touches one task and nothing else.                       *)
LEMMA KeptStep ==
    ASSUME LInv, NEW t \in Tasks, NEW q, Kept(q, tasks[t]),
           PersistTasks([tasks EXCEPT ![t] = q], exchanges), UNCHANGED <<tombstones, outbox>>
    PROVE  SavedStep
  <1> DEFINE T == [tasks EXCEPT ![t] = q]
  <1>1. tasks \in [Tasks -> Task]
    BY DEF LInv, IInv, MapsOK
  <1>2. \A u \in Tasks : Kept(T[u], tasks[u])
    BY <1>1, SameIsKept
  <1>3. Persist(T, exchanges, proposals, workers, tombstones)
    BY DEF PersistTasks
  <1> HIDE DEF T
  <1>4. \A e \in Exchanges : ExchangeMove(e, exchanges[e], T)
    BY <1>2, SameExchanges, SameIsKept
  <1>5. Written(T, exchanges, proposals, workers, tombstones)
    BY <1>2, <1>4, QuietMoves, SameRest, SameExchanges, SameIsKept DEF Written, Quiet, GrowsE
  <1> QED BY <1>3, <1>5 DEF SavedStep

(* A step that leaves the tasks and exchanges to the save.                 *)
LEMMA PlainStep ==
    ASSUME NEW P, NEW W, GrowsP(P), GrowsW(W), UNCHANGED <<tombstones, outbox>>,
           Persist(tasks, exchanges, P, W, tombstones)
    PROVE  SavedStep
  <1>1. \A t \in Tasks : Kept(tasks[t], tasks[t]) /\ Undisturbed(tasks[t], tasks[t])
    BY SameIsKept
  <1>2. Written(tasks, exchanges, P, W, tombstones)
    BY <1>1, QuietMoves, SameExchanges DEF Written, Quiet
  <1> QED BY <1>2 DEF SavedStep

LEMMA AgedStep ==
    ASSUME UNCHANGED <<tombstones, outbox>>, disk'.tombstones = disk.tombstones,
           \A t \in Tasks : Kept(tasks'[t], tasks[t]),
           \A e \in Exchanges : /\ SameExchange(exchanges'[e], exchanges[e])
                                /\ SameExchange(disk'.exchanges[e], disk.exchanges[e]),
           GrowsP(proposals'), GrowsW(workers')
    PROVE  UnsavedStep
  <1>1. \A e \in Exchanges : ExchangeMove(e, exchanges'[e], tasks')
    BY SameIsKept DEF ExchangeMove
  <1>2. GrowsE(exchanges')
    BY DEF GrowsE, SameExchange
  <1>3. \A t \in Tasks : Quiet(t, tasks'[t])
    BY DEF Quiet
  <1>4. Written(tasks', exchanges', proposals', workers', disk'.tombstones)
    BY <1>1, <1>2, <1>3, QuietMoves DEF Written
  <1> QED BY <1>4 DEF UnsavedStep

-----------------------------------------------------------------------------
(* One step per action.                                                    *)

LEMMA WorkerMoves ==
    ASSUME LInv, NEW w \in Workers, RegisterWorker(w) \/ HeartbeatWorker(w)
    PROVE  SavedStep \/ UnsavedStep
  <1> DEFINE W == [workers EXCEPT ![w] = "seen"]
  <1>1. GrowsW(W)
    BY DEF GrowsW, LInv, IInv, MapsOK
  <1>2. UNCHANGED <<tombstones, outbox>>
    BY DEF RegisterWorker, HeartbeatWorker
  <1>3. CASE Persist(tasks, exchanges, proposals, W, tombstones)
    BY <1>1, <1>2, <1>3, PlainStep, SameRest
  <1>4. CASE workers' = W /\ UNCHANGED <<tasks, exchanges, proposals, disk>>
    <2> HIDE DEF W
    <2> QED BY <1>1, <1>2, <1>4, AgedStep, SameIsKept, SameRest
  <1> QED BY <1>3, <1>4 DEF RegisterWorker, HeartbeatWorker

LEMMA HolderMoves ==
    ASSUME LInv, NEW t \in Tasks, NEW w \in Workers,
           ClaimTask(t, w) \/ StartTask(t, w) \/ HeartbeatTask(t, w)
    PROVE  SavedStep
  <1> DEFINE r == tasks[t]
  <1>1. r \in Task /\ TaskOK(r) /\ tasks \in [Tasks -> Task]
    BY DEF LInv, IInv, MapsOK
  <1>2. CASE ClaimTask(t, w)
    <2> DEFINE c == [r EXCEPT !.status = "claimed", !.attempt = TRUE,
                              !.claimedBy = w, !.fresh = TRUE]
    <2>1. c \in Task
      BY <1>1, StatusFacts, OptFacts DEF Task
    <2>2. /\ SameLinks(c, r) /\ SameRoute(c, r) /\ c.status = "claimed"
          /\ c.error = r.error /\ c.canceledFrom = r.canceledFrom
      BY <1>1 DEF Task, SameLinks, SameRoute
    <2>3. r.status = "queued" /\ UpdateTask(t, c, "running") /\ UNCHANGED <<tombstones, outbox>>
      BY <1>2 DEF ClaimTask
    <2> HIDE DEF c
    <2>4. Worked(c, r) /\ Routed(c)
      BY <1>1, <2>2, <2>3 DEF Worked, IsLive, LiveStatus, HeldStatus, TaskOK, Routed, SameRoute
    <2> QED BY <2>1, <2>3, <2>4, WorkedStep
  <1>3. CASE StartTask(t, w)
    <2> DEFINE c == [r EXCEPT !.status = "running", !.fresh = TRUE]
    <2>1. c \in Task
      BY <1>1, StatusFacts DEF Task
    <2>2. /\ SameLinks(c, r) /\ SameRoute(c, r) /\ c.status = "running"
          /\ c.error = r.error /\ c.canceledFrom = r.canceledFrom
      BY <1>1 DEF Task, SameLinks, SameRoute
    <2>3. r.status = "claimed" /\ UpdateTask(t, c, "running") /\ UNCHANGED <<tombstones, outbox>>
      BY <1>3 DEF StartTask
    <2> HIDE DEF c
    <2>4. Worked(c, r) /\ Routed(c)
      BY <1>1, <2>2, <2>3 DEF Worked, IsLive, LiveStatus, HeldStatus, TaskOK, Routed, SameRoute
    <2> QED BY <2>1, <2>3, <2>4, WorkedStep
  <1>4. CASE HeartbeatTask(t, w)
    <2> DEFINE c == [r EXCEPT !.fresh = TRUE]
    <2>1. PersistTasks([tasks EXCEPT ![t] = c], exchanges) /\ UNCHANGED <<tombstones, outbox>>
      BY <1>1, <1>4 DEF HeartbeatTask
    <2>2. Kept(c, r)
      BY <1>1 DEF Task, Kept, SameLinks, SameRoute
    <2> HIDE DEF c
    <2> QED BY <2>1, <2>2, KeptStep
  <1> QED BY <1>2, <1>3, <1>4

(* Tasks N end with status s and every other one is quiet.                 *)
LEMMA EndMoves ==
    ASSUME LInv, NEW N \in SUBSET Tasks, NEW s, Announce(N, s), NEW T, NEW P,
           \A t \in N : /\ Ended(T[t], tasks[t]) /\ T[t].status = s
                        /\ s = "succeeded" => AppliedIn(P, tasks[t])
                        /\ \/ T[t].canceledFrom \in {tasks[t].canceledFrom, "request"}
                           \/ /\ T[t].canceledFrom = T[t].parent
                              /\ s = "canceled" /\ T[t].parent \in N,
           \A t \in Tasks \ N : Quiet(t, T[t])
    PROVE  \A t \in Tasks : TaskMove(t, T[t], P)
  <1>1. /\ \A t \in N : outbox'[t] = Append(outbox[t], s)
        /\ \A t \in Tasks \ N : outbox'[t] = outbox[t]
    BY DEF Announce
  <1>2. ASSUME NEW t \in N PROVE TaskMove(t, T[t], P)
    BY <1>1 DEF TaskMove
  <1>3. ASSUME NEW t \in Tasks \ N PROVE TaskMove(t, T[t], P)
    BY <1>1 DEF TaskMove, Quiet
  <1> QED BY <1>2, <1>3

(* The tombstones of the tasks that end, each written or still missing.    *)
LEMMA EndTombs ==
    ASSUME NEW N \in SUBSET Tasks, NEW S, S \subseteq N, NEW reason, NEW T,
           \A t \in N : /\ Ended(T[t], tasks[t]) /\ Tells(reason, T[t])
                        /\ t \in S \/ T[t].error # "exceeded_requeue_limit",
           \A t \in Tasks \ N : Quiet(t, T[t])
    PROVE  \A t \in Tasks : TombMove(t, T[t], WriteTombstones(S, reason)[t])
  <1>1. ASSUME NEW t \in Tasks PROVE TombMove(t, T[t], WriteTombstones(S, reason)[t])
    <2>1. CASE t \in S
      <3>1. WriteTombstones(S, reason)[t] = reason
        BY <2>1 DEF WriteTombstones
      <3> QED BY <2>1, <3>1 DEF TombMove
    <2>2. CASE t \in N \ S
      <3>1. WriteTombstones(S, reason)[t] = tombstones[t]
        BY <2>2 DEF WriteTombstones
      <3> QED BY <2>2, <3>1 DEF TombMove
    <2>3. CASE t \notin N
      <3>1. WriteTombstones(S, reason)[t] = tombstones[t]
        BY <2>3 DEF WriteTombstones
      <3> QED BY <2>3, <3>1, QuietNotEnded DEF TombMove
    <2> QED BY <2>1, <2>2, <2>3
  <1> QED BY <1>1

LEMMA OldTombs ==
    ASSUME NEW T, \A t \in Tasks : Quiet(t, T[t]) \/ T[t].error # "exceeded_requeue_limit"
    PROVE  \A t \in Tasks : TombMove(t, T[t], tombstones[t])
  BY QuietNotEnded DEF TombMove

LEMMA CompleteMoves ==
    ASSUME LInv, NEW t \in Tasks, NEW w \in Workers, CompleteTask(t, w)
    PROVE  SavedStep
  <1> DEFINE r == tasks[t]
             c == [r EXCEPT !.status = "succeeded", !.claimedBy = w, !.result = TRUE,
                            !.error = "none", !.fresh = TRUE]
             T == [tasks EXCEPT ![t] = c]
             E == SyncExchange(t, c, "completed")
             P == CompletedProposals(c)
  <1>1. r \in Task /\ TaskOK(r) /\ tasks \in [Tasks -> Task]
        /\ proposals \in [Proposals -> Proposal]
    BY DEF LInv, IInv, MapsOK
  <1>2. c \in Task
    BY <1>1, StatusFacts, OptFacts DEF Task
  <1>3. /\ SameLinks(c, r) /\ SameRoute(c, r) /\ c.status = "succeeded"
        /\ c.error = "none" /\ c.canceledFrom = r.canceledFrom
    BY <1>1 DEF Task, SameLinks, SameRoute
  <1>4. /\ Persist(T, E, P, workers, tombstones) /\ Announce({t}, "succeeded")
        /\ UNCHANGED tombstones /\ IsHeld(r) /\ CompletionAllowed(r, w)
    BY DEF CompleteTask
  <1>5. T[t] = c /\ \A u \in Tasks \ {t} : T[u] = tasks[u]
    BY <1>1
  <1> HIDE DEF c, T
  <1>6. Ended(c, r) /\ Routed(c) /\ c.status # "none"
    BY <1>1, <1>3, <1>4 DEF Ended, IsLive, IsHeld, IsTerminal, LiveStatus, HeldStatus,
       TerminalStatus, TaskOK, Routed, SameRoute
  <1>7. GrowsE(E) /\ \A e \in Exchanges : ExchangeMove(e, E[e], T)
    BY <1>2, <1>3, <1>6, SyncMoves DEF T
  <1>8. GrowsP(P) /\ AppliedIn(P, r)
    <2>1. r.proposal \in Opt(Proposals) /\ c.proposal = r.proposal /\ c.intent = r.intent
      BY <1>1, <1>3 DEF Task, SameLinks
    <2>2. r.proposal # None => r.proposal \in Proposals
      BY <2>1 DEF Opt
    <2>3. \A p \in Proposals : proposals[p] \in Proposal
      BY <1>1
    <2>4. CASE r.proposal # None /\ r.intent = "apply_local_change"
      <3>1. P = [proposals EXCEPT ![r.proposal].status = "applied", ![r.proposal].fresh = TRUE]
        BY <2>1, <2>4 DEF CompletedProposals
      <3>2. P[r.proposal].status = "applied" /\ P[r.proposal].fresh = TRUE
        BY <1>1, <2>2, <2>3, <2>4, <3>1 DEF Proposal
      <3>3. \A p \in Proposals \ {r.proposal} : P[p] = proposals[p]
        BY <1>1, <3>1
      <3> HIDE DEF P
      <3>4. GrowsP(P)
        BY <3>2, <3>3 DEF GrowsP
      <3> QED BY <1>4, <2>4, <3>2, <3>4 DEF AppliedIn, CompletionAllowed
    <2>5. CASE r.proposal # None /\ r.intent = "validate_change"
      <3>1. P = [proposals EXCEPT ![r.proposal].status = "validated", ![r.proposal].fresh = TRUE]
        BY <2>1, <2>5 DEF CompletedProposals
      <3>2. P[r.proposal].status = "validated"
        BY <1>1, <2>2, <2>3, <2>5, <3>1 DEF Proposal
      <3>3. \A p \in Proposals \ {r.proposal} : P[p] = proposals[p]
        BY <1>1, <3>1
      <3> HIDE DEF P
      <3> QED BY <2>5, <3>2, <3>3 DEF AppliedIn, GrowsP
    <2>6. CASE r.proposal = None \/ r.intent \notin {"apply_local_change", "validate_change"}
      <3>1. P = proposals
        BY <2>1, <2>6 DEF CompletedProposals
      <3> QED BY <2>6, <3>1 DEF AppliedIn, GrowsP
    <2> QED BY <2>4, <2>5, <2>6
  <1> HIDE DEF E, P
  <1>9. \A u \in Tasks \ {t} : Quiet(u, T[u])
    BY <1>5, SameIsKept DEF Quiet
  <1>10. \A u \in Tasks : TaskMove(u, T[u], P)
    <2>1. {t} \in SUBSET Tasks
      OBVIOUS
    <2>2. \A u \in {t} : /\ Ended(T[u], tasks[u]) /\ T[u].status = "succeeded"
                         /\ AppliedIn(P, tasks[u]) /\ T[u].canceledFrom = tasks[u].canceledFrom
      BY <1>3, <1>5, <1>6, <1>8
    <2> QED BY <1>4, <1>9, <2>1, <2>2, EndMoves
  <1>11. \A u \in Tasks : TombMove(u, T[u], tombstones[u])
    BY <1>3, <1>5, <1>9, OldTombs
  <1>12. Written(T, E, P, workers, tombstones)
    BY <1>4, <1>7, <1>8, <1>10, <1>11, SameRest DEF Written
  <1> QED BY <1>4, <1>12 DEF SavedStep

LEMMA FailMoves ==
    ASSUME LInv, NEW t \in Tasks, NEW w \in Workers, FailTask(t, w)
    PROVE  SavedStep
  <1> DEFINE r == tasks[t]
             c == [r EXCEPT !.status = "failed", !.claimedBy = w,
                            !.error = "worker", !.fresh = TRUE]
             T == [tasks EXCEPT ![t] = c]
             E == SyncExchange(t, c, "failed")
  <1>1. r \in Task /\ TaskOK(r) /\ tasks \in [Tasks -> Task]
    BY DEF LInv, IInv, MapsOK
  <1>2. c \in Task
    BY <1>1, StatusFacts, OptFacts DEF Task
  <1>3. /\ SameLinks(c, r) /\ SameRoute(c, r) /\ c.status = "failed"
        /\ c.error = "worker" /\ c.canceledFrom = r.canceledFrom
    BY <1>1 DEF Task, SameLinks, SameRoute
  <1>4. /\ Persist(T, E, proposals, workers, tombstones) /\ Announce({t}, "failed")
        /\ tombstones' = WriteTombstones({t}, "failed") /\ IsHeld(r)
    BY DEF FailTask, UpdateTask, PersistTasks
  <1>5. T[t] = c /\ \A u \in Tasks \ {t} : T[u] = tasks[u]
    BY <1>1
  <1> HIDE DEF c, T
  <1>6. Ended(c, r) /\ Routed(c) /\ c.status # "none" /\ Tells("failed", c)
    BY <1>1, <1>3, <1>4 DEF Ended, IsLive, IsHeld, IsTerminal, LiveStatus, HeldStatus,
       TerminalStatus, TaskOK, Routed, SameRoute, Tells
  <1>7. GrowsE(E) /\ \A e \in Exchanges : ExchangeMove(e, E[e], T)
    BY <1>2, <1>3, <1>6, SyncMoves DEF T
  <1> HIDE DEF E
  <1>9. \A u \in Tasks \ {t} : Quiet(u, T[u])
    BY <1>5, SameIsKept DEF Quiet
  <1>10. \A u \in Tasks : TaskMove(u, T[u], proposals)
    <2>1. {t} \in SUBSET Tasks
      OBVIOUS
    <2>2. \A u \in {t} : /\ Ended(T[u], tasks[u]) /\ T[u].status = "failed"
                         /\ T[u].canceledFrom = tasks[u].canceledFrom
      BY <1>3, <1>5, <1>6
    <2> QED BY <1>4, <1>9, <2>1, <2>2, EndMoves
  <1>11. \A u \in Tasks : TombMove(u, T[u], tombstones[u])
    BY <1>3, <1>5, <1>9, OldTombs
  <1>12. \A u \in Tasks : TombMove(u, T[u], tombstones'[u])
    BY <1>3, <1>4, <1>5, <1>6, <1>9, EndTombs
  <1>13. Written(T, E, proposals, workers, tombstones)
    BY <1>7, <1>10, <1>11, <1>12, SameRest DEF Written
  <1> QED BY <1>4, <1>13 DEF SavedStep

(* A new task, whichever handler makes it.                                 *)
LEMMA NewTaskCreated ==
    ASSUME NEW parent \in Opt(Tasks), NEW e \in Opt(Exchanges), NEW intent \in Intent,
           NEW p \in Opt(Proposals), NEW target \in Workers, NEW assigned \in Workers,
           NEW flagged \in BOOLEAN, NEW ask \in Ask, NEW t \in Tasks,
           tasks[t].status = "none", Registered(target), Registered(assigned),
           e # None => exchanges[e].status # "none",
           p # None => proposals[p].status # "none"
    PROVE  LET q == NewTask(parent, e, intent, p, target, assigned, flagged, ask)
           IN /\ Created(q, tasks[t]) /\ q.exchange = e
              /\ q.target = target /\ q.assigned = assigned /\ q.status # "none"
  <1> DEFINE gated == RequiresApproval(intent, flagged, target, ask)
             live == LiveImpact(intent, flagged, target)
             s == IF gated THEN "blocked" ELSE "queued"
             q == [NoTask EXCEPT !.status = s, !.parent = parent, !.exchange = e,
                     !.intent = intent, !.proposal = p, !.target = target,
                     !.assigned = assigned, !.live = live, !.gated = gated]
  <1>1. s \in {"blocked", "queued"}
    OBVIOUS
  <1>2. q = NewTask(parent, e, intent, p, target, assigned, flagged, ask)
    BY DEF NewTask
  <1> HIDE DEF s, gated, live
  <1>3. /\ q.status = s /\ q.target = target /\ q.assigned = assigned /\ q.exchange = e
        /\ q.proposal = p /\ q.error = "none" /\ q.canceledFrom = None
    BY DEF NoTask
  <1> HIDE DEF q
  <1>4. Created(q, tasks[t]) /\ q.status # "none"
    BY <1>1, <1>3 DEF Created, IsLive, LiveStatus
  <1> QED BY <1>2, <1>3, <1>4

LEMMA CreateTaskMoves ==
    ASSUME LInv, NEW t \in Tasks, CreateTask(t)
    PROVE  SavedStep
  <1>1. PICK parent \in Parents, e \in Opt(Exchanges), intent \in Intents,
             p \in Opt(Proposals), target \in Workers, assigned \in Workers,
             flagged \in Flags, ask \in Asks :
             LET r == NewTask(parent, e, intent, p, target, assigned, flagged, ask)
             IN /\ PersistTasks([tasks EXCEPT ![t] = r], LinkExchange(t, r))
                /\ e # None => exchanges[e].status # "none"
                /\ Registered(target) /\ Registered(assigned)
                /\ ProposalLinkOK(p, intent, target)
    BY DEF CreateTask
  <1> DEFINE q == NewTask(parent, e, intent, p, target, assigned, flagged, ask)
             T == [tasks EXCEPT ![t] = q]
             E == LinkExchange(t, q)
  <1>2. /\ parent \in Opt(Tasks) /\ intent \in Intent /\ flagged \in BOOLEAN /\ ask \in Ask
    BY InputAssumption
  <1>3. /\ tasks[t].status = "none" /\ Len(outbox[t]) < MaxLives
        /\ UNCHANGED <<tombstones, outbox>>
    BY DEF CreateTask
  <1>4. p # None => proposals[p].status # "none"
    BY <1>1 DEF ProposalLinkOK
  <1>5. /\ Created(q, tasks[t]) /\ q.exchange = e /\ q.target = target
        /\ q.assigned = assigned /\ q.status # "none"
    BY <1>1, <1>2, <1>3, <1>4, NewTaskCreated
  <1>6. Persist(T, E, proposals, workers, tombstones)
    BY <1>1 DEF PersistTasks
  <1>7. tasks \in [Tasks -> Task] /\ exchanges \in [Exchanges -> Exchange]
    BY DEF LInv, IInv, MapsOK
  <1>8. T[t] = q /\ \A u \in Tasks \ {t} : T[u] = tasks[u]
    BY <1>7
  <1> HIDE DEF q, T
  <1>9. ASSUME NEW f \in Exchanges
        PROVE  /\ exchanges[f].status # "none" => E[f].status # "none"
               /\ ExchangeMove(f, E[f], T)
    <2>1. CASE q.exchange = f
      <3> DEFINE y == Linked(exchanges[f], t, q)
      <3>1. E[f] = y
        BY <2>1 DEF LinkExchange
      <3>2. y.active = t /\ y.target = q.target /\ y.assigned = q.assigned
            /\ y.status = exchanges[f].status
        BY <1>5, <1>7, NoneAssumption DEF Linked, Synced, Assignee, Exchange
      <3> HIDE DEF y
      <3>3. Follows(y, f, T[y.active])
        BY <1>5, <1>8, <2>1, <3>2, LiveNotTerminal DEF Follows, SameRoute, Created
      <3> QED BY <3>1, <3>2, <3>3 DEF ExchangeMove
    <2>2. CASE q.exchange # f
      <3>1. E[f] = exchanges[f]
        BY <2>2 DEF LinkExchange
      <3>2. \A u \in Tasks : tasks[u].status # "none" => T[u] = tasks[u]
        BY <1>3, <1>8
      <3> QED BY <3>1, <3>2, SameIsKept DEF ExchangeMove
    <2> QED BY <2>1, <2>2
  <1>10. \A u \in Tasks : Quiet(u, T[u])
    BY <1>3, <1>5, <1>8, SameIsKept DEF Quiet
  <1> HIDE DEF E
  <1>11. Written(T, E, proposals, workers, tombstones)
    BY <1>3, <1>9, <1>10, QuietMoves, SameRest DEF Written, GrowsE
  <1> QED BY <1>6, <1>11 DEF SavedStep

LEMMA TouchMoves ==
    ASSUME LInv, NEW t \in Tasks,
           UpdateTaskPayload(t) \/ PlanAcceptedTaskWake(t) \/ RecordTaskWakeDecision(t)
    PROVE  SavedStep
  <1> DEFINE r == tasks[t]
  <1>1. r \in Task /\ tasks \in [Tasks -> Task]
    BY DEF LInv, IInv, MapsOK
  <1>2. Touched(r) \in Task /\ Kept(Touched(r), r)
    <2> DEFINE f == [r EXCEPT !.fresh = TRUE]
    <2>1. f \in Task /\ Kept(f, r)
      BY <1>1 DEF Task, Kept, SameLinks, SameRoute
    <2> HIDE DEF f
    <2> QED BY <1>1, <2>1, SameIsKept DEF Touched, f
  <1>3. ASSUME NEW v \in {"planned", "decided"}
        PROVE  Kept([Touched(r) EXCEPT !.wake = v], r)
    <2> DEFINE x == Touched(r)
               q == [x EXCEPT !.wake = v]
    <2> HIDE DEF x
    <2>1. x \in Task /\ Kept(x, r)
      BY <1>2 DEF x
    <2>2. /\ q.parent = x.parent /\ q.exchange = x.exchange /\ q.proposal = x.proposal
          /\ q.intent = x.intent /\ q.target = x.target /\ q.assigned = x.assigned
          /\ q.status = x.status /\ q.error = x.error /\ q.canceledFrom = x.canceledFrom
      BY <2>1 DEF Task
    <2> HIDE DEF q
    <2>3. Kept(q, r)
      BY <2>1, <2>2 DEF Kept, SameLinks, SameRoute
    <2> QED BY <2>3 DEF q, x
  <1>4. UNCHANGED <<tombstones, outbox>>
    BY DEF UpdateTaskPayload, PlanAcceptedTaskWake, RecordTaskWakeDecision
  <1>5. PICK q : Kept(q, r) /\ PersistTasks([tasks EXCEPT ![t] = q], exchanges)
    <2>1. CASE UpdateTaskPayload(t)
      BY <1>1, <1>2, <2>1 DEF UpdateTaskPayload
    <2>2. CASE PlanAcceptedTaskWake(t)
      <3> DEFINE q == IF r.wake = "none" THEN [Touched(r) EXCEPT !.wake = "planned"] ELSE r
      <3>1. Kept(q, r)
        BY <1>3, SameIsKept
      <3>2. PersistTasks([tasks EXCEPT ![t] = q], exchanges)
        BY <1>1, <2>2 DEF PlanAcceptedTaskWake
      <3> HIDE DEF q
      <3> QED BY <3>1, <3>2
    <2>3. CASE RecordTaskWakeDecision(t)
      <3> DEFINE q == [Touched(r) EXCEPT !.wake = "decided"]
      <3>1. Kept(q, r)
        BY <1>3
      <3>2. PersistTasks([tasks EXCEPT ![t] = q], exchanges)
        BY <1>1, <2>3 DEF RecordTaskWakeDecision
      <3> HIDE DEF q
      <3> QED BY <3>1, <3>2
    <2> QED BY <2>1, <2>2, <2>3
  <1> QED BY <1>4, <1>5, KeptStep

LEMMA ReassignedMoves ==
    ASSUME NEW r \in Task, TaskOK(r), IsLive(r), NEW target \in Workers, NEW assigned \in Workers
    PROVE  LET a == Reassigned(r, target, assigned)
           IN /\ a \in Task /\ Routed(a) /\ SameLinks(a, r) /\ IsLive(a)
              /\ a.error = "none" /\ a.canceledFrom = r.canceledFrom
              /\ a.target = target /\ a.assigned = assigned
  <1> DEFINE s == IF r.gated /\ ~r.approved THEN "blocked" ELSE "queued"
             a == [r EXCEPT !.target = target, !.assigned = assigned, !.status = s,
                            !.claimedBy = None, !.attempt = FALSE, !.requeues = 0,
                            !.result = FALSE, !.error = "none", !.fresh = TRUE]
  <1>1. s \in {"blocked", "queued"}
    OBVIOUS
  <1>2. a = Reassigned(r, target, assigned)
    BY DEF Reassigned
  <1> HIDE DEF s
  <1>3. /\ a.status = s /\ a.error = "none" /\ a.canceledFrom = r.canceledFrom
        /\ a.parent = r.parent /\ a.exchange = r.exchange
        /\ a.proposal = r.proposal /\ a.intent = r.intent
    BY DEF Task
  <1>4. a \in Task /\ TaskOK(a) /\ a.target = target /\ a.assigned = assigned
    BY <1>2, ReassignedOK
  <1> HIDE DEF a
  <1>5. IsLive(a) /\ SameLinks(a, r) /\ Routed(a)
    BY <1>1, <1>3, <1>4 DEF IsLive, LiveStatus, SameLinks, TaskOK
  <1> QED BY <1>2, <1>3, <1>4, <1>5

LEMMA OperatorMoves ==
    ASSUME LInv, NEW t \in Tasks, ReassignTask(t) \/ ApproveTask(t)
    PROVE  SavedStep
  <1> DEFINE r == tasks[t]
  <1>1. r \in Task /\ TaskOK(r)
    BY DEF LInv, IInv, MapsOK
  <1>2. PICK q \in Task : Routed(q) /\ Worked(q, r) /\ UpdateTask(t, q, "queued")
    <2>1. CASE ReassignTask(t)
      <3>1. PICK target \in Workers, assigned \in Workers :
              /\ Registered(target) /\ Registered(assigned)
              /\ UpdateTask(t, Reassigned(r, target, assigned), "queued")
        BY <2>1 DEF ReassignTask
      <3> DEFINE q == Reassigned(r, target, assigned)
      <3>2. /\ q \in Task /\ Routed(q) /\ SameLinks(q, r) /\ IsLive(q) /\ IsLive(r)
            /\ q.error = "none" /\ q.canceledFrom = r.canceledFrom
            /\ q.target = target /\ q.assigned = assigned
        BY <1>1, <2>1, ReassignedMoves DEF ReassignTask
      <3>3. Worked(q, r)
        BY <3>1, <3>2 DEF Worked
      <3> QED BY <3>1, <3>2, <3>3
    <2>2. CASE ApproveTask(t)
      <3> DEFINE q == [r EXCEPT !.approved = TRUE, !.outcome = "approved",
                                !.status = "queued", !.fresh = TRUE]
      <3>1. q \in Task /\ TaskOK(q)
        BY <1>1, <2>2, ApprovedOK DEF ApproveTask
      <3>2. /\ q.parent = r.parent /\ q.exchange = r.exchange /\ q.proposal = r.proposal
            /\ q.intent = r.intent /\ q.target = r.target /\ q.assigned = r.assigned
            /\ q.status = "queued" /\ q.error = r.error /\ q.canceledFrom = r.canceledFrom
        BY <1>1 DEF Task
      <3>3. r.status \in {"blocked", "queued"} /\ UpdateTask(t, q, "queued")
        BY <2>2 DEF ApproveTask
      <3> HIDE DEF q
      <3>4. Worked(q, r) /\ Routed(q)
        BY <3>1, <3>2, <3>3 DEF Worked, SameLinks, SameRoute, IsLive, LiveStatus, TaskOK
      <3> QED BY <3>1, <3>3, <3>4
    <2> QED BY <2>1, <2>2
  <1>3. UNCHANGED <<tombstones, outbox>>
    BY DEF ReassignTask, ApproveTask
  <1> QED BY <1>2, <1>3, WorkedStep

(* Cancels and sweeps.  The exchange of each task in S follows the last    *)
(* one that was written.                                                   *)
LEMMA SyncLastMoves ==
    ASSUME LInv, NEW T, NEW S \in SUBSET Tasks, NEW last \in LastWritten(T, S), NEW status,
           \A t \in Tasks \ S : Undisturbed(T[t], tasks[t]),
           \A t \in S : /\ T[t] \in Task /\ Routed(T[t]) /\ T[t].status # "none"
                        /\ SameLinks(T[t], tasks[t])
                        /\ status[t] \in {"queued", "failed"}
    PROVE  LET E == SyncLast(T, last, status)
           IN GrowsE(E) /\ \A e \in Exchanges : ExchangeMove(e, E[e], T)
  <1> DEFINE E == SyncLast(T, last, status)
  <1>1. ASSUME NEW e \in Exchanges
        PROVE  /\ exchanges[e].status # "none" => E[e].status # "none"
               /\ ExchangeMove(e, E[e], T)
    <2> DEFINE mine == {t \in S : T[t].exchange = e}
    <2>1. IF mine = {} THEN last[e] = None ELSE last[e] \in mine
      BY DEF LastWritten
    <2>2. exchanges[e] \in Exchange
      BY DEF LInv, IInv, MapsOK
    <2>3. CASE mine = {}
      <3>1. E[e] = exchanges[e]
        BY <2>1, <2>3 DEF SyncLast
      <3>2. \A t \in Tasks : tasks[t].exchange = e => t \notin S
        BY <2>3 DEF SameLinks
      <3> QED BY <3>1, <3>2, SameIsKept DEF ExchangeMove
    <2>4. CASE mine # {}
      <3> DEFINE t == last[e]
      <3>1. t \in S /\ T[t].exchange = e /\ t # None
        BY <2>1, <2>4, NoneAssumption
      <3> HIDE DEF t
      <3>2. exchanges[e].status # "none"
        <4>1. tasks[t].exchange = e /\ t \in Tasks
          BY <3>1 DEF SameLinks
        <4> QED BY <4>1, NoneAssumption DEF LInv, RefsInv, RefsOK
      <3> DEFINE y == Synced(exchanges[e], t, T[t], status[t])
      <3>3. E[e] = y
        BY <3>1, <3>2 DEF SyncLast, t
      <3>4. Assignee(T[t]) = T[t].assigned
        BY <3>1, NoneAssumption DEF Routed, Assignee
      <3>5. /\ y.active = t /\ y.target = T[t].target /\ y.assigned = T[t].assigned
            /\ y.status = status[t]
        BY <2>2, <3>4 DEF Synced, Exchange
      <3> HIDE DEF y
      <3>6. Follows(y, e, T[y.active])
        BY <3>1, <3>5 DEF Follows, SameRoute
      <3> QED BY <3>1, <3>3, <3>5, <3>6 DEF ExchangeMove
    <2> QED BY <2>3, <2>4
  <1> QED BY <1>1 DEF GrowsE

LEMMA CanceledMoves ==
    ASSUME NEW r \in Task, NEW from
    PROVE  LET c == Canceled(r, from)
           IN /\ SameLinks(c, r) /\ SameRoute(c, r) /\ c.status = "canceled"
              /\ c.error = "none" /\ c.canceledFrom = from /\ IsTerminal(c)
              /\ Tells("canceled", c)
  <1> DEFINE c == Canceled(r, from)
  <1>1. SameLinks(c, r) /\ SameRoute(c, r)
    BY DEF Canceled, Task, SameLinks, SameRoute
  <1>2. c.status = "canceled" /\ c.error = "none" /\ c.canceledFrom = from
    BY DEF Canceled, Task
  <1> HIDE DEF c
  <1>3. IsTerminal(c) /\ Tells("canceled", c)
    BY <1>2 DEF IsTerminal, TerminalStatus, Tells
  <1> QED BY <1>1, <1>2, <1>3 DEF c

(* The members S of the tree of root are canceled, announced, and saved    *)
(* with the tombstones of some of them.  Base is the Map of tasks the      *)
(* cancel starts from: a refusal has already marked the root in it.        *)
LEMMA CancelMembersMoves ==
    ASSUME LInv, NEW root \in Tasks, NEW S \in SUBSET Tasks, NEW S1, NEW S2,
           S1 \subseteq S, S2 \subseteq S, root \in S,
           \A c \in S : IsLive(tasks[c]),
           \A c \in S \ {root} : tasks[c].parent \in S,
           NEW Base \in [Tasks -> Task],
           \A c \in Tasks : SameLinks(Base[c], tasks[c]) /\ SameRoute(Base[c], tasks[c]),
           \A c \in Tasks \ {root} : Base[c] = tasks[c],
           CancelMembers(root, Base, S, WriteTombstones(S1, "canceled")),
           tombstones' = WriteTombstones(S2, "canceled"),
           Announce(S, "canceled")
    PROVE  SavedStep
  <1> DEFINE C == CancelRecords(Base, root, S)
             from(c) == IF c = root THEN "request" ELSE Base[c].parent
             queued == [c \in Tasks |-> "queued"]
             tombs == WriteTombstones(S1, "canceled")
  <1>1. PICK last \in LastWritten(C, S) :
            Persist(C, SyncLast(C, last, queued), proposals, workers, tombs)
    BY DEF CancelMembers
  <1>2. tasks \in [Tasks -> Task] /\ \A c \in Tasks : TaskOK(tasks[c])
    BY DEF LInv, IInv, MapsOK
  <1>3. ASSUME NEW c \in S
        PROVE  /\ Ended(C[c], tasks[c]) /\ C[c].status = "canceled" /\ C[c].error = "none"
               /\ Tells("canceled", C[c]) /\ C[c].canceledFrom = from(c)
               /\ C[c].parent = tasks[c].parent
               /\ C[c] \in Task /\ Routed(C[c]) /\ SameLinks(C[c], tasks[c])
    <2> DEFINE q == Canceled(Base[c], from(c))
    <2>1. C[c] = q
      BY DEF CancelRecords
    <2>2. Base[c] \in Task /\ SameLinks(Base[c], tasks[c]) /\ SameRoute(Base[c], tasks[c])
      OBVIOUS
    <2>3. /\ SameLinks(q, Base[c]) /\ SameRoute(q, Base[c]) /\ q.status = "canceled"
          /\ q.error = "none" /\ q.canceledFrom = from(c) /\ IsTerminal(q)
          /\ Tells("canceled", q)
      BY <2>2, CanceledMoves
    <2>4. q \in Task
      <3>1. from(c) \in Opt(Tasks) \cup {"request"}
        BY <2>2 DEF Task
      <3> HIDE DEF from
      <3> QED BY <2>2, <3>1, OptFacts, StatusFacts DEF Canceled, Task
    <2> HIDE DEF q
    <2>5. SameLinks(q, tasks[c]) /\ SameRoute(q, tasks[c])
      BY <2>2, <2>3 DEF SameLinks, SameRoute
    <2>6. Ended(q, tasks[c]) /\ q.parent = tasks[c].parent
      BY <2>3, <2>5 DEF Ended, SameLinks
    <2>7. Routed(q)
      <3>1. Routed(tasks[c]) /\ tasks[c].status # "none"
        BY <1>2 DEF TaskOK, IsLive, LiveStatus, HeldStatus
      <3> QED BY <2>5, <3>1 DEF Routed, SameRoute
    <2> QED BY <2>1, <2>3, <2>4, <2>5, <2>6, <2>7
  <1>4. \A c \in Tasks \ S : C[c] = tasks[c]
    BY DEF CancelRecords
  <1>5. \A c \in S : C[c].canceledFrom = "request" \/
            (C[c].canceledFrom = C[c].parent /\ C[c].parent \in S)
    <2>1. \A c \in S \ {root} : Base[c].parent = tasks[c].parent
      BY DEF SameLinks
    <2> QED BY <1>3, <2>1
  <1>6. \A c \in Tasks : queued[c] = "queued"
    OBVIOUS
  <1> DEFINE E == SyncLast(C, last, queued)
  <1> HIDE DEF C, from, queued
  <1>7. \A c \in Tasks \ S : Quiet(c, C[c]) /\ Undisturbed(C[c], tasks[c])
    BY <1>4, SameIsKept DEF Quiet
  <1>8. GrowsE(E) /\ \A e \in Exchanges : ExchangeMove(e, E[e], C)
    <2>1. \A c \in S : /\ C[c] \in Task /\ Routed(C[c]) /\ C[c].status # "none"
                       /\ SameLinks(C[c], tasks[c]) /\ queued[c] \in {"queued", "failed"}
      BY <1>3, <1>6
    <2> QED BY <1>7, <2>1, SyncLastMoves
  <1>9. Persist(C, E, proposals, workers, tombs)
    BY <1>1
  <1> HIDE DEF E
  <1>10. \A c \in Tasks : TaskMove(c, C[c], proposals)
    BY <1>3, <1>5, <1>7, EndMoves
  <1>11. \A c \in Tasks : /\ TombMove(c, C[c], tombs[c]) /\ TombMove(c, C[c], tombstones'[c])
    <2>1. \A c \in S : /\ Ended(C[c], tasks[c]) /\ Tells("canceled", C[c])
                       /\ C[c].error # "exceeded_requeue_limit"
      BY <1>3
    <2> QED BY <1>7, <2>1, EndTombs
  <1> HIDE DEF tombs
  <1>12. Written(C, E, proposals, workers, tombs)
    BY <1>8, <1>10, <1>11, SameRest DEF Written
  <1> QED BY <1>9, <1>12 DEF SavedStep

(* Every member of a cancel's tree but the root has its parent in the tree. *)
LEMMA CancelTreeParents ==
    ASSUME NEW t \in Tasks
    PROVE  /\ CancelTree(t) \in SUBSET Tasks /\ t \in CancelTree(t)
           /\ \A c \in CancelTree(t) \ {t} : tasks[c].parent \in CancelTree(t)
  <1> DEFINE K == CancelTree(t)
             S == {c \in K : c = t \/ tasks[c].parent \in K}
  <1>1. K \in SUBSET Tasks /\ t \in K
    BY DEF CancelTree
  <1>2. ASSUME NEW s \in K, NEW c \in LiveChildren(s) PROVE c \in K
    <2>1. c \in Tasks
      BY DEF LiveChildren
    <2>2. ASSUME NEW U \in SUBSET Tasks, t \in U, \A u \in U : LiveChildren(u) \subseteq U
          PROVE  c \in U
      <3>1. s \in U
        BY <2>2 DEF CancelTree
      <3> QED BY <2>2, <3>1
    <2> QED BY <2>1, <2>2 DEF CancelTree
  <1> HIDE DEF K
  <1>3. S \in SUBSET Tasks /\ t \in S
    BY <1>1
  <1>4. \A s \in S : LiveChildren(s) \subseteq S
    BY <1>2 DEF LiveChildren
  <1> HIDE DEF S
  <1>5. K \subseteq S
    BY <1>3, <1>4 DEF K, CancelTree
  <1> QED BY <1>1, <1>5 DEF K, S

LEMMA CancelMoves ==
    ASSUME LInv, NEW t \in Tasks, CancelTask(t) \/ CrashDuringCancel(t)
    PROVE  SavedStep
  <1>1. PICK S, S1, S2 :
           /\ S \subseteq CancelTree(t) /\ S1 \subseteq S /\ S2 \subseteq S /\ t \in S
           /\ \A c \in S \ {t} : tasks[c].parent \in S
           /\ CancelMembers(t, tasks, S, WriteTombstones(S1, "canceled"))
           /\ tombstones' = WriteTombstones(S2, "canceled") /\ Announce(S, "canceled")
    <2>1. CASE CancelTask(t)
      <3> DEFINE K == CancelTree(t)
      <3>1. PICK final \in K : CancelMembers(t, tasks, K, WriteTombstones(K \ {final}, "canceled"))
        BY <2>1 DEF CancelTask
      <3>2. tombstones' = WriteTombstones(K, "canceled") /\ Announce(K, "canceled")
        BY <2>1 DEF CancelTask
      <3>3. t \in K /\ \A c \in K \ {t} : tasks[c].parent \in K
        BY CancelTreeParents
      <3> HIDE DEF K
      <3> QED BY <3>1, <3>2, <3>3 DEF K
    <2>2. CASE CrashDuringCancel(t)
      BY <2>2 DEF CrashDuringCancel, CancelPrefix
    <2> QED BY <2>1, <2>2
  <1>2. S \in SUBSET Tasks /\ \A c \in S : IsLive(tasks[c])
    BY <1>1, CancelTreeLive DEF CancelTask, CrashDuringCancel
  <1>3. tasks \in [Tasks -> Task]
    BY DEF LInv, IInv, MapsOK
  <1>4. \A c \in Tasks : SameLinks(tasks[c], tasks[c]) /\ SameRoute(tasks[c], tasks[c])
    BY DEF SameLinks, SameRoute
  <1> QED BY <1>1, <1>2, <1>3, <1>4, CancelMembersMoves

LEMMA RejectMoves ==
    ASSUME LInv, NEW t \in Tasks, RejectTaskApproval(t)
    PROVE  SavedStep
  <1> DEFINE S == CancelTree(t)
             T == [tasks EXCEPT ![t].outcome = "refused"]
  <1>1. /\ CancelMembers(t, T, S, WriteTombstones(S, "canceled"))
        /\ tombstones' = WriteTombstones(S, "canceled") /\ Announce(S, "canceled")
    BY DEF RejectTaskApproval
  <1>2. tasks \in [Tasks -> Task]
    BY DEF LInv, IInv, MapsOK
  <1>3. IsLive(tasks[t])
    BY DEF RejectTaskApproval, IsLive, LiveStatus
  <1>4. /\ S \in SUBSET Tasks /\ t \in S /\ \A c \in S : IsLive(tasks[c])
        /\ \A c \in S \ {t} : tasks[c].parent \in S
    BY <1>3, CancelTreeLive, CancelTreeParents
  <1>5. T \in [Tasks -> Task]
    BY <1>2 DEF Task
  <1>6. /\ T[t] = [tasks[t] EXCEPT !.outcome = "refused"]
        /\ \A c \in Tasks \ {t} : T[c] = tasks[c]
    BY <1>2
  <1>7. SameLinks(T[t], tasks[t]) /\ SameRoute(T[t], tasks[t])
    BY <1>2, <1>6 DEF Task, SameLinks, SameRoute
  <1> HIDE DEF S, T
  <1>8. \A c \in Tasks : SameLinks(T[c], tasks[c]) /\ SameRoute(T[c], tasks[c])
    BY <1>6, <1>7 DEF SameLinks, SameRoute
  <1> QED BY <1>1, <1>4, <1>5, <1>6, <1>8, CancelMembersMoves

LEMMA SweptMoves ==
    ASSUME NEW r \in Task, TaskOK(r), IsHeld(r), r.error = "none"
    PROVE  LET q == Swept(r)
           IN /\ q \in Task /\ Routed(q) /\ q.status # "none"
              /\ SameLinks(q, r) /\ SameRoute(q, r) /\ q.canceledFrom = r.canceledFrom
              /\ Exhausted(r) => /\ Ended(q, r) /\ q.status = "failed"
                                 /\ Tells("dead_lettered", q)
              /\ ~Exhausted(r) => Worked(q, r)
  <1> DEFINE q == Swept(r)
  <1>1. q \in Task /\ Routed(q) /\ q.status # "none" /\ SameRoute(q, r)
    BY SweptOK DEF TaskOK, SameRoute
  <1>2. IsLive(r)
    BY DEF IsLive, IsHeld, LiveStatus
  <1>3. CASE Exhausted(r)
    <2>1. q = DeadLettered(r)
      BY <1>3 DEF Swept
    <2>2. /\ SameLinks(q, r) /\ q.canceledFrom = r.canceledFrom
          /\ q.status = "failed" /\ q.error = "exceeded_requeue_limit"
      BY <2>1 DEF DeadLettered, Task, SameLinks
    <2> HIDE DEF q
    <2>3. Ended(q, r) /\ Tells("dead_lettered", q)
      BY <1>1, <1>2, <2>2 DEF Ended, IsTerminal, TerminalStatus, Tells
    <2> QED BY <1>1, <1>3, <2>2, <2>3 DEF q
  <1>4. CASE ~Exhausted(r)
    <2>1. q = Requeued(r)
      BY <1>4 DEF Swept
    <2>2. /\ SameLinks(q, r) /\ q.canceledFrom = r.canceledFrom
          /\ q.status = "queued" /\ q.error = r.error
      BY <2>1 DEF Requeued, Task, SameLinks
    <2> HIDE DEF q
    <2>3. Worked(q, r)
      BY <1>1, <1>2, <2>2 DEF Worked, IsLive, LiveStatus
    <2> QED BY <1>1, <1>4, <2>2, <2>3 DEF q
  <1> QED BY <1>3, <1>4

LEMMA RequeueMoves ==
    ASSUME LInv, NEW threshold, RequeueStaleTasks(threshold)
    PROVE  SavedStep
  <1> DEFINE S == {t \in Tasks : RequeueReason(tasks[t], threshold)}
             D == {t \in S : Exhausted(tasks[t])}
             T == [t \in Tasks |-> IF t \in S THEN Swept(tasks[t]) ELSE tasks[t]]
             status == [t \in Tasks |-> IF t \in D THEN "failed" ELSE "queued"]
             tombs == WriteTombstones(D, "dead_lettered")
  <1>1. PICK last \in LastWritten(T, S) :
            Persist(T, SyncLast(T, last, status), proposals, workers, tombs)
    BY DEF RequeueStaleTasks
  <1>2. tombstones' = tombs /\ Announce(D, "failed")
    BY DEF RequeueStaleTasks
  <1>3. \A t \in Tasks : status[t] \in {"queued", "failed"}
    OBVIOUS
  <1>4. ASSUME NEW t \in S
        PROVE  /\ T[t] \in Task /\ Routed(T[t]) /\ T[t].status # "none"
               /\ SameLinks(T[t], tasks[t]) /\ T[t].canceledFrom = tasks[t].canceledFrom
               /\ t \in D => /\ Ended(T[t], tasks[t]) /\ T[t].status = "failed"
                             /\ Tells("dead_lettered", T[t])
               /\ t \notin D => Worked(T[t], tasks[t])
    <2>1. tasks[t] \in Task /\ TaskOK(tasks[t]) /\ LifeOK(tasks[t], outbox[t])
      BY DEF LInv, IInv, MapsOK, LifeInv
    <2>2. IsHeld(tasks[t])
      BY DEF RequeueReason
    <2>3. tasks[t].error = "none"
      BY <2>1, <2>2 DEF LifeOK, IsLive, IsHeld, LiveStatus
    <2>4. T[t] = Swept(tasks[t]) /\ (t \in D <=> Exhausted(tasks[t]))
      OBVIOUS
    <2> HIDE DEF T, S, D
    <2> DEFINE q == Swept(tasks[t])
    <2>5. /\ q \in Task /\ Routed(q) /\ q.status # "none"
          /\ SameLinks(q, tasks[t]) /\ q.canceledFrom = tasks[t].canceledFrom
          /\ Exhausted(tasks[t]) => /\ Ended(q, tasks[t]) /\ q.status = "failed"
                                    /\ Tells("dead_lettered", q)
          /\ ~Exhausted(tasks[t]) => Worked(q, tasks[t])
      BY <2>1, <2>2, <2>3, SweptMoves
    <2>6. T[t] = q
      BY <2>4
    <2> HIDE DEF q
    <2> QED BY <2>4, <2>5, <2>6
  <1>5. /\ \A t \in Tasks \ S : T[t] = tasks[t]
        /\ D \subseteq S /\ S \in SUBSET Tasks
    OBVIOUS
  <1> DEFINE E == SyncLast(T, last, status)
  <1> HIDE DEF S, D, T, status, tombs
  <1>6. \A t \in Tasks \ S : Undisturbed(T[t], tasks[t])
    BY <1>5, SameIsKept
  <1>7. \A t \in Tasks \ D : Quiet(t, T[t])
    BY <1>4, <1>5, SameIsKept DEF Quiet
  <1>8. GrowsE(E) /\ \A e \in Exchanges : ExchangeMove(e, E[e], T)
    BY <1>3, <1>4, <1>5, <1>6, SyncLastMoves
  <1>9. Persist(T, E, proposals, workers, tombs)
    BY <1>1
  <1> HIDE DEF E
  <1>10. \A t \in Tasks : TaskMove(t, T[t], proposals)
    <2>1. \A t \in D : /\ Ended(T[t], tasks[t]) /\ T[t].status = "failed"
                       /\ "failed" = "succeeded" => AppliedIn(proposals, tasks[t])
                       /\ T[t].canceledFrom \in {tasks[t].canceledFrom, "request"}
      BY <1>4, <1>5
    <2>2. Announce(D, "failed") /\ D \in SUBSET Tasks
      BY <1>2, <1>5
    <2> QED BY <1>7, <2>1, <2>2, EndMoves
  <1>11. \A t \in Tasks : TombMove(t, T[t], tombs[t])
    <2>1. \A t \in D : Ended(T[t], tasks[t]) /\ Tells("dead_lettered", T[t])
      BY <1>4, <1>5
    <2> QED BY <1>5, <1>7, <2>1, EndTombs DEF tombs
  <1>12. Written(T, E, proposals, workers, tombs)
    BY <1>2, <1>8, <1>10, <1>11, SameRest DEF Written
  <1> QED BY <1>9, <1>12 DEF SavedStep

LEMMA StartExchangeMoves ==
    ASSUME LInv, NEW e \in Exchanges, StartExchange(e)
    PROVE  SavedStep
  <1>1. PICK target \in Workers, intent \in Intents :
            Persist(tasks, [exchanges EXCEPT ![e] = [NoExchange EXCEPT
                        !.status = "queued", !.target = target, !.intent = intent]],
                    proposals, workers, tombstones)
    BY DEF StartExchange
  <1> DEFINE y == [NoExchange EXCEPT !.status = "queued", !.target = target, !.intent = intent]
             E == [exchanges EXCEPT ![e] = y]
  <1>2. UNCHANGED <<tombstones, outbox>> /\ exchanges[e].status = "none"
    BY DEF StartExchange
  <1>3. y.status = "queued" /\ y.active = None
    BY DEF NoExchange
  <1>4. exchanges \in [Exchanges -> Exchange]
    BY DEF LInv, IInv, MapsOK
  <1> HIDE DEF y
  <1>5. E[e] = y /\ \A f \in Exchanges \ {e} : E[f] = exchanges[f]
    BY <1>4
  <1>6. Persist(tasks, E, proposals, workers, tombstones)
    BY <1>1 DEF y
  <1> HIDE DEF E
  <1>7. \A t \in Tasks : Kept(tasks[t], tasks[t]) /\ Undisturbed(tasks[t], tasks[t])
    BY SameIsKept
  <1>8. \A f \in Exchanges : ExchangeMove(f, E[f], tasks)
    <2>1. ExchangeMove(e, E[e], tasks)
      BY <1>3, <1>5 DEF ExchangeMove
    <2> QED BY <1>5, <1>7, <2>1, SameExchanges
  <1>9. GrowsE(E)
    BY <1>2, <1>5 DEF GrowsE
  <1>10. Written(tasks, E, proposals, workers, tombstones)
    BY <1>2, <1>7, <1>8, <1>9, QuietMoves, SameRest DEF Written, Quiet
  <1> QED BY <1>6, <1>10 DEF SavedStep

(* A message writes exchange e, and of the tasks at most one that no other *)
(* exchange is following.                                                  *)
LEMMA MessageExchanges ==
    ASSUME LInv, NEW e \in Exchanges, NEW y, NEW T, y.status # "none", ExchangeMove(e, y, T),
           \A t \in Tasks : \/ tasks[t].status = "none" \/ Undisturbed(T[t], tasks[t])
                            \/ exchanges[e].active = t
    PROVE  LET E == [exchanges EXCEPT ![e] = y]
           IN GrowsE(E) /\ \A f \in Exchanges : ExchangeMove(f, E[f], T)
  <1> DEFINE E == [exchanges EXCEPT ![e] = y]
  <1>1. exchanges \in [Exchanges -> Exchange]
    BY DEF LInv, IInv, MapsOK
  <1>2. E[e] = y /\ \A f \in Exchanges \ {e} : E[f] = exchanges[f]
    BY <1>1
  <1> HIDE DEF E
  <1>3. ASSUME NEW f \in Exchanges \ {e} PROVE ExchangeMove(f, E[f], T)
    <2>1. SameExchange(E[f], exchanges[f])
      BY <1>2, SameIsKept
    <2>2. \A t \in Tasks : tasks[t].status # "none" =>
              Undisturbed(T[t], tasks[t]) \/ \E g \in Exchanges \ {f} : exchanges[g].active = t
      OBVIOUS
    <2> QED BY <2>1, <2>2 DEF ExchangeMove
  <1>4. GrowsE(E)
    BY <1>2 DEF GrowsE
  <1> QED BY <1>2, <1>3, <1>4 DEF E

(* x is the working copy a message has made of exchange e.                 *)
Working(x, e) ==
    /\ x \in Exchange /\ x.active = exchanges[e].active
    /\ exchanges[e].assigned # None => x.assigned # None

LEMMA EnsureMoves ==
    ASSUME LInv, NEW e \in Exchanges, exchanges[e].status # "none",
           NEW x, Working(x, e), x.target \in Workers,
           Registered(x.target), Registered(Assignee(x)),
           NEW status \in {"queued", "running"}, EnsureExchangeTask(e, x, status),
           UNCHANGED <<tombstones, outbox>>
    PROVE  SavedStep
  <1> DEFINE a == Assignee(x)
  <1>1. /\ a \in Workers /\ x \in Exchange /\ x.active = exchanges[e].active
        /\ tasks \in [Tasks -> Task]
    BY DEF Working, Assignee, Exchange, Opt, LInv, IInv, MapsOK
  <1>2. CASE ReusesTask(x)
    <2> DEFINE t == x.active
               r == tasks[t]
               q == IF Reroutes(x) THEN Reassigned(r, x.target, a) ELSE r
               b == IF Reroutes(x) THEN a ELSE x.assigned
               y == [x EXCEPT !.status = status, !.assigned = b]
               T == [tasks EXCEPT ![t] = q]
    <2>1. t \in Tasks
      BY <1>1, <1>2 DEF ReusesTask, Exchange, Opt
    <2>2. r \in Task /\ TaskOK(r) /\ IsLive(r) /\ r.status # "none"
      BY <1>2, <2>1 DEF ReusesTask, LInv, IInv, MapsOK, IsLive, LiveStatus, HeldStatus
    <2>3. Persist(T, [exchanges EXCEPT ![e] = y], proposals, workers, tombstones)
      BY <1>1, <1>2 DEF EnsureExchangeTask, PersistTasks, Exchange
    <2>4. y.active = t /\ y.target = x.target /\ y.assigned = b /\ y.status = status
      BY <1>1 DEF Exchange
    <2> HIDE DEF y
    <2>5. Quiet(t, q) /\ SameLinks(q, r) /\ q.status # "none" /\ q.target = x.target
          /\ (q.assigned = b \/ exchanges[e].assigned = None)
      <3>1. CASE Reroutes(x)
        <4>1. q = Reassigned(r, x.target, a) /\ b = a
          BY <3>1
        <4>2. /\ SameLinks(q, r) /\ IsLive(q) /\ q.error = "none"
              /\ q.canceledFrom = r.canceledFrom /\ q.target = x.target /\ q.assigned = a
          BY <1>1, <2>2, <4>1, ReassignedMoves
        <4> HIDE DEF q
        <4> QED BY <2>2, <4>1, <4>2 DEF Quiet, Worked, IsLive, LiveStatus, HeldStatus
      <3>2. CASE ~Reroutes(x)
        <4>1. q = r /\ b = x.assigned /\ r.target = x.target /\ r.assigned = a
          BY <3>2 DEF Reroutes
        <4>2. x.assigned # None \/ exchanges[e].assigned = None
          BY DEF Working
        <4>3. x.assigned # None => a = x.assigned
          BY DEF Assignee
        <4> QED BY <2>2, <4>1, <4>2, <4>3, SameIsKept DEF Quiet
      <3> QED BY <3>1, <3>2
    <2> HIDE DEF q, b
    <2>6. T[t] = q /\ \A u \in Tasks \ {t} : T[u] = tasks[u]
      BY <1>1, <2>1
    <2> HIDE DEF T
    <2>7. ExchangeMove(e, y, T)
      <3>1. ReusesTask(exchanges[e])
        BY <1>1, <1>2 DEF ReusesTask
      <3> QED BY <1>1, <2>4, <2>5, <2>6, <3>1 DEF ExchangeMove
    <2> DEFINE E == [exchanges EXCEPT ![e] = y]
    <2>8. GrowsE(E) /\ \A f \in Exchanges : ExchangeMove(f, E[f], T)
      <3>1. \A u \in Tasks : Undisturbed(T[u], tasks[u]) \/ exchanges[e].active = u
        BY <1>1, <2>6, SameIsKept
      <3>2. y.status # "none"
        BY <2>4
      <3> QED BY <2>7, <3>1, <3>2, MessageExchanges
    <2>9. \A u \in Tasks : Quiet(u, T[u])
      BY <2>5, <2>6, SameIsKept DEF Quiet
    <2> HIDE DEF E
    <2>10. Written(T, E, proposals, workers, tombstones)
      BY <2>8, <2>9, QuietMoves, SameRest DEF Written
    <2> QED BY <2>3, <2>10 DEF SavedStep, E
  <1>3. CASE ~ReusesTask(x)
    <2> DEFINE q == NewTask(None, e, x.intent, None, x.target, a, FALSE, "unset")
    <2>1. PICK t \in Tasks :
            /\ tasks[t].status = "none" /\ Len(outbox[t]) < MaxLives
            /\ PersistTasks([tasks EXCEPT ![t] = q],
                   [exchanges EXCEPT ![e] = [Linked(x, t, q) EXCEPT !.status = status]])
      BY <1>3 DEF EnsureExchangeTask
    <2>2. /\ Created(q, tasks[t]) /\ q.exchange = e
          /\ q.target = x.target /\ q.assigned = a /\ q.status # "none"
      <3>1. /\ None \in Opt(Tasks) /\ e \in Opt(Exchanges) /\ None \in Opt(Proposals)
            /\ x.intent \in Intent /\ "unset" \in Ask /\ FALSE \in BOOLEAN
        BY <1>1, OptFacts DEF Exchange, Ask
      <3> HIDE DEF a
      <3>2. \A flagged \in BOOLEAN :
              LET n == NewTask(None, e, x.intent, None, x.target, a, flagged, "unset")
              IN /\ Created(n, tasks[t]) /\ n.exchange = e
                 /\ n.target = x.target /\ n.assigned = a /\ n.status # "none"
        <4>1. Registered(a)
          BY DEF a
        <4> QED BY <1>1, <2>1, <3>1, <4>1, NewTaskCreated
      <3> QED BY <3>2, Zenon
    <2> DEFINE T == [tasks EXCEPT ![t] = q]
               y == [Linked(x, t, q) EXCEPT !.status = status]
               E == [exchanges EXCEPT ![e] = y]
    <2>3. Persist(T, E, proposals, workers, tombstones)
      BY <2>1 DEF PersistTasks
    <2> HIDE DEF q
    <2>4. T[t] = q /\ \A u \in Tasks \ {t} : T[u] = tasks[u]
      BY <1>1
    <2>5. y.active = t /\ y.target = q.target /\ y.assigned = q.assigned /\ y.status = status
      <3>1. Assignee(q) = q.assigned
        BY <1>1, <2>2, NoneAssumption DEF Assignee
      <3> QED BY <1>1, <3>1 DEF Linked, Synced, Exchange
    <2> HIDE DEF T, y
    <2>6. ExchangeMove(e, y, T)
      <3>1. Follows(y, e, T[y.active])
        BY <2>2, <2>4, <2>5 DEF Follows, SameRoute
      <3> QED BY <2>5, <3>1 DEF ExchangeMove
    <2>7. GrowsE(E) /\ \A f \in Exchanges : ExchangeMove(f, E[f], T)
      <3>1. \A u \in Tasks : tasks[u].status = "none" \/ Undisturbed(T[u], tasks[u])
        BY <2>1, <2>4, SameIsKept
      <3>2. y.status # "none"
        BY <2>5
      <3> QED BY <2>6, <3>1, <3>2, MessageExchanges
    <2>8. \A u \in Tasks : Quiet(u, T[u])
      BY <2>1, <2>2, <2>4, SameIsKept DEF Quiet
    <2> HIDE DEF E
    <2>9. Written(T, E, proposals, workers, tombstones)
      BY <2>7, <2>8, QuietMoves, SameRest DEF Written
    <2> QED BY <2>3, <2>9 DEF SavedStep
  <1> QED BY <1>2, <1>3

LEMMA CancelActiveMoves ==
    ASSUME LInv, NEW e \in Exchanges, NEW x, Working(x, e),
           NEW status \in {"queued", "failed"}, CancelActiveExchangeTask(e, x, status)
    PROVE  SavedStep
  <1> DEFINE a == x.active
             S == IF ReusesTask(x) THEN {a} ELSE {}
             C == CancelRecords(tasks, a, S)
             y == IF S # {} THEN Synced(x, a, C[a], status) ELSE [x EXCEPT !.status = status]
             E == [exchanges EXCEPT ![e] = y]
             tombs == WriteTombstones(S, "canceled")
  <1>1. /\ Persist(C, E, proposals, workers, tombs)
        /\ tombstones' = tombs /\ Announce(S, "canceled")
    BY DEF CancelActiveExchangeTask
  <1>2. x \in Exchange /\ a = exchanges[e].active /\ tasks \in [Tasks -> Task]
    BY DEF Working, LInv, IInv, MapsOK
  <1>3. S \in SUBSET Tasks /\ (S # {} => S = {a} /\ ReusesTask(exchanges[e]))
        /\ (S = {} => ~ReusesTask(exchanges[e]))
    BY <1>2 DEF ReusesTask, Exchange, Opt
  <1>4. ASSUME NEW t \in S
        PROVE  /\ Ended(C[t], tasks[t]) /\ C[t].status = "canceled"
               /\ C[t].error = "none" /\ C[t].canceledFrom = "request"
               /\ Tells("canceled", C[t])
    <2>1. C[t] = Canceled(tasks[t], "request") /\ tasks[t] \in Task /\ IsLive(tasks[t])
      BY <1>2, <1>3 DEF CancelRecords, ReusesTask
    <2> HIDE DEF C, S
    <2> QED BY <2>1, CanceledMoves DEF Ended
  <1>5. \A t \in Tasks \ S : C[t] = tasks[t]
    BY DEF CancelRecords
  <1>6. /\ y.active = a /\ y.status = status
        /\ S # {} => y.target = C[a].target /\ y.assigned = Assignee(C[a])
    BY <1>2 DEF Synced, Exchange
  <1> HIDE DEF C, S, y, tombs
  <1>7. ExchangeMove(e, y, C)
    <2>1. CASE S = {}
      <3>1. \A t \in Tasks : Kept(C[t], tasks[t])
        BY <1>5, <2>1, SameIsKept
      <3> QED BY <1>2, <1>3, <1>6, <2>1, <3>1 DEF ExchangeMove
    <2>2. CASE S # {}
      <3>1. a \in S /\ a \in Tasks
        BY <1>3, <2>2
      <3>2. SameLinks(C[a], tasks[a]) /\ SameRoute(C[a], tasks[a]) /\ C[a].status = "canceled"
        BY <1>4, <3>1 DEF Ended
      <3>3. tasks[a].assigned \in Workers
        <4>1. TaskOK(tasks[a]) /\ IsLive(tasks[a])
          BY <1>3, <1>4, <3>1 DEF LInv, IInv, MapsOK, Ended
        <4> QED BY <4>1 DEF TaskOK, Routed, IsLive, LiveStatus, HeldStatus
      <3>4. Assignee(C[a]) = C[a].assigned
        BY <3>2, <3>3, NoneAssumption DEF SameRoute, Assignee
      <3> QED BY <1>2, <1>3, <1>6, <2>2, <3>2, <3>4 DEF ExchangeMove
    <2> QED BY <2>1, <2>2
  <1>8. GrowsE(E) /\ \A f \in Exchanges : ExchangeMove(f, E[f], C)
    <2>1. \A t \in Tasks : Undisturbed(C[t], tasks[t]) \/ exchanges[e].active = t
      BY <1>2, <1>3, <1>5, SameIsKept
    <2>2. y.status # "none"
      BY <1>6
    <2> QED BY <1>7, <2>1, <2>2, MessageExchanges
  <1>9. \A t \in Tasks \ S : Quiet(t, C[t])
    BY <1>5, SameIsKept DEF Quiet
  <1>10. \A t \in Tasks : TaskMove(t, C[t], proposals)
    <2>1. \A t \in S : /\ Ended(C[t], tasks[t]) /\ C[t].status = "canceled"
                       /\ C[t].canceledFrom = "request"
      BY <1>4
    <2> QED BY <1>1, <1>3, <1>9, <2>1, EndMoves
  <1>11. \A t \in Tasks : TombMove(t, C[t], tombs[t])
    <2>1. \A t \in S : Ended(C[t], tasks[t]) /\ Tells("canceled", C[t])
      BY <1>4
    <2> QED BY <1>3, <1>9, <2>1, EndTombs DEF tombs
  <1> HIDE DEF E
  <1>12. Written(C, E, proposals, workers, tombs)
    BY <1>1, <1>8, <1>10, <1>11, SameRest DEF Written
  <1> QED BY <1>1, <1>12 DEF SavedStep

(* A message that is refused for its routing leaves the exchange written   *)
(* in memory only.                                                         *)
LEMMA RefusedMoves ==
    ASSUME LInv, NEW e \in Exchanges, exchanges[e].status # "none",
           NEW y, y.active = exchanges[e].active,
           y.status \in {exchanges[e].status, "running"},
           ReusesTask(exchanges[e]) => Astray(exchanges[e]),
           exchanges' = [exchanges EXCEPT ![e] = y],
           UNCHANGED <<tasks, workers, proposals, tombstones, outbox, disk>>
    PROVE  UnsavedStep
  <1>1. \A t \in Tasks : Kept(tasks[t], tasks[t]) /\ Undisturbed(tasks[t], tasks[t])
    BY SameIsKept
  <1>2. ExchangeMove(e, y, tasks)
    BY <1>1 DEF ExchangeMove
  <1>3. GrowsE(exchanges') /\ \A f \in Exchanges : ExchangeMove(f, exchanges'[f], tasks)
    BY <1>1, <1>2, MessageExchanges
  <1>4. Written(tasks', exchanges', proposals', workers', disk'.tombstones)
    BY <1>1, <1>3, QuietMoves, SameRest DEF Written, Quiet
  <1> QED BY <1>1, <1>4, SameIsKept DEF UnsavedStep

LEMMA MessageMoves ==
    ASSUME LInv, NEW e \in Exchanges, AddExchangeMessage(e)
    PROVE  SavedStep \/ UnsavedStep
  <1>1. PICK privileged \in BOOLEAN, target \in Opt(Workers), assigned \in Opt(Workers),
             decision \in Decisions :
          LET x == Addressed(exchanges[e], target, assigned)
              y == IF decision = "accepted" THEN Accepted(x) ELSE x
              ensured == /\ Registered(Assignee(x)) /\ Registered(x.target)
                         /\ ReusesTask(x) /\ Reroutes(x) => privileged
          IN /\ ~privileged => target = None /\ assigned = None
             /\ target # None => Registered(target)
             /\ assigned # None => Registered(assigned)
             /\ \/ /\ ensured
                   /\ EnsureExchangeTask(e, y, IF decision = "none" THEN "queued" ELSE "running")
                   /\ UNCHANGED <<tombstones, outbox>>
                \/ /\ ~ensured
                   /\ exchanges' = [exchanges EXCEPT ![e] = y]
                   /\ UNCHANGED <<tasks, workers, proposals, tombstones, outbox, disk>>
                \/ CancelActiveExchangeTask(e, x, "queued")
                \/ CancelActiveExchangeTask(e, x, "failed")
    BY DEF AddExchangeMessage
  <1> DEFINE z == exchanges[e]
             x == Addressed(z, target, assigned)
             y == IF decision = "accepted" THEN Accepted(x) ELSE x
             s == IF decision = "none" THEN "queued" ELSE "running"
             ensured == /\ Registered(Assignee(x)) /\ Registered(x.target)
                        /\ ReusesTask(x) /\ Reroutes(x) => privileged
  <1>2. /\ ~privileged => target = None /\ assigned = None
        /\ target # None => Registered(target)
        /\ assigned # None => Registered(assigned)
    BY <1>1
  <1>3. \/ ensured /\ EnsureExchangeTask(e, y, s) /\ UNCHANGED <<tombstones, outbox>>
        \/ /\ ~ensured /\ exchanges' = [exchanges EXCEPT ![e] = y]
           /\ UNCHANGED <<tasks, workers, proposals, tombstones, outbox, disk>>
        \/ CancelActiveExchangeTask(e, x, "queued")
        \/ CancelActiveExchangeTask(e, x, "failed")
    BY <1>1
  <1>4. z \in Exchange /\ z.target \in Workers /\ z.status # "none"
    BY DEF AddExchangeMessage, LInv, IInv, MapsOK, ExchangeOK
  <1>5. /\ x \in Exchange /\ x.active = z.active /\ x.status = z.status
        /\ x.target = (IF target # None THEN target ELSE z.target)
        /\ x.assigned = (IF assigned # None THEN assigned ELSE z.assigned)
    <2> DEFINE tgt == IF target # None THEN target ELSE z.target
               asg == IF assigned # None THEN assigned ELSE z.assigned
    <2>1. tgt \in Workers /\ asg \in Opt(Workers)
      BY <1>4 DEF Opt, Exchange
    <2>2. x = [z EXCEPT !.target = tgt, !.assigned = asg, !.fresh = TRUE]
      BY <1>4 DEF Addressed, Exchange
    <2>3. /\ x \in Exchange /\ x.active = z.active /\ x.status = z.status
          /\ x.target = tgt /\ x.assigned = asg
      <3> HIDE DEF tgt, asg, x, z
      <3> QED BY <1>4, <2>1, <2>2, OptFacts DEF Exchange
    <2> QED BY <2>3
  <1>6. x.target \in Workers
    BY <1>4, <1>5 DEF Opt
  <1>7. Working(x, e)
    BY <1>5 DEF Working
  <1> HIDE DEF x
  <1> DEFINE c == Accepted(x)
  <1>8. /\ c \in Exchange /\ c.target = x.target /\ c.active = x.active
        /\ c.status = "running" /\ c.assigned = Assignee(x) /\ c.assigned \in Workers
    <2>1. Assignee(x) \in Workers /\ Assignee(x) \in Opt(Workers)
      BY <1>5, <1>6, OptFacts DEF Assignee, Exchange, Opt
    <2> QED BY <1>5, <2>1, StatusFacts DEF Exchange, Accepted
  <1>9. y = x \/ y = c
    OBVIOUS
  <1> HIDE DEF c, y
  <1>10. /\ Working(y, e) /\ y.target = x.target /\ Assignee(y) = Assignee(x)
         /\ y.active = z.active /\ y.status \in {z.status, "running"}
    BY <1>5, <1>7, <1>8, <1>9, NoneAssumption DEF Working, Assignee
  <1>11. CASE ensured /\ EnsureExchangeTask(e, y, s) /\ UNCHANGED <<tombstones, outbox>>
    <2>1. s \in {"queued", "running"} /\ Registered(y.target) /\ Registered(Assignee(y))
      BY <1>10, <1>11
    <2> HIDE DEF s
    <2> QED BY <1>4, <1>6, <1>10, <1>11, <2>1, EnsureMoves
  <1>12. CASE /\ ~ensured /\ exchanges' = [exchanges EXCEPT ![e] = y]
              /\ UNCHANGED <<tasks, workers, proposals, tombstones, outbox, disk>>
    <2>1. ASSUME ReusesTask(z) PROVE Astray(z)
      <3>1. ~Registered(Assignee(x)) => Astray(z)
        BY <1>2, <1>5 DEF Assignee, Astray
      <3>2. ~Registered(x.target) => Astray(z)
        BY <1>2, <1>5 DEF Astray
      <3>3. Reroutes(x) /\ ~privileged => Astray(z)
        BY <1>2, <1>5 DEF Assignee, Astray, Reroutes, SameRoute
      <3> QED BY <1>12, <3>1, <3>2, <3>3
    <2> QED BY <1>4, <1>10, <1>12, <2>1, RefusedMoves
  <1>13. CASE \/ CancelActiveExchangeTask(e, x, "queued")
              \/ CancelActiveExchangeTask(e, x, "failed")
    BY <1>7, <1>13, CancelActiveMoves
  <1> QED BY <1>3, <1>11, <1>12, <1>13

LEMMA ProposalMoves ==
    ASSUME LInv, NEW p \in Proposals,
           \/ CreateProposal(p) \/ AttachArtifact(p) \/ SubmitValidationResult(p)
           \/ ApproveProposal(p) \/ RejectProposal(p) \/ ApplyProposalLocally(p)
    PROVE  SavedStep
  <1>1. UNCHANGED <<tombstones, outbox>>
    BY DEF CreateProposal, AttachArtifact, SubmitValidationResult, ApproveProposal,
           RejectProposal, ApplyProposalLocally, SetProposal
  <1>2. proposals \in [Proposals -> Proposal]
    BY DEF LInv, IInv, MapsOK
  <1>3. CASE CreateProposal(p)
    <2>1. PICK source \in Workers, target \in Workers :
            Persist(tasks, exchanges,
                    [proposals EXCEPT ![p] = [NoProposal EXCEPT !.status = "submitted",
                        !.source = source, !.target = target]], workers, tombstones)
      BY <1>3 DEF CreateProposal
    <2> DEFINE n == [NoProposal EXCEPT !.status = "submitted", !.source = source, !.target = target]
    <2>2. n.status = "submitted"
      BY DEF NoProposal
    <2> HIDE DEF n
    <2>3. GrowsP([proposals EXCEPT ![p] = n])
      BY <1>2, <2>2 DEF GrowsP
    <2> QED BY <1>1, <2>1, <2>3, PlainStep, SameRest DEF n
  <1>4. ASSUME NEW status, status # "none", SetProposal(p, status) PROVE SavedStep
    <2> DEFINE P == [proposals EXCEPT ![p].status = status, ![p].fresh = TRUE]
               n == [proposals[p] EXCEPT !.status = status, !.fresh = TRUE]
    <2>1. n.status = status
      BY <1>2 DEF Proposal
    <2>2. P[p] = n /\ \A o \in Proposals \ {p} : P[o] = proposals[o]
      BY <1>2
    <2>3. Persist(tasks, exchanges, P, workers, tombstones)
      BY <1>4 DEF SetProposal
    <2> HIDE DEF P, n
    <2>4. GrowsP(P)
      BY <1>4, <2>1, <2>2 DEF GrowsP
    <2> QED BY <1>1, <2>3, <2>4, PlainStep, SameRest
  <1> QED BY <1>3, <1>4 DEF AttachArtifact, SubmitValidationResult, ApproveProposal,
             RejectProposal, ApplyProposalLocally

LEMMA ClockMoves ==
    ASSUME LInv, ClockNext
    PROVE  UnsavedStep
  <1>1. tasks \in [Tasks -> Task] /\ workers \in [Workers -> WorkerStatus]
        /\ exchanges \in [Exchanges -> Exchange] /\ proposals \in [Proposals -> Proposal]
        /\ disk \in [exchanges: [Exchanges -> Exchange], tombstones: [Tasks -> Tombstone]]
    BY DEF LInv, IInv, MapsOK
  <1>2. ASSUME NEW w \in Workers, WorkerAges(w) PROVE UnsavedStep
    <2>1. GrowsW(workers')
      BY <1>1, <1>2 DEF WorkerAges, GrowsW
    <2>2. UNCHANGED <<tasks, exchanges, proposals, tombstones, outbox, disk>>
      BY <1>2 DEF WorkerAges
    <2> QED BY <2>1, <2>2, AgedStep, SameIsKept, SameRest
  <1>3. ASSUME NEW t \in Tasks, TaskAges(t) PROVE UnsavedStep
    <2> DEFINE q == [tasks[t] EXCEPT !.fresh = FALSE]
    <2>1. tasks'[t] = q /\ \A u \in Tasks \ {t} : tasks'[u] = tasks[u]
      BY <1>1, <1>3 DEF TaskAges
    <2>2. Kept(q, tasks[t])
      BY <1>1 DEF Task, Kept, SameLinks, SameRoute
    <2> HIDE DEF q
    <2>3. UNCHANGED <<workers, exchanges, proposals, tombstones, outbox, disk>>
      BY <1>3 DEF TaskAges
    <2> QED BY <2>1, <2>2, <2>3, AgedStep, SameIsKept, SameRest
  <1>4. ASSUME NEW e \in Exchanges, ExchangeAges(e) PROVE UnsavedStep
    <2>1. ASSUME NEW E \in [Exchanges -> Exchange]
          PROVE  \A f \in Exchanges : SameExchange([E EXCEPT ![e].fresh = FALSE][f], E[f])
      <3> DEFINE y == [E[e] EXCEPT !.fresh = FALSE]
      <3>1. SameExchange(y, E[e])
        BY DEF Exchange, SameExchange, SameRoute
      <3>2. [E EXCEPT ![e].fresh = FALSE] = [E EXCEPT ![e] = y]
        OBVIOUS
      <3> HIDE DEF y
      <3> QED BY <3>1, <3>2, SameIsKept
    <2>2. exchanges' = [exchanges EXCEPT ![e].fresh = FALSE]
      BY <1>4 DEF ExchangeAges
    <2>3. disk' = [disk EXCEPT !.exchanges = [disk.exchanges EXCEPT ![e].fresh = FALSE]]
      BY <1>1, <1>4 DEF ExchangeAges
    <2>4. /\ disk'.exchanges = [disk.exchanges EXCEPT ![e].fresh = FALSE]
          /\ disk'.tombstones = disk.tombstones
      BY <1>1, <2>3
    <2>5. disk.exchanges \in [Exchanges -> Exchange]
      BY <1>1
    <2>6. \A f \in Exchanges : /\ SameExchange(exchanges'[f], exchanges[f])
                               /\ SameExchange(disk'.exchanges[f], disk.exchanges[f])
      BY <1>1, <2>1, <2>2, <2>4, <2>5
    <2>7. UNCHANGED <<tasks, workers, proposals, tombstones, outbox>>
      BY <1>4 DEF ExchangeAges
    <2> QED BY <2>4, <2>6, <2>7, AgedStep, SameIsKept, SameRest
  <1>5. ASSUME NEW p \in Proposals, ProposalAges(p) PROVE UnsavedStep
    <2>1. GrowsP(proposals')
      BY <1>1, <1>5 DEF ProposalAges, GrowsP, Proposal
    <2>2. UNCHANGED <<tasks, workers, exchanges, tombstones, outbox, disk>>
      BY <1>5 DEF ProposalAges
    <2> QED BY <2>1, <2>2, AgedStep, SameIsKept, SameRest
  <1> QED BY <1>2, <1>3, <1>4, <1>5 DEF ClockNext

LEMMA RestartMoves ==
    ASSUME LInv, Restart
    PROVE  SavedStep
  <1>1. /\ Persist(tasks, disk.exchanges, proposals, workers, disk.tombstones)
        /\ tombstones' = disk.tombstones /\ outbox' = outbox
    BY DEF Restart
  <1>2. \A t \in Tasks : Kept(tasks[t], tasks[t]) /\ Undisturbed(tasks[t], tasks[t])
    BY SameIsKept
  <1>3. ASSUME NEW t \in Tasks
        PROVE  /\ TaskMove(t, tasks[t], proposals)
               /\ TombMove(t, tasks[t], disk.tombstones[t])
               /\ TombMove(t, tasks[t], tombstones'[t])
    <2>1. Quiet(t, tasks[t]) /\ ~Ended(tasks[t], tasks[t])
      BY <1>2, QuietNotEnded DEF Quiet
    <2> QED BY <1>1, <1>2, <2>1 DEF TaskMove, TombMove
  <1>4. Written(tasks, disk.exchanges, proposals, workers, disk.tombstones)
    BY <1>2, <1>3, SameExchanges, SameRest DEF Written
  <1> QED BY <1>1, <1>4 DEF SavedStep

LEMMA NextMoves ==
    ASSUME LInv, Next
    PROVE  SavedStep \/ UnsavedStep
  <1>1. CASE WorkerNext
    BY <1>1, WorkerMoves, HolderMoves, CompleteMoves, FailMoves DEF WorkerNext
  <1>2. CASE RequestNext
    BY <1>2, CreateTaskMoves, TouchMoves, CancelMoves DEF RequestNext
  <1>3. CASE OperatorNext
    BY <1>3, OperatorMoves, RejectMoves, RequeueMoves DEF OperatorNext
  <1>4. CASE ExchangeNext
    BY <1>4, StartExchangeMoves, MessageMoves DEF ExchangeNext
  <1>5. CASE ProposalNext
    BY <1>5, ProposalMoves DEF ProposalNext
  <1>6. CASE StaleReaperSweep
    BY <1>6, RequeueMoves DEF StaleReaperSweep
  <1>7. CASE ClockNext
    BY <1>7, ClockMoves
  <1>8. CASE CrashNext
    BY <1>8, RestartMoves, CancelMoves DEF CrashNext
  <1> QED BY <1>1, <1>2, <1>3, <1>4, <1>5, <1>6, <1>7, <1>8 DEF Next

-----------------------------------------------------------------------------
LEMMA InitLInv == Init => LInv
  <1> SUFFICES ASSUME Init PROVE LInv
    OBVIOUS
  <1>1. \A t \in Tasks : /\ tasks[t] = NoTask /\ outbox[t] = <<>> /\ tombstones[t] = "none"
                         /\ disk.tombstones[t] = "none"
    BY DEF Init
  <1>2. \A e \in Exchanges : exchanges[e] = NoExchange /\ disk.exchanges[e] = NoExchange
    BY DEF Init
  <1>3. RefsInv
    BY <1>1, NoTaskRefs DEF RefsInv
  <1>4. LifeInv
    <2>1. Len(<<>>) <= MaxLives
      BY InputAssumption
    <2>2. LifeOK(NoTask, <<>>) /\ TombOK("none", NoTask, <<>>)
      BY <2>1 DEF LifeOK, TombOK, NoTask, IsLive, IsTerminal, LiveStatus, HeldStatus, TerminalStatus
    <2>3. LineageOK(NoTask, outbox)
      BY NoneAssumption DEF LineageOK, NoTask
    <2> QED BY <1>1, <2>2, <2>3 DEF LifeInv
  <1>5. FollowInv
    BY <1>2 DEF FollowInv, ActiveOK, NoExchange
  <1> QED BY <1>3, <1>4, <1>5, InitIInv DEF LInv

LEMMA NextLInv == LInv /\ [Next]_vars => LInv'
  <1> SUFFICES ASSUME LInv, [Next]_vars PROVE LInv'
    OBVIOUS
  <1>1. IInv'
    BY NextIInv DEF LInv
  <1>2. CASE UNCHANGED vars
    BY <1>1, <1>2 DEF vars, LInv, RefsInv, LifeInv, FollowInv
  <1>3. CASE SavedStep
    BY <1>1, <1>3, SavedRefs, SavedLife, SavedFollow DEF LInv
  <1>4. CASE UnsavedStep
    BY <1>1, <1>4, UnsavedRefs, UnsavedLife, UnsavedFollow DEF LInv
  <1> QED BY <1>2, <1>3, <1>4, NextMoves

(* What the broker's records say of each other agrees in every run.        *)
THEOREM LInvHolds == Spec => []LInv
  <1>1. Init => LInv
    BY InitLInv
  <1>2. LInv /\ [Next]_vars => LInv'
    BY NextLInv
  <1> QED BY <1>1, <1>2, PTL DEF Spec

LEMMA LInvResolves == LInv => ReferencesResolve
  <1> SUFFICES ASSUME LInv, NEW t \in Tasks
               PROVE  LET r == tasks[t] IN
                      /\ r.exchange # None => exchanges[r.exchange].status # "none"
                      /\ r.proposal # None => proposals[r.proposal].status # "none"
                      /\ IsLive(r) => /\ r.target # None /\ Registered(r.target)
                                      /\ r.assigned # None /\ Registered(r.assigned)
    BY DEF ReferencesResolve
  <1>1. TaskOK(tasks[t]) /\ RefsOK(tasks[t], exchanges, proposals, workers)
    BY DEF LInv, IInv, MapsOK, RefsInv
  <1>2. IsLive(tasks[t]) => tasks[t].target # None /\ tasks[t].assigned # None
    BY <1>1, NoneAssumption DEF TaskOK, Routed, IsLive, LiveStatus, HeldStatus
  <1> QED BY <1>1, <1>2 DEF RefsOK, Registered

LEMMA LInvAnnounced == LInv => AnnouncedOnce
  <1> SUFFICES ASSUME LInv, NEW t \in Tasks
               PROVE  LET r == tasks[t] IN
                      /\ IsTerminal(r) => outbox[t] # <<>> /\ outbox[t][Len(outbox[t])] = r.status
                      /\ MaxLives = 1 =>
                            Len(outbox[t]) = (IF IsLive(r) \/ outbox[t] = <<>> THEN 0 ELSE 1)
    BY DEF AnnouncedOnce
  <1>1. LifeOK(tasks[t], outbox[t]) /\ outbox[t] \in Seq(TerminalStatus)
    BY DEF LInv, LifeInv, IInv, LogsOK
  <1> QED BY <1>1 DEF LifeOK

(* Retention, handlers and crashes in any order never drop the exchange,   *)
(* the proposal or the workers that a retained task needs.                 *)
THEOREM ReferencesResolveHolds == Spec => []ReferencesResolve
  BY LInvHolds, LInvResolves, PTL

(* However a task id is used again, the last end of every finished task    *)
(* was announced, once, and the records it refers to exist.                *)
THEOREM LifeIsConsistentHolds == Spec => []LifeIsConsistent
  <1>1. LInv => LifeIsConsistent
    BY LInvResolves, LInvAnnounced DEF LifeIsConsistent
  <1> QED BY <1>1, LInvHolds, PTL

(* The outbox, the tombstones and the lineage of canceled trees agree in   *)
(* every run, also when a crash cuts a fan-out short.                      *)
THEOREM CanceledTreeAgreesHolds == Spec => []CanceledTreeAgrees
  <1>1. LInv => TombstonesAgree
    BY DEF LInv, LifeInv, TombOK, Tells, TombstonesAgree
  <1>2. ASSUME LInv, NEW t \in Tasks, tasks[t].canceledFrom \in Tasks
        PROVE  /\ tasks[t].parent = tasks[t].canceledFrom
               /\ \E i \in DOMAIN outbox[tasks[t].parent] :
                     outbox[tasks[t].parent][i] = "canceled"
               /\ MaxLives = 1 => tasks[tasks[t].parent].status \in {"canceled", "none"}
    <2> DEFINE u == tasks[t].parent
    <2>1. u = tasks[t].canceledFrom /\ Told(outbox[u], "canceled")
      BY <1>2 DEF LInv, LifeInv, LineageOK
    <2>2. /\ u \in Tasks /\ LifeOK(tasks[u], outbox[u]) /\ tasks[u] \in Task
          /\ outbox[u] \in Seq(TerminalStatus)
      BY <1>2, <2>1 DEF LInv, LifeInv, IInv, LogsOK, MapsOK
    <2> HIDE DEF u
    <2>3. PICK i \in DOMAIN outbox[u] : outbox[u][i] = "canceled"
      BY <2>1 DEF Told
    <2>4. ASSUME MaxLives = 1 PROVE tasks[u].status \in {"canceled", "none"}
      <3>1. i = 1 /\ Len(outbox[u]) = 1
        <4> DEFINE n == Len(outbox[u])
        <4>1. n \in Nat /\ i \in 1 .. n
          BY <2>2, <2>3
        <4>2. n <= 1
          BY <2>2, <2>4 DEF LifeOK
        <4> HIDE DEF n
        <4>3. i = 1 /\ n = 1
          BY <4>1, <4>2
        <4> QED BY <4>3 DEF n
      <3>2. ~IsLive(tasks[u])
        BY <2>2, <2>4, <3>1 DEF LifeOK
      <3>3. IsTerminal(tasks[u]) => tasks[u].status = "canceled"
        BY <2>2, <2>3, <3>1 DEF LifeOK
      <3>4. tasks[u].status = "none" \/ IsLive(tasks[u]) \/ IsTerminal(tasks[u])
        BY <2>2 DEF Task, TaskStatus, IsLive, IsTerminal, LiveStatus
      <3> QED BY <3>2, <3>3, <3>4
    <2> QED BY <2>1, <2>3, <2>4 DEF u
  <1>3. LInv => FanOutLineage
    BY <1>2 DEF FanOutLineage
  <1>4. LInv => CanceledTreeAgrees
    BY <1>1, <1>3, LInvAnnounced DEF CanceledTreeAgrees
  <1> QED BY <1>4, LInvHolds, PTL

(* Where every task id is used once, an exchange follows its active task   *)
(* in route and outcome.                                                   *)
THEOREM ExchangeFollowsTaskHolds ==
    ASSUME MaxLives = 1
    PROVE  Spec => []ExchangeFollowsTask
  <1>1. ASSUME LInv, NEW e \in Exchanges, exchanges[e].active # None
        PROVE  LET x == exchanges[e]
                   a == tasks[x.active]
               IN /\ a.exchange = e /\ IsLive(a) =>
                        x.target = a.target /\ x.assigned = a.assigned
                  /\ x.status = "completed" /\ IsTerminal(a) => a.status = "succeeded"
    <2>1. ActiveOK(exchanges[e], e, tasks, outbox)
      BY <1>1 DEF LInv, FollowInv
    <2> QED BY <1>1, <2>1 DEF ActiveOK, IsLive, IsTerminal, LiveStatus, HeldStatus, TerminalStatus
  <1>2. LInv => ExchangeFollowsTask
    BY <1>1 DEF ExchangeFollowsTask, RoutesToActiveTask, CompletedExchange
  <1> QED BY <1>2, LInvHolds, PTL

(* An apply task succeeds only in the step that moves its proposal from    *)
(* approved to applied, and the retention pass of that step keeps it.      *)
THEOREM ApplyTaskAppliesHolds == Spec => ApplyTaskApplies
  <1>1. ASSUME LInv, Next, NEW t \in Tasks,
               IsHeld(tasks[t]), tasks'[t].status = "succeeded",
               tasks[t].intent = "apply_local_change", tasks[t].proposal # None
        PROVE  /\ proposals[tasks[t].proposal].status = "approved"
               /\ proposals'[tasks[t].proposal].status = "applied"
    <2>1. /\ tasks[t].status # "succeeded" /\ tasks[t].status # "none"
          /\ tasks[t].proposal \in Proposals
      BY <1>1 DEF IsHeld, HeldStatus, LInv, IInv, MapsOK, Task, Opt
    <2>2. CASE UnsavedStep
      BY <1>1, <2>1, <2>2 DEF UnsavedStep, Kept
    <2>3. CASE SavedStep
      <3>1. PICK T, E, P, W, tombs : Persist(T, E, P, W, tombs) /\ Written(T, E, P, W, tombs)
        BY <2>3 DEF SavedStep
      <3>2. T[t].status = "succeeded"
        BY <1>1, <3>1, SaveFacts DEF NoTask
      <3>3. TaskMove(t, T[t], P)
        BY <3>1 DEF Written
      <3>4. AppliedIn(P, tasks[t])
        BY <2>1, <3>2, <3>3 DEF TaskMove, Kept, Worked, Created, IsLive, LiveStatus, HeldStatus
      <3>5. P[tasks[t].proposal].fresh => proposals'[tasks[t].proposal] = P[tasks[t].proposal]
        BY <2>1, <3>1, SaveFacts
      <3> QED BY <1>1, <3>4, <3>5 DEF AppliedIn
    <2> QED BY <1>1, <2>2, <2>3, NextMoves
  <1>2. ASSUME LInv, [Next]_vars
        PROVE  [\A t \in Tasks :
                  /\ IsHeld(tasks[t]) /\ tasks'[t].status = "succeeded"
                  /\ tasks[t].intent = "apply_local_change" /\ tasks[t].proposal # None
                  => /\ proposals[tasks[t].proposal].status = "approved"
                     /\ proposals'[tasks[t].proposal].status = "applied"]_vars
    BY <1>1, <1>2
  <1> QED BY <1>2, LInvHolds, PTL DEF Spec, ApplyTaskApplies
=============================================================================
