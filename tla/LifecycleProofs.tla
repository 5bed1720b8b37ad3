-------------------------- MODULE LifecycleProofs --------------------------
(***************************************************************************)
(* Proofs about the lifecycle managers: no effect without a permission,    *)
(* and what is written down about a record is what became of it.  The      *)
(* inductive invariant has three parts: the buffer of events and its       *)
(* reader (BufferInv), the records (RecordsInv), and the ways that tasks   *)
(* were handed on (ChainInv).                                              *)
(***************************************************************************)
EXTENDS LifecycleManagers, FiniteSetTheorems, SequenceTheorems, TLAPS

-----------------------------------------------------------------------------
(* LifecycleManagers: the buffer of events and its reader *)

Statuses ==
    DOMAIN ExecutionMoves \cup DOMAIN DeliveryMoves \cup DOMAIN ProposalMoves
    \cup DOMAIN WakeMoves \cup DOMAIN ConferenceMoves \cup {"active", "closed"}
ManagerEvents == [id : Nat, of : Ids, kind : Statuses]

(* Of the n events allocated so far, the buffer holds the newest.          *)
EndOfEvents(buf, n) ==
    /\ buf \in Seq(ManagerEvents)
    /\ Len(buf) <= MaxEvents /\ Len(buf) <= n
    /\ \A k \in DOMAIN buf : buf[k].id = (n - Len(buf)) + k

(* The newest event about a record is that of its status.                  *)
Newest(buf, k) == \A j \in DOMAIN buf : j > k => buf[j].of # buf[k].of
TellsStatus(buf, R) == \A k \in DOMAIN buf : Newest(buf, k) => R[buf[k].of].status = buf[k].kind

(* Whatever left the buffer or was passed by the cursor was either read or *)
(* counted as lost.                                                        *)
Accounted(buf, n, read, lost) ==
    read + lost = IF cursor > n - Len(buf) THEN cursor ELSE n - Len(buf)

BufferInv ==
    /\ mgr \in Managers /\ recs = [i \in Ids |-> recs[i]]
    /\ nextId \in 0..MaxEventId[mgr] /\ cursor \in 0..nextId
    /\ readN \in Nat /\ lostN \in Nat
    /\ EndOfEvents(log, nextId) /\ TellsStatus(log, recs)
    /\ Accounted(log, nextId, readN, lostN)

LEMMA PushedEvent ==
    ASSUME NEW n \in Nat, NEW buf, EndOfEvents(buf, n),
           NEW e \in ManagerEvents, e.id = n + 1,
           NEW q, q = Push(buf, e)
    PROVE  /\ EndOfEvents(q, n + 1) /\ Len(buf) \in Nat /\ DOMAIN buf = 1..Len(buf)
           /\ Len(q) = (IF Len(buf) < MaxEvents THEN Len(buf) + 1 ELSE Len(buf))
           /\ Len(q) \in 1..MaxEvents /\ DOMAIN q = 1..Len(q) /\ q[Len(q)] = e
           /\ \A k \in 1..(Len(q) - 1) :
                 /\ k + (Len(buf) + 1 - Len(q)) \in DOMAIN buf
                 /\ q[k] = buf[k + (Len(buf) + 1 - Len(q))]
  <1> DEFINE all == Append(buf, e)
             b == Len(buf)
             m == IF b + 1 > MaxEvents THEN ((b + 1) - MaxEvents) + 1 ELSE 1
  <1>1. b \in Nat /\ b <= MaxEvents /\ b <= n /\ MaxEvents \in Nat /\ MaxEvents > 0
    BY LifecycleAssumption DEF EndOfEvents
  <1>2. buf \in Seq(ManagerEvents) /\ DOMAIN buf = 1..b
    BY DEF EndOfEvents
  <1>3. \A k \in 1..b : buf[k].id = (n - b) + k
    BY <1>2 DEF EndOfEvents
  <1>4. /\ all \in Seq(ManagerEvents) /\ Len(all) = b + 1 /\ DOMAIN all = 1..(b + 1)
        /\ all[b + 1] = e /\ \A k \in 1..b : all[k] = buf[k]
    BY <1>2
  <1>5. q = SubSeq(all, m, b + 1)
    <2>1. q = SubSeq(all, IF Len(all) > MaxEvents THEN Len(all) - MaxEvents + 1 ELSE 1, Len(all))
      BY Zenon DEF Push
    <2> HIDE DEF all, b
    <2> QED BY <1>4, <2>1
  <1> HIDE DEF all, b
  <1>6. m \in {1, 2} /\ m <= b + 1 /\ (m = 2 <=> b = MaxEvents)
    BY <1>1
  <1> HIDE DEF m
  <1>7. \A i \in m..(b + 1) : all[i] \in ManagerEvents
    BY <1>1, <1>4, <1>6
  <1>8. /\ q \in Seq(ManagerEvents) /\ Len(q) = (b + 1 - m) + 1
        /\ \A i \in 1..((b + 1 - m) + 1) : q[i] = all[m + i - 1]
    BY <1>1, <1>4, <1>5, <1>6, <1>7, SubSeqProperties
  <1>9. DOMAIN q = 1..Len(q)
    BY <1>8
  <1>10. Len(q) = (IF b < MaxEvents THEN b + 1 ELSE b) /\ Len(q) = b + 2 - m
    BY <1>1, <1>6, <1>8
  <1> DEFINE l == Len(q)
  <1> HIDE DEF l
  <1>11. l \in 1..MaxEvents /\ l <= n + 1 /\ l = b + 2 - m
    BY <1>1, <1>6, <1>10 DEF l
  <1>12. q[l] = e
    <2>1. l \in 1..((b + 1 - m) + 1) /\ m + l - 1 = b + 1
      BY <1>1, <1>6, <1>11
    <2> QED BY <1>4, <1>8, <2>1
  <1>13. ASSUME NEW k \in 1..(l - 1)
         PROVE  k + (b + 1 - l) \in 1..b /\ q[k] = buf[k + (b + 1 - l)]
    <2>1. k + (b + 1 - l) = m + k - 1 /\ m + k - 1 \in 1..b /\ k \in 1..((b + 1 - m) + 1)
      BY <1>1, <1>6, <1>11
    <2> QED BY <1>4, <1>8, <2>1
  <1>14. ASSUME NEW k \in 1..l PROVE q[k].id = (n + 1 - l) + k
    <2>1. CASE k = l
      BY <1>1, <1>11, <1>12, <2>1
    <2>2. CASE k # l
      <3>1. k \in 1..(l - 1)
        BY <1>11, <2>2
      <3>2. q[k].id = (n - b) + (k + (b + 1 - l))
        BY <1>3, <1>13, <3>1
      <3>3. (n - b) + (k + (b + 1 - l)) = (n + 1 - l) + k
        BY <1>1, <1>11, <3>1
      <3> QED BY <3>2, <3>3
    <2> QED BY <2>1, <2>2
  <1>15. EndOfEvents(q, n + 1)
    BY <1>8, <1>9, <1>11, <1>14 DEF EndOfEvents, l
  <1> QED BY <1>1, <1>2, <1>9, <1>10, <1>11, <1>12, <1>13, <1>15 DEF l, b

(* A push loses the oldest event when the buffer is full, and it is lost   *)
(* unread when the cursor has not reached it.                              *)
LEMMA UnreadCount ==
    ASSUME NEW n \in Nat, NEW buf, EndOfEvents(buf, n), cursor \in Nat,
           NEW e \in ManagerEvents, e.id = n + 1,
           NEW q, q = Push(buf, e)
    PROVE  Cardinality(Unread(buf, q)) =
              IF Len(buf) = MaxEvents /\ n - Len(buf) >= cursor THEN 1 ELSE 0
  <1> DEFINE b == Len(buf)
             l == Len(q)
  <1>1. /\ b \in Nat /\ DOMAIN buf = 1..b /\ DOMAIN q = 1..l
        /\ l = (IF b < MaxEvents THEN b + 1 ELSE b) /\ l \in 1..MaxEvents
        /\ EndOfEvents(q, n + 1)
    BY PushedEvent
  <1>2. \A k \in 1..(l - 1) : q[k] = buf[k + (b + 1 - l)]
    BY PushedEvent
  <1>3. /\ \A k \in 1..b : buf[k].id = (n - b) + k
        /\ \A k \in 1..l : q[k].id = ((n + 1) - l) + k
    BY <1>1 DEF EndOfEvents
  <1>4. b <= MaxEvents /\ MaxEvents \in Nat /\ b <= n
    BY LifecycleAssumption DEF EndOfEvents
  <1> HIDE DEF b, l
  <1>5. ASSUME NEW k \in 1..b, k > 1 \/ b < MaxEvents
        PROVE  \E j \in DOMAIN q : q[j] = buf[k]
    <2>1. PICK j : j = k - (b + 1 - l)
      OBVIOUS
    <2>2. j \in 1..(l - 1) /\ j + (b + 1 - l) = k /\ j \in 1..l
      BY <1>1, <1>4, <1>5, <2>1
    <2> QED BY <1>1, <1>2, <2>2
  <1>6. CASE b = MaxEvents /\ n - b >= cursor
    <2>1. 1 \in 1..b /\ l = b
      BY <1>1, <1>4, <1>6
    <2>2. buf[1].id = (n - b) + 1
      BY <1>3, <2>1
    <2>3. buf[1].id > cursor
      BY <1>1, <1>4, <1>6, <2>2
    <2>4. ASSUME NEW j \in 1..l PROVE q[j] # buf[1]
      <3>1. q[j].id = ((n + 1) - l) + j
        BY <1>3
      <3>2. q[j].id # buf[1].id
        BY <1>1, <1>4, <2>1, <2>2, <3>1
      <3> QED BY <3>2
    <2>5. 1 \in Unread(buf, q)
      BY <1>1, <2>1, <2>3, <2>4 DEF Unread
    <2>6. ASSUME NEW k \in Unread(buf, q) PROVE k = 1
      <3>1. k \in 1..b /\ ~ \E j \in DOMAIN q : q[j] = buf[k]
        BY <1>1 DEF Unread
      <3> QED BY <1>1, <1>5, <3>1
    <2>7. Unread(buf, q) = {1}
      BY <2>5, <2>6
    <2> QED BY <1>6, <2>7, FS_Singleton DEF b
  <1>7. CASE ~(b = MaxEvents /\ n - b >= cursor)
    <2>1. ASSUME NEW k \in Unread(buf, q) PROVE FALSE
      <3>1. k \in 1..b /\ buf[k].id > cursor /\ ~ \E j \in DOMAIN q : q[j] = buf[k]
        BY <1>1, <2>1 DEF Unread
      <3>2. k = 1 /\ b = MaxEvents
        BY <1>1, <1>4, <1>5, <3>1
      <3>3. buf[k].id = (n - b) + k
        BY <1>3, <3>1
      <3> QED BY <1>1, <1>4, <1>7, <3>1, <3>2, <3>3
    <2>2. Unread(buf, q) = {}
      BY <2>1
    <2> QED BY <1>7, <2>2, FS_EmptySet DEF b
  <1> QED BY <1>6, <1>7

LEMMA PushAccounted ==
    ASSUME NEW n \in Nat, NEW buf, EndOfEvents(buf, n), cursor \in 0..n,
           NEW e \in ManagerEvents, e.id = n + 1,
           NEW q, q = Push(buf, e), NEW read \in Nat, NEW lost \in Nat,
           Accounted(buf, n, read, lost)
    PROVE  /\ lost + Cardinality(Unread(buf, q)) \in Nat
           /\ Accounted(q, n + 1, read, lost + Cardinality(Unread(buf, q)))
  <1> DEFINE b == Len(buf)
             l == Len(q)
             c == Cardinality(Unread(buf, q))
  <1>1. c = IF b = MaxEvents /\ n - b >= cursor THEN 1 ELSE 0
    BY UnreadCount
  <1>2. b \in Nat /\ l = (IF b < MaxEvents THEN b + 1 ELSE b)
    BY PushedEvent
  <1>3. b <= MaxEvents /\ MaxEvents \in Nat /\ b <= n
    BY LifecycleAssumption DEF EndOfEvents
  <1>4. read + lost = IF cursor > n - b THEN cursor ELSE n - b
    BY DEF Accounted
  <1> HIDE DEF b, l, c
  <1>5. /\ lost + c \in Nat
        /\ read + (lost + c) = IF cursor > (n + 1) - l THEN cursor ELSE (n + 1) - l
    BY <1>1, <1>2, <1>3, <1>4
  <1> QED BY <1>5 DEF Accounted, c, l

LEMMA PushTells ==
    ASSUME NEW n \in Nat, NEW buf, EndOfEvents(buf, n),
           NEW e \in ManagerEvents, e.id = n + 1,
           NEW q, q = Push(buf, e), NEW R, NEW r, TellsStatus(buf, R),
           R = [i \in Ids |-> R[i]], r.status = e.kind
    PROVE  TellsStatus(q, [R EXCEPT ![e.of] = r])
  <1> DEFINE b == Len(buf)
             l == Len(q)
  <1>1. /\ b \in Nat /\ DOMAIN buf = 1..b /\ DOMAIN q = 1..l
        /\ l = (IF b < MaxEvents THEN b + 1 ELSE b) /\ l \in 1..MaxEvents
        /\ q[l] = e /\ EndOfEvents(q, n + 1)
    BY PushedEvent
  <1>2. \A k \in 1..(l - 1) : k + (b + 1 - l) \in 1..b /\ q[k] = buf[k + (b + 1 - l)]
    <2>1. \A k \in 1..(l - 1) : k + (b + 1 - l) \in DOMAIN buf /\ q[k] = buf[k + (b + 1 - l)]
      BY PushedEvent
    <2> HIDE DEF b, l
    <2> QED BY <1>1, <2>1
  <1>3. MaxEvents \in Nat /\ b <= MaxEvents /\ e.of \in Ids
    BY LifecycleAssumption DEF ManagerEvents, EndOfEvents
  <1>4. q \in Seq(ManagerEvents)
    BY <1>1 DEF EndOfEvents
  <1> SUFFICES ASSUME NEW k \in 1..l, Newest(q, k)
               PROVE  [R EXCEPT ![e.of] = r][q[k].of].status = q[k].kind
    BY <1>1 DEF TellsStatus
  <1> HIDE DEF b, l
  <1>5. q[k].of \in Ids
    <2>1. q[k] \in ManagerEvents
      BY <1>1, <1>4
    <2> QED BY <2>1 DEF ManagerEvents
  <1>6. CASE k = l
    BY <1>1, <1>3, <1>6
  <1>7. CASE k # l
    <2>1. k \in 1..(l - 1) /\ l \in 1..l /\ l > k
      BY <1>1, <1>3, <1>7
    <2>2. q[k].of # e.of
      BY <1>1, <2>1 DEF Newest
    <2>3. PICK p \in 1..b : p = k + (b + 1 - l) /\ q[k] = buf[p]
      BY <1>2, <2>1
    <2>4. ASSUME NEW j \in 1..b, j > p PROVE buf[j].of # buf[p].of
      <3>1. PICK i : i = j - (b + 1 - l)
        OBVIOUS
      <3>2. i \in 1..(l - 1) /\ i \in 1..l /\ i > k /\ i + (b + 1 - l) = j
        BY <1>1, <1>3, <2>1, <2>3, <2>4, <3>1
      <3>3. q[i] = buf[j]
        BY <1>2, <3>2
      <3> QED BY <1>1, <2>3, <3>2, <3>3 DEF Newest
    <2>5. R[buf[p].of].status = buf[p].kind
      BY <1>1, <2>4 DEF TellsStatus, Newest
    <2> QED BY <1>3, <1>5, <2>2, <2>3, <2>5
  <1> QED BY <1>6, <1>7

LEMMA BufferPrimed ==
    ASSUME BufferInv, UNCHANGED <<mgr, cursor, readN>>, recs' = [i \in Ids |-> recs'[i]],
           nextId' \in 0..MaxEventId[mgr], nextId' >= nextId, lostN' \in Nat,
           EndOfEvents(log', nextId'), TellsStatus(log', recs'),
           Accounted(log', nextId', readN, lostN')
    PROVE  BufferInv'
  <1>1. Ids' = Ids
    BY DEF Ids
  <1>2. EndOfEvents(log, nextId)' /\ TellsStatus(log, recs)'
    BY <1>1 DEF EndOfEvents, ManagerEvents, TellsStatus, Newest
  <1>3. Accounted(log, nextId, readN, lostN)'
    BY DEF Accounted
  <1>4. mgr' \in Managers /\ readN' \in Nat /\ recs' = [i \in Ids' |-> recs'[i]]
    BY <1>1 DEF BufferInv
  <1>5. nextId' \in 0..MaxEventId[mgr]' /\ cursor' \in 0..nextId'
    <2>1. MaxEventId[mgr] \in Nat /\ nextId \in 0..MaxEventId[mgr] /\ cursor \in 0..nextId
      BY LifecycleAssumption DEF BufferInv
    <2> QED BY <2>1
  <1> QED BY <1>2, <1>3, <1>4, <1>5 DEF BufferInv

(* transition and the creations: a record gets a status, and the event of  *)
(* that status is written.                                                 *)
LEMMA EmitKeepsBuffer ==
    ASSUME BufferInv, NEW i \in Ids, NEW r, r.status \in Statuses,
           recs' = [recs EXCEPT ![i] = r], Emit(i, r.status), UNCHANGED mgr
    PROVE  BufferInv'
  <1> DEFINE e == [id |-> nextId + 1, of |-> i, kind |-> r.status]
  <1>1. /\ nextId < MaxEventId[mgr] /\ nextId' = nextId + 1 /\ log' = Push(log, e)
        /\ lostN' = lostN + Cardinality(Unread(log, log')) /\ UNCHANGED <<cursor, readN>>
    BY DEF Emit
  <1>2. nextId \in Nat /\ MaxEventId[mgr] \in Nat /\ cursor \in 0..nextId
        /\ readN \in Nat /\ lostN \in Nat
    BY LifecycleAssumption DEF BufferInv
  <1>3. EndOfEvents(log, nextId) /\ TellsStatus(log, recs) /\ Accounted(log, nextId, readN, lostN)
        /\ recs = [j \in Ids |-> recs[j]]
    BY DEF BufferInv
  <1>4. e \in ManagerEvents /\ e.id = nextId + 1 /\ e.of = i /\ r.status = e.kind
    BY <1>2 DEF ManagerEvents
  <1> HIDE DEF e
  <1>5. EndOfEvents(log', nextId')
    BY <1>1, <1>2, <1>3, <1>4, PushedEvent
  <1>6. lostN' \in Nat /\ Accounted(log', nextId', readN, lostN')
    BY <1>1, <1>2, <1>3, <1>4, PushAccounted
  <1>7. TellsStatus(log', recs')
    BY <1>1, <1>2, <1>3, <1>4, PushTells
  <1>8. recs' = [j \in Ids |-> recs'[j]]
    BY <1>3
  <1>9. nextId' \in 0..MaxEventId[mgr] /\ nextId' >= nextId
    BY <1>1, <1>2
  <1> QED BY <1>1, <1>5, <1>6, <1>7, <1>8, <1>9, BufferPrimed

(* launchWake emits its event twice.                                       *)
LEMMA LaunchKeepsBuffer ==
    ASSUME BufferInv, NEW i \in Ids, LaunchWake(i), NEW r,
           recs' = [recs EXCEPT ![i] = r], r.status = "launched"
    PROVE  BufferInv'
  <1> DEFINE e == [id |-> nextId + 1, of |-> i, kind |-> "launched"]
             f == [id |-> nextId + 2, of |-> i, kind |-> "launched"]
             once == Push(log, e)
             twice == Push(once, f)
  <1>1. /\ nextId + 1 < MaxEventId[mgr] /\ nextId' = nextId + 2 /\ log' = twice
        /\ lostN' = lostN + Cardinality(Unread(log, once)) + Cardinality(Unread(once, twice))
        /\ UNCHANGED <<mgr, cursor, readN>>
    BY DEF LaunchWake
  <1>2. nextId \in Nat /\ MaxEventId[mgr] \in Nat /\ cursor \in 0..nextId
        /\ readN \in Nat /\ lostN \in Nat
    BY LifecycleAssumption DEF BufferInv
  <1>3. EndOfEvents(log, nextId) /\ TellsStatus(log, recs) /\ Accounted(log, nextId, readN, lostN)
        /\ recs = [j \in Ids |-> recs[j]]
    BY DEF BufferInv
  <1>4. /\ e \in ManagerEvents /\ e.id = nextId + 1 /\ e.of = i /\ e.kind = "launched"
        /\ f \in ManagerEvents /\ f.id = (nextId + 1) + 1 /\ f.of = i /\ f.kind = "launched"
    <2>1. nextId + 1 \in Nat /\ nextId + 2 \in Nat /\ (nextId + 1) + 1 = nextId + 2
      BY <1>2
    <2>2. "launched" \in Statuses
      BY DEF Statuses, WakeMoves
    <2> QED BY <2>1, <2>2 DEF ManagerEvents
  <1>5. recs' = [recs EXCEPT ![i] = r]
    OBVIOUS
  <1>6. r.status = "launched"
    OBVIOUS
  <1> HIDE DEF e, f, once
  <1>7. /\ EndOfEvents(once, nextId + 1) /\ lostN + Cardinality(Unread(log, once)) \in Nat
        /\ Accounted(once, nextId + 1, readN, lostN + Cardinality(Unread(log, once)))
        /\ TellsStatus(once, recs')
    <2>1. once = Push(log, e)
      BY DEF once
    <2>2. EndOfEvents(once, nextId + 1)
      BY <1>2, <1>3, <1>4, <2>1, PushedEvent
    <2>3. /\ lostN + Cardinality(Unread(log, once)) \in Nat
          /\ Accounted(once, nextId + 1, readN, lostN + Cardinality(Unread(log, once)))
      BY <1>2, <1>3, <1>4, <2>1, PushAccounted
    <2>4. TellsStatus(once, recs')
      BY <1>2, <1>3, <1>4, <1>5, <1>6, <2>1, PushTells
    <2> QED BY <2>2, <2>3, <2>4
  <1> HIDE DEF twice
  <1>8. /\ EndOfEvents(twice, nextId') /\ lostN' \in Nat
        /\ Accounted(twice, nextId', readN, lostN') /\ TellsStatus(twice, recs')
    <2> DEFINE n == nextId + 1
               lost == lostN + Cardinality(Unread(log, once))
    <2>1. twice = Push(once, f) /\ n \in Nat /\ n + 1 = nextId' /\ cursor \in 0..n
          /\ f.id = n + 1 /\ lostN' = lost + Cardinality(Unread(once, twice))
      BY <1>1, <1>2, <1>4, <1>7 DEF twice
    <2>2. lost \in Nat /\ EndOfEvents(once, n) /\ Accounted(once, n, readN, lost)
      BY <1>7
    <2> HIDE DEF n, lost
    <2>3. EndOfEvents(twice, n + 1)
      BY <1>4, <2>1, <2>2, PushedEvent
    <2>4. lostN' \in Nat /\ Accounted(twice, n + 1, readN, lostN')
      BY <1>2, <1>4, <2>1, <2>2, PushAccounted
    <2>5. TellsStatus(twice, [recs' EXCEPT ![i] = r])
      <3>1. PICK R : R = recs'
        OBVIOUS
      <3>2. R = [j \in Ids |-> R[j]] /\ TellsStatus(once, R)
        BY <1>3, <1>5, <1>7, <3>1
      <3>3. TellsStatus(twice, [R EXCEPT ![f.of] = r])
        BY <1>4, <1>6, <2>1, <2>2, <3>2, PushTells
      <3> QED BY <1>4, <3>1, <3>3
    <2>6. [recs' EXCEPT ![i] = r] = recs'
      BY <1>3, <1>5
    <2> QED BY <2>1, <2>3, <2>4, <2>5, <2>6
  <1>9. recs' = [j \in Ids |-> recs'[j]]
    BY <1>3, <1>5
  <1>10. nextId' \in 0..MaxEventId[mgr] /\ nextId' >= nextId
    BY <1>1, <1>2
  <1> QED BY <1>1, <1>8, <1>9, <1>10, BufferPrimed

(* What subscribe returns is the stretch of the buffer after the cursor.   *)
LEMMA ReadKeepsBuffer ==
    ASSUME BufferInv, NEW limit \in Nat, Read(limit)
    PROVE  BufferInv'
  <1> DEFINE b == Len(log)
             base == nextId - b
             first == IF cursor > base THEN (cursor - base) + 1 ELSE 1
             page == Subscribe(cursor, limit)
  <1>1. /\ page # {} /\ cursor' = log[Max(page)].id /\ readN' = readN + Cardinality(page)
        /\ UNCHANGED <<mgr, recs, log, nextId, lostN>>
    BY DEF Read
  <1>2. nextId \in Nat /\ cursor \in 0..nextId /\ readN \in Nat /\ lostN \in Nat
        /\ b \in Nat /\ b <= nextId /\ DOMAIN log = 1..b /\ base \in Nat
    BY LifecycleAssumption DEF BufferInv, EndOfEvents
  <1>3. \A k \in 1..b : log[k].id = base + k
    BY <1>2 DEF BufferInv, EndOfEvents
  <1>4. readN + lostN = IF cursor > base THEN cursor ELSE base
    BY DEF BufferInv, Accounted
  <1> HIDE DEF b
  <1>5. base = nextId - b
    OBVIOUS
  <1> HIDE DEF base
  <1>6. first \in Nat /\ first >= 1 /\ first <= b + 1
    BY <1>2, <1>5
  <1>7. \A k \in 1..b : log[k].id > cursor <=> k >= first
    BY <1>2, <1>3
  <1>8. readN + lostN = (base + first) - 1
    BY <1>2, <1>4
  <1> HIDE DEF first
  <1>9. ASSUME NEW k \in 1..b
        PROVE  k \in page <=> k >= first /\ (k = first \/ k - first < limit)
    <2> DEFINE before == {j \in 1..(k - 1) : log[j].id > cursor}
    <2>1. before = first..(k - 1)
      <3>1. \A j \in 1..(k - 1) : j \in 1..b /\ (log[j].id > cursor <=> j >= first)
        BY <1>2, <1>7
      <3>2. \A j \in first..(k - 1) : j \in 1..(k - 1) /\ j >= first
        BY <1>6
      <3>3. \A j \in 1..(k - 1) : j >= first => j \in first..(k - 1)
        BY <1>6
      <3> QED BY <3>1, <3>2, <3>3
    <2>2. k >= first => Cardinality(before) = k - first
      <3>1. Cardinality(first..(k - 1)) = IF first > k - 1 THEN 0 ELSE (k - 1) - first + 1
        BY <1>2, <1>6, FS_Interval
      <3> HIDE DEF before
      <3> QED BY <1>2, <1>6, <2>1, <3>1
    <2>3. k \in page <=> log[k].id > cursor /\ (before = {} \/ Cardinality(before) < limit)
      BY <1>2 DEF Subscribe
    <2> HIDE DEF before
    <2>4. k >= first => (before = {} <=> k = first)
      BY <1>2, <1>6, <2>1
    <2> QED BY <1>2, <1>6, <1>7, <2>2, <2>3, <2>4
  <1>10. page \subseteq 1..b
    BY <1>2 DEF Subscribe
  <1> HIDE DEF page
  <1> DEFINE size == IF limit = 0 THEN 1 ELSE limit
             last == IF first + size > b + 1 THEN b ELSE (first + size) - 1
  <1>11. page = first..last /\ last \in 1..b /\ first <= last
    <2>1. first \in 1..b
      <3>1. PICK k \in page : TRUE
        BY <1>1
      <3> QED BY <1>2, <1>6, <1>9, <1>10, <3>1
    <2>2. last \in 1..b /\ first <= last
      BY <1>2, <1>6, <2>1
    <2>3. \A k \in 1..b : (k >= first /\ (k = first \/ k - first < limit)) <=> k \in first..last
      BY <1>2, <1>6, <2>1
    <2>4. \A k \in first..last : k \in 1..b
      BY <1>2, <2>1, <2>2
    <2> HIDE DEF last
    <2>5. page = first..last
      BY <1>9, <1>10, <2>3, <2>4
    <2> QED BY <2>2, <2>5
  <1> HIDE DEF last
  <1>12. Max(page) = last
    <2>1. last \in page /\ \A y \in page : last >= y
      BY <1>2, <1>6, <1>11
    <2>2. \A x \in page : (\A y \in page : x >= y) => x = last
      BY <1>2, <1>6, <1>11, <2>1
    <2> QED BY <2>1, <2>2 DEF Max
  <1>13. Cardinality(page) = (last - first) + 1
    BY <1>2, <1>6, <1>11, FS_Interval
  <1>14. cursor' = base + last /\ cursor' \in 0..nextId /\ cursor' > base
    BY <1>1, <1>2, <1>3, <1>5, <1>11, <1>12
  <1>15. readN' \in Nat /\ readN' + lostN = cursor'
    <2>1. readN' = readN + ((last - first) + 1) /\ last \in Nat /\ first <= last
      BY <1>1, <1>2, <1>11, <1>13
    <2>2. cursor' = base + last
      BY <1>14
    <2> QED BY <1>2, <1>6, <1>8, <2>1, <2>2
  <1>16. Accounted(log, nextId, readN, lostN)'
    BY <1>1, <1>5, <1>14, <1>15 DEF Accounted, b
  <1>17. EndOfEvents(log, nextId)' /\ TellsStatus(log, recs)'
    BY <1>1 DEF BufferInv, EndOfEvents, ManagerEvents, Ids, TellsStatus, Newest
  <1> QED BY <1>1, <1>14, <1>15, <1>16, <1>17 DEF BufferInv, Ids
-----------------------------------------------------------------------------
(* LifecycleManagers: the records *)

RunRecords ==
    [status : DOMAIN ExecutionMoves, delivered : BOOLEAN, attempts : Nat,
     failure : {"none", "other", "execution_timeout", "cancelled_by_operator"}]
DeliveryRecords ==
    [status : DOMAIN DeliveryMoves, attempt : Nat, maxRetries : Nat,
     failure : {"none", "other", "max_retries_exceeded"}, duplicate : BOOLEAN]
ProposalRecords ==
    [status : DOMAIN ProposalMoves, reason : {"none", "other"}, attempts : Nat]
WakeRecords ==
    [status : DOMAIN WakeMoves, failure : {"none", "other", "peer_unreachable"},
     attempts : Nat]
RoomKinds == DOMAIN ConferenceMoves \cup {"active", "closed"}
RoomRecords == [status : RoomKinds, index : SUBSET RoomKinds]
HandoffNodes == Nodes \cup {Origin}
HandoffRecords ==
    [status : DOMAIN HandoffMoves,
     scenario : {"S1_normal", "S2_receiver_unavailable", "S3_sender_crash",
                 "S4_duplicate", "S5_recovery"},
     sender : HandoffNodes, receiver : HandoffNodes, path : Seq(HandoffNodes),
     prev : Nat, maxHops : Nat,
     entry : {"none", "deduplicated", "retried", "delivered", "timed_out", "partial",
              "rejected", "failed"},
     failure : {"none", "handoff_loop_guard", "receiver_rejected", "transport_error",
                "timeout", "policy_violation"}]

(* A record that may still set off work has a permission it did not use.   *)
RunOK(r, e, g) == r \in RunRecords /\ e <= g /\ (~r.delivered => e < g)

DeliveryOK(r, e, g) ==
    /\ r \in DeliveryRecords /\ e <= g
    /\ r.status \in {"result_ready", "delivery_pending", "retrying"} => e < g
    /\ g <= (IF r.maxRetries > 0 THEN r.maxRetries ELSE 1)
    /\ IF r.failure = "max_retries_exceeded"
       THEN r.status = "timed_out" /\ r.attempt > r.maxRetries
       ELSE g = r.attempt

ManagedOK(r, e, g) == r \in ProposalRecords /\ e <= g /\ (r.status = "approved" => e < g)
WakeOK(r, e, g) == r \in WakeRecords /\ e <= g /\ (r.status = "accepted" => e < g)

(* The statuses a participant may have announced on its way to one that it *)
(* can still leave.                                                        *)
Announced ==
    [active |-> {"active"}, invited |-> {"invited"}, joined |-> {"invited", "joined"},
     speaking |-> {"invited", "joined", "speaking"}]
RoomOK(i, r, e) ==
    /\ r \in RoomRecords /\ IsFiniteSet(r.index) /\ e = Cardinality(r.index)
    /\ IF i = 1 THEN r.status \in {"active", "closed"} ELSE r.status \in DOMAIN ConferenceMoves
    /\ r.status \in DOMAIN Announced => r.index \subseteq Announced[r.status]

HandoffOK(r, e, g) ==
    /\ r \in HandoffRecords /\ e <= g
    /\ r.status = "initiated" => e < g
    /\ g = 0 => r.status = "failed"
    /\ r.entry \in {"none", "partial", ComputeOutcome(r)}

RecordOK(m, i, r, e, g) ==
    \/ m = "execution" /\ RunOK(r, e, g)
    \/ m = "delivery" /\ DeliveryOK(r, e, g)
    \/ m = "proposal" /\ ManagedOK(r, e, g)
    \/ m = "wake" /\ WakeOK(r, e, g)
    \/ m = "conference" /\ RoomOK(i, r, e)
    \/ m = "handoff" /\ HandoffOK(r, e, g)

RecordsInv ==
    /\ effects \in [Ids -> Nat] /\ grants \in [Ids -> Nat]
    /\ \A i \in Ids : \/ ~Exists(i) /\ effects[i] = 0 /\ grants[i] = 0
                      \/ Exists(i) /\ RecordOK(mgr, i, recs[i], effects[i], grants[i])

(* A handoff's path is the way its lineage took, without its receiver.     *)
Visits(path, n) == \E k \in DOMAIN path : path[k] = n
RouteOK(R, g, path, sender, prev, maxHops) ==
    /\ path # <<>> /\ path[Len(path)] = sender
    /\ \A j, k \in DOMAIN path : path[j] = path[k] => j = k
    /\ \/ prev = 0 /\ Len(path) = 1
       \/ /\ prev \in DOMAIN R /\ R[prev] # NoRec /\ g[prev] > 0
          /\ path = Append(R[prev].path, R[prev].receiver)
          /\ maxHops = R[prev].maxHops
ChainOK(R, g, i) ==
    /\ RouteOK(R, g, R[i].path, R[i].sender, R[i].prev, R[i].maxHops)
    /\ g[i] > 0 => ~Visits(R[i].path, R[i].receiver) /\ Len(R[i].path) <= R[i].maxHops
ChainInv ==
    mgr = "handoff" => log = <<>> /\ \A i \in Ids : Exists(i) => ChainOK(recs, grants, i)

ManagersInv == BufferInv /\ RecordsInv /\ ChainInv

LEMMA MoveTables ==
    /\ DOMAIN ExecutionMoves = {"wake_requested", "session_ready", "payload_delivered", "running",
          "result_reported", "cancelled", "failed", "timeout"}
    /\ DOMAIN DeliveryMoves = {"result_ready", "delivery_pending", "delivering", "delivered",
          "acked", "failed", "retrying", "timed_out"}
    /\ DOMAIN ProposalMoves = {"proposed", "blocked", "approved", "applying", "failed",
          "rejected", "applied"}
    /\ DOMAIN WakeMoves = {"requested", "accepted", "resumed", "launched", "failed",
          "unreachable", "replied", "duplicate_suppressed"}
    /\ DOMAIN ConferenceMoves = {"invited", "joined", "speaking", "blocked", "left", "done"}
    /\ DOMAIN HandoffMoves = {"initiated", "dispatched", "acknowledged", "completed", "failed",
          "timed_out", "canceled"}
  BY DEF ExecutionMoves, DeliveryMoves, ProposalMoves, WakeMoves, ConferenceMoves, HandoffMoves

LEMMA RecordExists ==
    ASSUME NEW m, NEW i, NEW r, NEW e, NEW g, RecordOK(m, i, r, e, g)
    PROVE  r # NoRec /\ (m # "handoff" => r.status \in Statuses)
  <1> DEFINE T == Statuses \cup DOMAIN HandoffMoves
  <1>1. r.status \in T /\ (m # "handoff" => r.status \in Statuses)
    <2>1. CASE m = "execution" /\ RunOK(r, e, g)
      BY <2>1 DEF RunOK, RunRecords, Statuses
    <2>2. CASE m = "delivery" /\ DeliveryOK(r, e, g)
      BY <2>2 DEF DeliveryOK, DeliveryRecords, Statuses
    <2>3. CASE m = "proposal" /\ ManagedOK(r, e, g)
      BY <2>3 DEF ManagedOK, ProposalRecords, Statuses
    <2>4. CASE m = "wake" /\ WakeOK(r, e, g)
      BY <2>4 DEF WakeOK, WakeRecords, Statuses
    <2>5. CASE m = "conference" /\ RoomOK(i, r, e)
      BY <2>5 DEF RoomOK, RoomRecords, RoomKinds, Statuses
    <2>6. CASE m = "handoff" /\ HandoffOK(r, e, g)
      BY <2>6 DEF HandoffOK, HandoffRecords
    <2> QED BY <2>1, <2>2, <2>3, <2>4, <2>5, <2>6 DEF RecordOK
  <1>2. "absent" \notin T
    BY MoveTables DEF Statuses
  <1>3. NoRec.status = "absent"
    BY DEF NoRec
  <1> QED BY <1>1, <1>2, <1>3

LEMMA RecordStep ==
    ASSUME RecordsInv, recs = [j \in Ids |-> recs[j]], NEW i \in Ids, NEW r,
           NEW e \in Nat, NEW g \in Nat, UNCHANGED mgr, recs' = [recs EXCEPT ![i] = r],
           effects' = [effects EXCEPT ![i] = e], grants' = [grants EXCEPT ![i] = g],
           RecordOK(mgr, i, r, e, g)
    PROVE  RecordsInv'
  <1>1. Ids' = Ids
    BY DEF Ids
  <1>2. effects \in [Ids -> Nat] /\ grants \in [Ids -> Nat]
    BY DEF RecordsInv
  <1>3. effects' \in [Ids -> Nat] /\ grants' \in [Ids -> Nat]
    BY <1>2
  <1>4. recs'[i] = r /\ effects'[i] = e /\ grants'[i] = g
    BY <1>2
  <1>5. \A j \in Ids : j # i => recs'[j] = recs[j] /\ effects'[j] = effects[j]
                                /\ grants'[j] = grants[j]
    BY <1>2
  <1>6. r # NoRec
    BY RecordExists
  <1>7. ASSUME NEW j \in Ids
        PROVE  \/ ~Exists(j)' /\ effects'[j] = 0 /\ grants'[j] = 0
               \/ Exists(j)' /\ RecordOK(mgr', j, recs'[j], effects'[j], grants'[j])
    <2>1. CASE j = i
      BY <1>4, <1>6, <2>1 DEF Exists
    <2>2. CASE j # i
      BY <1>5, <2>2 DEF RecordsInv, Exists
    <2> QED BY <2>1, <2>2
  <1> QED BY <1>1, <1>3, <1>7 DEF RecordsInv

LEMMA ManagerStep ==
    ASSUME ManagersInv, mgr # "handoff", NEW i \in Ids, NEW r,
           recs' = [recs EXCEPT ![i] = r], Emit(i, r.status), UNCHANGED mgr,
           \/ Unmoved /\ RecordOK(mgr, i, r, effects[i], grants[i])
           \/ Granted(i) /\ RecordOK(mgr, i, r, effects[i], grants[i] + 1)
           \/ Effected(i) /\ RecordOK(mgr, i, r, effects[i] + 1, grants[i])
    PROVE  ManagersInv'
  <1>1. effects \in [Ids -> Nat] /\ grants \in [Ids -> Nat] /\ recs = [j \in Ids |-> recs[j]]
    BY DEF ManagersInv, RecordsInv, BufferInv
  <1>2. PICK e \in Nat, g \in Nat :
           /\ effects' = [effects EXCEPT ![i] = e] /\ grants' = [grants EXCEPT ![i] = g]
           /\ RecordOK(mgr, i, r, e, g)
    <2>1. CASE Unmoved /\ RecordOK(mgr, i, r, effects[i], grants[i])
      BY <1>1, <2>1 DEF Unmoved
    <2>2. CASE Granted(i) /\ RecordOK(mgr, i, r, effects[i], grants[i] + 1)
      <3>1. effects[i] \in Nat /\ grants[i] + 1 \in Nat
        BY <1>1
      <3>2. effects' = [effects EXCEPT ![i] = effects[i]]
        BY <1>1, <2>2 DEF Granted
      <3>3. grants' = [grants EXCEPT ![i] = grants[i] + 1]
        BY <2>2, Zenon DEF Granted
      <3> QED BY <2>2, <3>1, <3>2, <3>3, Zenon
    <2>3. CASE Effected(i) /\ RecordOK(mgr, i, r, effects[i] + 1, grants[i])
      <3>1. effects[i] + 1 \in Nat /\ grants[i] \in Nat
        BY <1>1
      <3>2. grants' = [grants EXCEPT ![i] = grants[i]]
        BY <1>1, <2>3 DEF Effected
      <3>3. effects' = [effects EXCEPT ![i] = effects[i] + 1]
        BY <2>3, Zenon DEF Effected
      <3> QED BY <2>3, <3>1, <3>2, <3>3, Zenon
    <2> QED BY <2>1, <2>2, <2>3
  <1>3. RecordsInv'
    BY <1>1, <1>2, RecordStep DEF ManagersInv
  <1>4. r.status \in Statuses
    BY <1>2, RecordExists
  <1>5. BufferInv'
    BY <1>4, EmitKeepsBuffer DEF ManagersInv
  <1>6. ChainInv'
    BY DEF ChainInv
  <1> QED BY <1>3, <1>5, <1>6 DEF ManagersInv

LEMMA TransitionStep ==
    ASSUME ManagersInv, mgr # "handoff", NEW i \in Ids, NEW moves, NEW to, NEW new,
           Transition(i, moves, to, new), NEW r, r = [new EXCEPT !.status = to], r.status = to,
           \/ Unmoved /\ RecordOK(mgr, i, r, effects[i], grants[i])
           \/ Granted(i) /\ RecordOK(mgr, i, r, effects[i], grants[i] + 1)
           \/ Effected(i) /\ RecordOK(mgr, i, r, effects[i] + 1, grants[i])
    PROVE  ManagersInv'
  <1>1. recs' = [recs EXCEPT ![i] = r] /\ Emit(i, to) /\ UNCHANGED mgr
    BY Zenon DEF Transition
  <1>2. Emit(i, r.status)
    BY <1>1, Zenon
  <1> QED BY <1>1, <1>2, ManagerStep

LEMMA CreateStep ==
    ASSUME ManagersInv, mgr # "handoff", NEW i \in Ids, NEW r, Create(i, r),
           \/ Unmoved /\ RecordOK(mgr, i, r, effects[i], grants[i])
           \/ Granted(i) /\ RecordOK(mgr, i, r, effects[i], grants[i] + 1)
           \/ Effected(i) /\ RecordOK(mgr, i, r, effects[i] + 1, grants[i])
    PROVE  ManagersInv'
  BY ManagerStep DEF Create

(* What is known of a record, and of one that is not there yet.            *)
LEMMA RecordFacts ==
    ASSUME ManagersInv, NEW i \in Ids
    PROVE  /\ effects[i] \in Nat /\ grants[i] \in Nat
           /\ Exists(i) => RecordOK(mgr, i, recs[i], effects[i], grants[i])
           /\ ~Exists(i) => effects[i] = 0 /\ grants[i] = 0
  BY DEF ManagersInv, RecordsInv

-----------------------------------------------------------------------------
(* ExecutionManager: a run that was not delivered has its one permission.  *)

LEMMA RunMoved ==
    ASSUME NEW q, NEW e, NEW g, RunOK(q, e, g), NEW to \in DOMAIN ExecutionMoves,
           NEW r, r = [q EXCEPT !.status = to], NEW i
    PROVE  r.status = to /\ RecordOK("execution", i, r, e, g)
  <1>1. q \in RunRecords
    BY DEF RunOK
  <1>2. r \in RunRecords /\ r.status = to /\ r.delivered = q.delivered
    BY <1>1 DEF RunRecords
  <1> QED BY <1>2 DEF RunOK, RecordOK

LEMMA RunCreated ==
    ASSUME ManagersInv, mgr = "execution", NEW i \in Ids, ~Exists(i), NEW n \in Nat,
           Create(i, NewRun(n)), Granted(i)
    PROVE  ManagersInv'
  <1>1. effects[i] = 0 /\ grants[i] = 0
    BY RecordFacts
  <1>2. NewRun(n) \in RunRecords
    BY MoveTables DEF NewRun, RunRecords
  <1>3. RunOK(NewRun(n), effects[i], grants[i] + 1)
    BY <1>1, <1>2 DEF RunOK
  <1> QED BY <1>3, CreateStep DEF RecordOK

LEMMA ExecutionSteps ==
    ASSUME ManagersInv, mgr = "execution", NEW i \in Ids
    PROVE  /\ RequestExecution(i) => ManagersInv'
           /\ SessionReady(i) => ManagersInv'
           /\ DeliverPayload(i) => ManagersInv'
           /\ StartRunning(i) => ManagersInv'
           /\ ReportResult(i) => ManagersInv'
           /\ \A to \in {"failed", "timeout", "cancelled"} : EndExecution(i, to) => ManagersInv'
           /\ \A j \in Ids : RetryExecution(i, j) => ManagersInv'
  <1> DEFINE e == effects[i]
             g == grants[i]
  <1>1. e \in Nat /\ g \in Nat
    BY RecordFacts
  <1>2. Exists(i) => RunOK(recs[i], e, g)
    BY RecordFacts DEF RecordOK
  <1>3. ASSUME NEW to \in DOMAIN ExecutionMoves,
               Transition(i, ExecutionMoves, to, recs[i]), Unmoved
        PROVE  ManagersInv'
    <2>1. Exists(i)
      BY <1>3 DEF Transition
    <2>2. PICK r : r = [recs[i] EXCEPT !.status = to]
      OBVIOUS
    <2>3. r.status = to /\ RecordOK("execution", i, r, e, g)
      BY <1>2, <2>1, <2>2, RunMoved
    <2> QED BY <1>3, <2>2, <2>3, TransitionStep
  <1>4. SessionReady(i) => ManagersInv'
    BY <1>3, MoveTables DEF SessionReady
  <1>5. StartRunning(i) => ManagersInv'
    BY <1>3, MoveTables DEF StartRunning
  <1>6. ReportResult(i) => ManagersInv'
    BY <1>3, MoveTables DEF ReportResult
  <1>7. RequestExecution(i) => ManagersInv'
    BY RunCreated DEF RequestExecution, Fresh
  <1>8. ASSUME DeliverPayload(i) PROVE ManagersInv'
    <2>1. /\ Exists(i) /\ ~recs[i].delivered /\ Effected(i)
          /\ Transition(i, ExecutionMoves, "payload_delivered", [recs[i] EXCEPT !.delivered = TRUE])
      BY <1>8 DEF DeliverPayload
    <2>2. PICK q : q = [recs[i] EXCEPT !.delivered = TRUE]
      OBVIOUS
    <2>3. recs[i] \in RunRecords /\ e < g
      BY <1>2, <2>1 DEF RunOK
    <2>4. q \in RunRecords /\ q.delivered = TRUE
      BY <2>2, <2>3 DEF RunRecords
    <2>5. RunOK(q, e + 1, g)
      BY <1>1, <2>3, <2>4 DEF RunOK
    <2>6. PICK r : r = [q EXCEPT !.status = "payload_delivered"]
      OBVIOUS
    <2>7. "payload_delivered" \in DOMAIN ExecutionMoves
      BY MoveTables
    <2>8. r.status = "payload_delivered" /\ RecordOK("execution", i, r, e + 1, g)
      BY <2>5, <2>6, <2>7, RunMoved
    <2> QED BY <2>1, <2>2, <2>6, <2>8, TransitionStep
  <1>9. ASSUME NEW to \in {"failed", "timeout", "cancelled"}, EndExecution(i, to)
        PROVE  ManagersInv'
    <2> DEFINE code == ExecutionFailureCode[to]
    <2>1. /\ Exists(i) /\ Unmoved
          /\ Transition(i, ExecutionMoves, to, [recs[i] EXCEPT !.failure = code])
      BY <1>9 DEF EndExecution
    <2>2. code \in {"none", "other", "execution_timeout", "cancelled_by_operator"}
      BY DEF ExecutionFailureCode
    <2> HIDE DEF code
    <2>3. PICK q : q = [recs[i] EXCEPT !.failure = code]
      OBVIOUS
    <2>4. recs[i] \in RunRecords
      BY <1>2, <2>1 DEF RunOK
    <2>5. q \in RunRecords /\ q.delivered = recs[i].delivered
      BY <2>2, <2>3, <2>4 DEF RunRecords
    <2>6. RunOK(q, e, g)
      BY <1>2, <2>1, <2>5 DEF RunOK
    <2>7. PICK r : r = [q EXCEPT !.status = to]
      OBVIOUS
    <2>8. r.status = to /\ RecordOK("execution", i, r, e, g)
      BY <2>6, <2>7, RunMoved, MoveTables
    <2> QED BY <2>1, <2>3, <2>7, <2>8, TransitionStep
  <1>10. ASSUME NEW j \in Ids, RetryExecution(i, j) PROVE ManagersInv'
    <2>1. /\ Exists(i) /\ ~Exists(j) /\ Create(j, NewRun(recs[i].attempts + 1)) /\ Granted(j)
      BY <1>10 DEF RetryExecution, Fresh
    <2>2. recs[i].attempts + 1 \in Nat
      BY <1>2, <2>1 DEF RunOK, RunRecords
    <2> QED BY <2>1, <2>2, RunCreated
  <1> QED BY <1>4, <1>5, <1>6, <1>7, <1>8, <1>9, <1>10

-----------------------------------------------------------------------------
(* DeliveryManager: the attempt is the number of permissions until they    *)
(* are used up.                                                            *)

LEMMA DeliveryTable ==
    ASSUME NEW s \in DOMAIN DeliveryMoves, NEW to \in DeliveryMoves[s]
    PROVE  /\ to \in DOMAIN DeliveryMoves
           /\ to = "delivery_pending" => s \in {"result_ready", "retrying"}
           /\ to = "delivering" => s = "delivery_pending"
           /\ to # "retrying" => s # "timed_out"
           /\ to # "result_ready"
  BY MoveTables DEF DeliveryMoves

LEMMA DeliveryMoved ==
    ASSUME NEW q, NEW e \in Nat, NEW g \in Nat, DeliveryOK(q, e, g),
           NEW to \in DeliveryMoves[q.status], to # "retrying",
           NEW r, r = [q EXCEPT !.status = to], NEW i
    PROVE  /\ r.status = to
           /\ to = "delivering" => RecordOK("delivery", i, r, e + 1, g)
           /\ to # "delivering" => RecordOK("delivery", i, r, e, g)
  <1>1. q \in DeliveryRecords /\ q.status \in DOMAIN DeliveryMoves
    BY DEF DeliveryOK, DeliveryRecords
  <1>2. /\ to \in DOMAIN DeliveryMoves /\ to # "result_ready" /\ q.status # "timed_out"
        /\ to = "delivery_pending" => q.status \in {"result_ready", "retrying"}
        /\ to = "delivering" => q.status = "delivery_pending"
    BY <1>1, DeliveryTable
  <1>3. /\ r \in DeliveryRecords /\ r.status = to /\ r.attempt = q.attempt
        /\ r.maxRetries = q.maxRetries /\ r.failure = q.failure
    BY <1>1, <1>2 DEF DeliveryRecords
  <1>4. q.failure # "max_retries_exceeded" /\ g = q.attempt
    BY <1>2 DEF DeliveryOK
  <1>5. g <= (IF q.maxRetries > 0 THEN q.maxRetries ELSE 1)
    BY DEF DeliveryOK
  <1>6. to \in {"delivery_pending", "delivering"} => e < g
    BY <1>2 DEF DeliveryOK
  <1>7. e <= g
    BY DEF DeliveryOK
  <1>8. ASSUME to = "delivering" PROVE DeliveryOK(r, e + 1, g)
    BY <1>3, <1>4, <1>5, <1>6, <1>8 DEF DeliveryOK
  <1>9. ASSUME to # "delivering" PROVE DeliveryOK(r, e, g)
    BY <1>2, <1>3, <1>4, <1>5, <1>6, <1>7, <1>9 DEF DeliveryOK
  <1> QED BY <1>3, <1>8, <1>9 DEF RecordOK

LEMMA DeliverySteps ==
    ASSUME ManagersInv, mgr = "delivery", NEW i \in Ids
    PROVE  /\ QueueDelivery(i) => ManagersInv'
           /\ StartDelivery(i) => ManagersInv'
           /\ MarkDelivered(i) => ManagersInv'
           /\ AcknowledgeDelivery(i) => ManagersInv'
           /\ \A to \in {"failed", "timed_out"} : EndDelivery(i, to) => ManagersInv'
           /\ RetryDelivery(i) => ManagersInv'
  <1> DEFINE e == effects[i]
             g == grants[i]
  <1>1. e \in Nat /\ g \in Nat
    BY RecordFacts
  <1>2. Exists(i) => DeliveryOK(recs[i], e, g)
    BY RecordFacts DEF RecordOK
  <1>3. ASSUME NEW to, Transition(i, DeliveryMoves, to, recs[i]), to # "retrying",
               IF to = "delivering" THEN Effected(i) ELSE Unmoved
        PROVE  ManagersInv'
    <2>1. Exists(i) /\ to \in DeliveryMoves[recs[i].status]
      BY <1>3 DEF Transition
    <2>2. PICK r : r = [recs[i] EXCEPT !.status = to]
      OBVIOUS
    <2>3. /\ r.status = to
          /\ to = "delivering" => RecordOK("delivery", i, r, e + 1, g)
          /\ to # "delivering" => RecordOK("delivery", i, r, e, g)
      BY <1>1, <1>2, <1>3, <2>1, <2>2, DeliveryMoved
    <2>4. CASE to = "delivering"
      <3>1. RecordOK("delivery", i, r, e + 1, g) /\ Effected(i)
        BY <1>3, <2>3, <2>4
      <3> QED BY <1>3, <2>2, <2>3, <3>1, TransitionStep
    <2>5. CASE to # "delivering"
      <3>1. RecordOK("delivery", i, r, e, g) /\ Unmoved
        BY <1>3, <2>3, <2>5
      <3> QED BY <1>3, <2>2, <2>3, <3>1, TransitionStep
    <2> QED BY <2>4, <2>5
  <1>4. QueueDelivery(i) => ManagersInv'
    BY <1>3 DEF QueueDelivery
  <1>5. StartDelivery(i) => ManagersInv'
    BY <1>3 DEF StartDelivery
  <1>6. MarkDelivered(i) => ManagersInv'
    BY <1>3 DEF MarkDelivered
  <1>7. AcknowledgeDelivery(i) => ManagersInv'
    BY <1>3 DEF AcknowledgeDelivery
  <1>8. ASSUME NEW to \in {"failed", "timed_out"}, EndDelivery(i, to) PROVE ManagersInv'
    <2>1. /\ Exists(i) /\ Unmoved /\ to \in DeliveryMoves[recs[i].status]
          /\ Transition(i, DeliveryMoves, to, [recs[i] EXCEPT !.failure = "other"])
      BY <1>8 DEF EndDelivery, Transition
    <2>2. PICK q : q = [recs[i] EXCEPT !.failure = "other"]
      OBVIOUS
    <2>3. recs[i] \in DeliveryRecords /\ recs[i].status \in DOMAIN DeliveryMoves
      BY <1>2, <2>1 DEF DeliveryOK, DeliveryRecords
    <2>4. recs[i].status # "timed_out"
      BY <2>1, <2>3, DeliveryTable
    <2>5. /\ q \in DeliveryRecords /\ q.status = recs[i].status /\ q.attempt = recs[i].attempt
          /\ q.maxRetries = recs[i].maxRetries /\ q.failure = "other"
      BY <2>2, <2>3 DEF DeliveryRecords
    <2>6. DeliveryOK(q, e, g)
      BY <1>2, <2>1, <2>4, <2>5 DEF DeliveryOK
    <2>7. PICK r : r = [q EXCEPT !.status = to]
      OBVIOUS
    <2>8. r.status = to /\ RecordOK("delivery", i, r, e, g)
      BY <1>1, <2>1, <2>5, <2>6, <2>7, DeliveryMoved
    <2> QED BY <2>1, <2>2, <2>7, <2>8, TransitionStep
  <1>9. ASSUME RetryDelivery(i) PROVE ManagersInv'
    <2> DEFINE next == recs[i].attempt + 1
    <2>1. Exists(i) /\ recs[i].status \in {"failed", "timed_out"}
      BY <1>9 DEF RetryDelivery
    <2>2. recs[i] \in DeliveryRecords /\ recs[i].status \in DOMAIN DeliveryMoves
          /\ recs[i].attempt \in Nat /\ recs[i].maxRetries \in Nat
      BY <1>2, <2>1 DEF DeliveryOK, DeliveryRecords
    <2>3. next \in Nat
      BY <2>2
    <2>4. CASE next > recs[i].maxRetries
      <3>1. /\ Transition(i, DeliveryMoves, "timed_out",
                    [recs[i] EXCEPT !.attempt = next, !.failure = "max_retries_exceeded"])
            /\ Unmoved
        BY <1>9, <2>4 DEF RetryDelivery
      <3> HIDE DEF next
      <3>2. PICK q : q = [recs[i] EXCEPT !.attempt = next, !.failure = "max_retries_exceeded"]
        OBVIOUS
      <3>3. PICK r : r = [q EXCEPT !.status = "timed_out"]
        OBVIOUS
      <3>4. q \in DeliveryRecords /\ q.attempt = next /\ q.failure = "max_retries_exceeded"
            /\ q.maxRetries = recs[i].maxRetries
        BY <2>2, <2>3, <3>2 DEF DeliveryRecords
      <3>5. /\ r \in DeliveryRecords /\ r.attempt = next /\ r.failure = "max_retries_exceeded"
            /\ r.maxRetries = recs[i].maxRetries /\ r.status = "timed_out"
        BY <3>3, <3>4, MoveTables DEF DeliveryRecords
      <3>6. DeliveryOK(r, e, g)
        BY <1>2, <2>1, <2>4, <3>5 DEF DeliveryOK
      <3>7. RecordOK("delivery", i, r, e, g)
        BY <3>6 DEF RecordOK
      <3> QED BY <3>1, <3>2, <3>3, <3>5, <3>7, TransitionStep
    <2>5. CASE ~(next > recs[i].maxRetries)
      <3>1. /\ Transition(i, DeliveryMoves, "retrying",
                    [recs[i] EXCEPT !.attempt = next, !.failure = "none"])
            /\ Granted(i)
        BY <1>9, <2>5 DEF RetryDelivery
      <3>2. next = recs[i].attempt + 1
        OBVIOUS
      <3> HIDE DEF next
      <3>3. PICK q : q = [recs[i] EXCEPT !.attempt = next, !.failure = "none"]
        OBVIOUS
      <3>4. PICK r : r = [q EXCEPT !.status = "retrying"]
        OBVIOUS
      <3>5. q \in DeliveryRecords /\ q.attempt = next /\ q.failure = "none"
            /\ q.maxRetries = recs[i].maxRetries
        BY <2>2, <2>3, <3>3 DEF DeliveryRecords
      <3>6. /\ r \in DeliveryRecords /\ r.attempt = next /\ r.failure = "none"
            /\ r.maxRetries = recs[i].maxRetries /\ r.status = "retrying"
        BY <3>4, <3>5, MoveTables DEF DeliveryRecords
      <3>7. g = recs[i].attempt /\ e <= g
        <4>1. recs[i].failure = "max_retries_exceeded" => recs[i].attempt > recs[i].maxRetries
          BY <1>2, <2>1 DEF DeliveryOK
        <4>2. recs[i].failure # "max_retries_exceeded"
          BY <2>2, <2>5, <3>2, <4>1
        <4> QED BY <1>2, <2>1, <4>2 DEF DeliveryOK
      <3>8. g + 1 = next /\ e <= g + 1 /\ e < g + 1 /\ next <= recs[i].maxRetries
            /\ recs[i].maxRetries > 0
        BY <1>1, <2>2, <2>3, <2>5, <3>2, <3>7
      <3>9. DeliveryOK(r, e, g + 1)
        BY <3>6, <3>8 DEF DeliveryOK
      <3>10. RecordOK("delivery", i, r, e, g + 1)
        BY <3>9 DEF RecordOK
      <3> QED BY <3>1, <3>3, <3>4, <3>6, <3>10, TransitionStep
    <2> QED BY <2>4, <2>5
  <1> QED BY <1>4, <1>5, <1>6, <1>7, <1>8, <1>9

(* registerDelivery of a run it knows only marks the delivery.             *)
LEMMA RegisterStep ==
    ASSUME ManagersInv, mgr = "delivery", NEW i \in Ids, NEW limit \in Nat,
           RegisterDelivery(i, limit)
    PROVE  ManagersInv'
  <1> DEFINE e == effects[i]
             g == grants[i]
  <1>1. e \in Nat /\ g \in Nat
    BY RecordFacts
  <1>2. CASE Exists(i)
    <2>1. recs' = [recs EXCEPT ![i].duplicate = TRUE]
          /\ UNCHANGED <<mgr, log, nextId, cursor, readN, lostN, effects, grants>>
      BY <1>2 DEF RegisterDelivery, Unmoved
    <2>2. PICK r : r = [recs[i] EXCEPT !.duplicate = TRUE]
      OBVIOUS
    <2>3. recs' = [recs EXCEPT ![i] = r]
      BY <2>1, <2>2, Zenon
    <2>4. DeliveryOK(recs[i], e, g)
      BY <1>2, RecordFacts DEF RecordOK
    <2>5. recs[i] \in DeliveryRecords
      BY <2>4 DEF DeliveryOK
    <2>6. /\ r \in DeliveryRecords /\ r.status = recs[i].status /\ r.attempt = recs[i].attempt
          /\ r.maxRetries = recs[i].maxRetries /\ r.failure = recs[i].failure
      BY <2>2, <2>5 DEF DeliveryRecords
    <2>7. RecordOK(mgr, i, r, e, g)
      BY <2>4, <2>6 DEF DeliveryOK, RecordOK
    <2>8. recs = [j \in Ids |-> recs[j]] /\ effects \in [Ids -> Nat] /\ grants \in [Ids -> Nat]
      BY DEF ManagersInv, BufferInv, RecordsInv
    <2>9. RecordsInv'
      <3>1. effects' = [effects EXCEPT ![i] = e] /\ grants' = [grants EXCEPT ![i] = g]
        BY <2>1, <2>8
      <3>2. RecordsInv /\ mgr' = mgr
        BY <2>1 DEF ManagersInv
      <3> HIDE DEF e, g
      <3> QED BY <1>1, <2>3, <2>7, <2>8, <3>1, <3>2, RecordStep
    <2>10. TellsStatus(log, recs')
      <3>1. \A j \in Ids : recs'[j].status = recs[j].status
        BY <2>3, <2>6, <2>8
      <3>2. \A k \in DOMAIN log : log[k].of \in Ids
        <4>1. log \in Seq(ManagerEvents)
          BY DEF ManagersInv, BufferInv, EndOfEvents
        <4>2. \A k \in DOMAIN log : log[k] \in ManagerEvents
          BY <4>1
        <4> QED BY <4>2 DEF ManagerEvents
      <3> QED BY <3>1, <3>2 DEF ManagersInv, BufferInv, TellsStatus
    <2>11. recs' = [j \in Ids |-> recs'[j]]
      BY <2>3, <2>8
    <2>12. BufferInv'
      <3>1. nextId \in 0..MaxEventId[mgr] /\ MaxEventId[mgr] \in Nat /\ lostN \in Nat
        BY LifecycleAssumption DEF ManagersInv, BufferInv
      <3>2. EndOfEvents(log, nextId) /\ Accounted(log, nextId, readN, lostN) /\ BufferInv
        BY DEF ManagersInv, BufferInv
      <3>3. nextId' >= nextId /\ nextId' \in 0..MaxEventId[mgr]
        BY <2>1, <3>1
      <3> QED BY <2>1, <2>10, <2>11, <3>1, <3>2, <3>3, BufferPrimed
    <2>13. ChainInv'
      BY <2>1 DEF ChainInv
    <2> QED BY <2>9, <2>12, <2>13 DEF ManagersInv
  <1>3. CASE ~Exists(i)
    <2> DEFINE r == [status |-> "result_ready", attempt |-> 1, maxRetries |-> limit,
                     failure |-> "none", duplicate |-> FALSE]
    <2>1. Create(i, r) /\ Granted(i)
      BY <1>3 DEF RegisterDelivery
    <2>2. e = 0 /\ g = 0
      BY <1>3, RecordFacts
    <2>3. r \in DeliveryRecords /\ r.status = "result_ready" /\ r.attempt = 1
          /\ r.failure = "none" /\ r.maxRetries = limit
      BY MoveTables DEF DeliveryRecords
    <2> HIDE DEF r
    <2>4. 0 < g + 1 /\ g + 1 = 1 /\ 1 <= (IF limit > 0 THEN limit ELSE 1)
      BY <2>2
    <2>5. DeliveryOK(r, e, g + 1)
      BY <2>2, <2>3, <2>4 DEF DeliveryOK
    <2>6. RecordOK(mgr, i, r, e, g + 1)
      BY <2>5 DEF RecordOK
    <2> QED BY <2>1, <2>6, CreateStep
  <1> QED BY <1>2, <1>3

-----------------------------------------------------------------------------
(* ProposalManager and WakeAuditManager: an approved proposal and an       *)
(* accepted wake have a permission they did not use.                       *)

LEMMA ManagedTable ==
    ASSUME NEW s \in DOMAIN ProposalMoves, NEW to \in ProposalMoves[s]
    PROVE  to \in DOMAIN ProposalMoves /\ (to = "applying" => s = "approved")
  BY MoveTables DEF ProposalMoves

LEMMA ManagedMoved ==
    ASSUME NEW q, NEW e \in Nat, NEW g \in Nat, ManagedOK(q, e, g),
           NEW to \in ProposalMoves[q.status],
           NEW r, r = [q EXCEPT !.status = to], NEW i
    PROVE  /\ r.status = to
           /\ to = "approved" => RecordOK("proposal", i, r, e, g + 1)
           /\ to = "applying" => RecordOK("proposal", i, r, e + 1, g)
           /\ to # "approved" => RecordOK("proposal", i, r, e, g)
  <1>1. q \in ProposalRecords /\ q.status \in DOMAIN ProposalMoves /\ e <= g
        /\ (q.status = "approved" => e < g)
    BY DEF ManagedOK, ProposalRecords
  <1>2. to \in DOMAIN ProposalMoves /\ (to = "applying" => q.status = "approved")
    BY <1>1, ManagedTable
  <1>3. r \in ProposalRecords /\ r.status = to
    BY <1>1, <1>2 DEF ProposalRecords
  <1>4. e <= g + 1 /\ e < g + 1 /\ (e < g => e + 1 <= g)
    BY <1>1
  <1> QED BY <1>1, <1>2, <1>3, <1>4 DEF ManagedOK, RecordOK

LEMMA ManagedSteps ==
    ASSUME ManagersInv, mgr = "proposal", NEW i \in Ids
    PROVE  /\ CreateManagedProposal(i) => ManagersInv'
           /\ StartApply(i) => ManagersInv'
           /\ CompleteApply(i) => ManagersInv'
           /\ FailApply(i) => ManagersInv'
           /\ \A to \in {"blocked", "approved", "rejected"} : Decide(i, to) => ManagersInv'
  <1> DEFINE e == effects[i]
             g == grants[i]
  <1>1. e \in Nat /\ g \in Nat
    BY RecordFacts
  <1>2. Exists(i) => ManagedOK(recs[i], e, g)
    BY RecordFacts DEF RecordOK
  <1>3. ASSUME NEW to, NEW q, Transition(i, ProposalMoves, to, q), ManagedOK(q, e, g),
               q.status = recs[i].status,
               \/ to = "approved" /\ Granted(i)
               \/ to = "applying" /\ Effected(i)
               \/ to # "approved" /\ Unmoved
        PROVE  ManagersInv'
    <2>1. Exists(i) /\ to \in ProposalMoves[q.status]
      BY <1>3 DEF Transition
    <2>2. PICK r : r = [q EXCEPT !.status = to]
      OBVIOUS
    <2>3. /\ r.status = to
          /\ to = "approved" => RecordOK("proposal", i, r, e, g + 1)
          /\ to = "applying" => RecordOK("proposal", i, r, e + 1, g)
          /\ to # "approved" => RecordOK("proposal", i, r, e, g)
      BY <1>1, <1>3, <2>1, <2>2, ManagedMoved
    <2>4. \/ Unmoved /\ RecordOK(mgr, i, r, effects[i], grants[i])
          \/ Granted(i) /\ RecordOK(mgr, i, r, effects[i], grants[i] + 1)
          \/ Effected(i) /\ RecordOK(mgr, i, r, effects[i] + 1, grants[i])
      BY <1>3, <2>3
    <2> QED BY <1>3, <2>2, <2>3, <2>4, TransitionStep
  <1>4. StartApply(i) => ManagersInv'
    BY <1>2, <1>3 DEF StartApply, Transition
  <1>5. CompleteApply(i) => ManagersInv'
    BY <1>2, <1>3 DEF CompleteApply, Transition
  <1>6. ASSUME FailApply(i) PROVE ManagersInv'
    <2> DEFINE n == recs[i].attempts + 1
    <2>1. /\ Exists(i) /\ Unmoved
          /\ Transition(i, ProposalMoves, "failed", [recs[i] EXCEPT !.reason = "other", !.attempts = n])
      BY <1>6, Zenon DEF FailApply
    <2>2. recs[i] \in ProposalRecords /\ n \in Nat
      BY <1>2, <2>1 DEF ManagedOK, ProposalRecords
    <2> HIDE DEF n
    <2>3. PICK q : q = [recs[i] EXCEPT !.reason = "other", !.attempts = n]
      OBVIOUS
    <2>4. q \in ProposalRecords /\ q.status = recs[i].status
      BY <2>2, <2>3 DEF ProposalRecords
    <2>5. ManagedOK(q, e, g)
      BY <1>2, <2>1, <2>4 DEF ManagedOK
    <2> QED BY <1>3, <2>1, <2>3, <2>4, <2>5
  <1>7. ASSUME NEW to \in {"blocked", "approved", "rejected"}, Decide(i, to) PROVE ManagersInv'
    <2> DEFINE q == IF to = "blocked" THEN [recs[i] EXCEPT !.reason = "other"] ELSE recs[i]
    <2>1. /\ Exists(i) /\ Transition(i, ProposalMoves, to, q)
          /\ IF to = "approved" THEN Granted(i) ELSE Unmoved
      BY <1>7 DEF Decide
    <2>2. recs[i] \in ProposalRecords
      BY <1>2, <2>1 DEF ManagedOK
    <2>3. q \in ProposalRecords /\ q.status = recs[i].status
      <3>1. PICK p : p = [recs[i] EXCEPT !.reason = "other"]
        OBVIOUS
      <3>2. p \in ProposalRecords /\ p.status = recs[i].status
        BY <2>2, <3>1 DEF ProposalRecords
      <3>3. q = IF to = "blocked" THEN p ELSE recs[i]
        BY <3>1, Zenon
      <3> HIDE DEF q
      <3> QED BY <2>2, <3>2, <3>3
    <2> HIDE DEF q
    <2>4. ManagedOK(q, e, g)
      BY <1>2, <2>1, <2>3 DEF ManagedOK
    <2>5. \/ to = "approved" /\ Granted(i)
          \/ to # "approved" /\ Unmoved
      BY <2>1
    <2> QED BY <1>3, <2>1, <2>3, <2>4, <2>5
  <1>8. ASSUME CreateManagedProposal(i) PROVE ManagersInv'
    <2> DEFINE r == [status |-> "proposed", reason |-> "none", attempts |-> 0]
    <2>1. Create(i, r) /\ Unmoved /\ ~Exists(i)
      BY <1>8 DEF CreateManagedProposal, Fresh
    <2>2. e = 0 /\ g = 0
      BY <2>1, RecordFacts
    <2>3. r \in ProposalRecords /\ r.status = "proposed"
      BY MoveTables DEF ProposalRecords
    <2> HIDE DEF r
    <2>4. RecordOK(mgr, i, r, e, g)
      BY <2>2, <2>3 DEF ManagedOK, RecordOK
    <2> QED BY <2>1, <2>4, CreateStep
  <1> QED BY <1>4, <1>5, <1>6, <1>7, <1>8

LEMMA WakeTable ==
    ASSUME NEW s \in DOMAIN WakeMoves, NEW to \in WakeMoves[s]
    PROVE  to \in DOMAIN WakeMoves /\ (to \in {"resumed", "launched"} => s = "accepted")
  BY MoveTables DEF WakeMoves

LEMMA WakeMoved ==
    ASSUME NEW q, NEW e \in Nat, NEW g \in Nat, WakeOK(q, e, g),
           NEW to \in WakeMoves[q.status],
           NEW r, r = [q EXCEPT !.status = to], NEW i
    PROVE  /\ r.status = to
           /\ to = "accepted" => RecordOK("wake", i, r, e, g + 1)
           /\ to \in {"resumed", "launched"} => RecordOK("wake", i, r, e + 1, g)
           /\ to # "accepted" => RecordOK("wake", i, r, e, g)
  <1>1. q \in WakeRecords /\ q.status \in DOMAIN WakeMoves /\ e <= g
        /\ (q.status = "accepted" => e < g)
    BY DEF WakeOK, WakeRecords
  <1>2. to \in DOMAIN WakeMoves /\ (to \in {"resumed", "launched"} => q.status = "accepted")
    BY <1>1, WakeTable
  <1>3. r \in WakeRecords /\ r.status = to
    BY <1>1, <1>2 DEF WakeRecords
  <1>4. e <= g + 1 /\ e < g + 1 /\ (e < g => e + 1 <= g)
    BY <1>1
  <1> QED BY <1>1, <1>2, <1>3, <1>4 DEF WakeOK, RecordOK

LEMMA WakeSteps ==
    ASSUME ManagersInv, mgr = "wake", NEW i \in Ids
    PROVE  /\ RequestWake(i) => ManagersInv'
           /\ AcceptWake(i) => ManagersInv'
           /\ ResumeWake(i) => ManagersInv'
           /\ LaunchWake(i) => ManagersInv'
           /\ ReplyWake(i) => ManagersInv'
           /\ \A to \in {"failed", "unreachable"} : EndWake(i, to) => ManagersInv'
  <1> DEFINE e == effects[i]
             g == grants[i]
  <1>1. e \in Nat /\ g \in Nat
    BY RecordFacts
  <1>2. Exists(i) => WakeOK(recs[i], e, g)
    BY RecordFacts DEF RecordOK
  <1>3. ASSUME NEW to, NEW q, Transition(i, WakeMoves, to, q), WakeOK(q, e, g),
               q.status = recs[i].status,
               \/ to = "accepted" /\ Granted(i)
               \/ to = "resumed" /\ Effected(i)
               \/ to # "accepted" /\ Unmoved
        PROVE  ManagersInv'
    <2>1. Exists(i) /\ to \in WakeMoves[q.status]
      BY <1>3 DEF Transition
    <2>2. PICK r : r = [q EXCEPT !.status = to]
      OBVIOUS
    <2>3. /\ r.status = to
          /\ to = "accepted" => RecordOK("wake", i, r, e, g + 1)
          /\ to \in {"resumed", "launched"} => RecordOK("wake", i, r, e + 1, g)
          /\ to # "accepted" => RecordOK("wake", i, r, e, g)
      BY <1>1, <1>3, <2>1, <2>2, WakeMoved
    <2>4. \/ Unmoved /\ RecordOK(mgr, i, r, effects[i], grants[i])
          \/ Granted(i) /\ RecordOK(mgr, i, r, effects[i], grants[i] + 1)
          \/ Effected(i) /\ RecordOK(mgr, i, r, effects[i] + 1, grants[i])
      BY <1>3, <2>3
    <2> QED BY <1>3, <2>2, <2>3, <2>4, TransitionStep
  <1>4. AcceptWake(i) => ManagersInv'
    BY <1>2, <1>3 DEF AcceptWake, Transition
  <1>5. ResumeWake(i) => ManagersInv'
    BY <1>2, <1>3 DEF ResumeWake, Transition
  <1>6. ReplyWake(i) => ManagersInv'
    BY <1>2, <1>3 DEF ReplyWake, Transition
  <1>7. ASSUME NEW to \in {"failed", "unreachable"}, EndWake(i, to) PROVE ManagersInv'
    <2> DEFINE code == IF to = "unreachable" THEN "peer_unreachable" ELSE "other"
    <2>1. Exists(i) /\ Unmoved /\ Transition(i, WakeMoves, to, [recs[i] EXCEPT !.failure = code])
      BY <1>7 DEF EndWake
    <2>2. code \in {"none", "other", "peer_unreachable"}
      OBVIOUS
    <2> HIDE DEF code
    <2>3. PICK q : q = [recs[i] EXCEPT !.failure = code]
      OBVIOUS
    <2>4. recs[i] \in WakeRecords
      BY <1>2, <2>1 DEF WakeOK
    <2>5. q \in WakeRecords /\ q.status = recs[i].status
      BY <2>2, <2>3, <2>4 DEF WakeRecords
    <2>6. WakeOK(q, e, g)
      BY <1>2, <2>1, <2>5 DEF WakeOK
    <2> QED BY <1>3, <2>1, <2>3, <2>5, <2>6
  <1>8. ASSUME RequestWake(i) PROVE ManagersInv'
    <2>1. CASE Exists(i) /\ IsWakeActive(recs[i].status)
      <3>1. Create(i, [recs[i] EXCEPT !.status = "duplicate_suppressed"]) /\ Unmoved
        BY <1>8, <2>1 DEF RequestWake
      <3>2. PICK r : r = [recs[i] EXCEPT !.status = "duplicate_suppressed"]
        OBVIOUS
      <3>3. recs[i] \in WakeRecords
        BY <1>2, <2>1 DEF WakeOK
      <3>4. r \in WakeRecords /\ r.status = "duplicate_suppressed"
        BY <3>2, <3>3, MoveTables DEF WakeRecords
      <3>5. RecordOK(mgr, i, r, e, g)
        BY <1>2, <2>1, <3>4 DEF WakeOK, RecordOK
      <3>6. Create(i, r)
        BY <3>1, <3>2
      <3> QED BY <3>1, <3>5, <3>6, CreateStep
    <2>2. CASE ~(Exists(i) /\ IsWakeActive(recs[i].status))
      <3> DEFINE n == IF Exists(i) THEN recs[i].attempts + 1 ELSE 1
                 r == [status |-> "requested", failure |-> "none", attempts |-> n]
      <3>1. Create(i, r) /\ Unmoved
        BY <1>8, <2>2 DEF RequestWake
      <3>2. n \in Nat
        BY <1>2 DEF WakeOK, WakeRecords
      <3> HIDE DEF n
      <3>3. r \in WakeRecords /\ r.status = "requested"
        BY <3>2, MoveTables DEF WakeRecords
      <3> HIDE DEF r
      <3>4. e <= g
        <4>1. CASE Exists(i)
          BY <1>2, <4>1 DEF WakeOK
        <4>2. CASE ~Exists(i)
          BY <4>2, RecordFacts
        <4> QED BY <4>1, <4>2
      <3>5. RecordOK(mgr, i, r, e, g)
        BY <3>3, <3>4 DEF WakeOK, RecordOK
      <3> QED BY <3>1, <3>5, CreateStep
    <2> QED BY <2>1, <2>2
  <1>9. ASSUME LaunchWake(i) PROVE ManagersInv'
    <2>1. /\ Exists(i) /\ "launched" \in WakeMoves[recs[i].status] /\ Effected(i)
          /\ recs' = [recs EXCEPT ![i].status = "launched"] /\ UNCHANGED mgr
      BY <1>9 DEF LaunchWake
    <2>2. PICK r : r = [recs[i] EXCEPT !.status = "launched"]
      OBVIOUS
    <2>3. recs' = [recs EXCEPT ![i] = r]
      BY <2>1, <2>2, Zenon
    <2>4. r.status = "launched" /\ RecordOK("wake", i, r, e + 1, g)
      BY <1>1, <1>2, <2>1, <2>2, WakeMoved
    <2>5. BufferInv'
      BY <1>9, <2>3, <2>4, LaunchKeepsBuffer DEF ManagersInv
    <2>6. RecordsInv'
      <3>1. effects \in [Ids -> Nat] /\ grants \in [Ids -> Nat] /\ recs = [j \in Ids |-> recs[j]]
            /\ RecordsInv
        BY DEF ManagersInv, RecordsInv, BufferInv
      <3>2. grants' = [grants EXCEPT ![i] = g]
        BY <2>1, <3>1 DEF Effected
      <3>3. effects' = [effects EXCEPT ![i] = e + 1]
        BY <2>1, Zenon DEF Effected
      <3>4. e + 1 \in Nat /\ g \in Nat
        BY <1>1
      <3> HIDE DEF e, g
      <3> QED BY <2>1, <2>3, <2>4, <3>1, <3>2, <3>3, <3>4, RecordStep
    <2>7. ChainInv'
      BY <2>1 DEF ChainInv
    <2> QED BY <2>5, <2>6, <2>7 DEF ManagersInv
  <1> QED BY <1>4, <1>5, <1>6, <1>7, <1>8, <1>9

-----------------------------------------------------------------------------
(* ConferenceRoomManager: a participant never returns to a status.         *)

LEMMA ConferenceTable ==
    ASSUME NEW s \in DOMAIN ConferenceMoves, NEW to \in ConferenceMoves[s]
    PROVE  /\ to \in DOMAIN ConferenceMoves /\ s \in DOMAIN Announced
           /\ to \notin Announced[s]
           /\ to \in DOMAIN Announced => Announced[s] \cup {to} \subseteq Announced[to]
  <1>1. DOMAIN Announced = {"active", "invited", "joined", "speaking"}
    BY DEF Announced
  <1>2. CASE s = "invited"
    BY <1>1, <1>2 DEF ConferenceMoves, Announced
  <1>3. CASE s = "joined"
    BY <1>1, <1>3 DEF ConferenceMoves, Announced
  <1>4. CASE s = "speaking"
    BY <1>1, <1>4 DEF ConferenceMoves, Announced
  <1>5. CASE s \in {"blocked", "left", "done"}
    BY <1>5 DEF ConferenceMoves
  <1> QED BY <1>2, <1>3, <1>4, <1>5, MoveTables

LEMMA RoomIndexed ==
    ASSUME NEW q \in RoomRecords, NEW kind \in RoomKinds, NEW r, r = Indexed(q, kind)
    PROVE  r \in RoomRecords /\ r.status = kind /\ r.index = q.index \cup {kind}
  BY DEF RoomRecords, Indexed

LEMMA RoomCreated ==
    ASSUME ManagersInv, mgr = "conference", NEW i \in Ids, ~Exists(i),
           NEW kind \in {"active", "invited"}, i = 1 <=> kind = "active",
           Create(i, [status |-> kind, index |-> {kind}]), Effected(i)
    PROVE  ManagersInv'
  <1> DEFINE r == [status |-> kind, index |-> {kind}]
  <1>1. effects[i] = 0
    BY RecordFacts
  <1>2. r \in RoomRecords /\ r.status = kind /\ r.index = {kind}
    BY MoveTables DEF RoomRecords, RoomKinds
  <1>3. Create(i, r)
    OBVIOUS
  <1> HIDE DEF r
  <1>4. IsFiniteSet(r.index) /\ Cardinality(r.index) = 1
    <2>1. IsFiniteSet({kind}) /\ Cardinality({kind}) = 1
      BY FS_Singleton, Zenon
    <2> QED BY <1>2, <2>1, Zenon
  <1>5. r.index \subseteq Announced[r.status]
    BY <1>2 DEF Announced
  <1>6. IF i = 1 THEN r.status \in {"active", "closed"}
        ELSE r.status \in DOMAIN ConferenceMoves
    BY <1>2, MoveTables
  <1>7. RoomOK(i, r, effects[i] + 1)
    BY <1>1, <1>2, <1>4, <1>5, <1>6 DEF RoomOK
  <1>8. RecordOK(mgr, i, r, effects[i] + 1, grants[i])
    BY <1>7 DEF RecordOK
  <1> QED BY <1>3, <1>8, CreateStep

LEMMA RoomSteps ==
    ASSUME ManagersInv, mgr = "conference"
    PROVE  /\ CreateRoom => ManagersInv'
           /\ CloseRoom => ManagersInv'
           /\ \A i \in Ids : Invite(i) => ManagersInv'
           /\ \A i \in Ids : \A to \in {"joined", "speaking", "blocked", "left", "done"} :
                 MoveParticipant(i, to) => ManagersInv'
  <1>1. 1 \in Ids
    BY LifecycleAssumption DEF ManagersInv, BufferInv, Ids
  <1>2. CreateRoom => ManagersInv'
    BY <1>1, RoomCreated DEF CreateRoom
  <1>3. \A i \in Ids : Invite(i) => ManagersInv'
    BY RoomCreated DEF Invite
  <1>4. ASSUME NEW i \in Ids, Exists(i), NEW kind \in RoomKinds, kind \notin recs[i].index,
               NEW r, r = Indexed(recs[i], kind),
               IF i = 1 THEN kind \in {"active", "closed"} ELSE kind \in DOMAIN ConferenceMoves,
               kind \in DOMAIN Announced => recs[i].index \cup {kind} \subseteq Announced[kind]
        PROVE  RecordOK(mgr, i, r, effects[i] + 1, grants[i]) /\ r.status = kind
               /\ r \in RoomRecords
    <2>1. RoomOK(i, recs[i], effects[i])
      BY <1>4, RecordFacts DEF RecordOK
    <2>2. recs[i] \in RoomRecords /\ IsFiniteSet(recs[i].index)
          /\ effects[i] = Cardinality(recs[i].index)
      BY <2>1 DEF RoomOK
    <2>3. r \in RoomRecords /\ r.status = kind /\ r.index = recs[i].index \cup {kind}
      BY <1>4, <2>2, RoomIndexed
    <2>4. IsFiniteSet(r.index) /\ Cardinality(r.index) = effects[i] + 1
      BY <1>4, <2>2, <2>3, FS_AddElement
    <2>5. RoomOK(i, r, effects[i] + 1)
      BY <1>4, <2>3, <2>4 DEF RoomOK
    <2> QED BY <2>3, <2>5 DEF RecordOK
  <1>5. ASSUME CloseRoom PROVE ManagersInv'
    <2>1. /\ Exists(1) /\ recs[1].status = "active"
          /\ Create(1, Indexed(recs[1], "closed")) /\ Effected(1)
      BY <1>5 DEF CloseRoom, RoomActive
    <2>2. RoomOK(1, recs[1], effects[1])
      BY <1>1, <2>1, RecordFacts DEF RecordOK
    <2>3. recs[1].index \subseteq {"active"}
      BY <2>1, <2>2 DEF RoomOK, Announced
    <2>4. PICK r : r = Indexed(recs[1], "closed")
      OBVIOUS
    <2>5. "closed" \in RoomKinds /\ "closed" \notin DOMAIN Announced
      BY DEF RoomKinds, Announced
    <2>6. "closed" \notin recs[1].index
      BY <2>3
    <2>7. RecordOK(mgr, 1, r, effects[1] + 1, grants[1])
      BY <1>1, <1>4, <2>1, <2>4, <2>5, <2>6
    <2>8. Create(1, r)
      BY <2>1, <2>4
    <2> QED BY <1>1, <2>1, <2>7, <2>8, CreateStep
  <1>6. ASSUME NEW i \in Ids, NEW to \in {"joined", "speaking", "blocked", "left", "done"},
               MoveParticipant(i, to)
        PROVE  ManagersInv'
    <2>1. /\ i # 1 /\ Exists(i) /\ to \in ConferenceMoves[recs[i].status] /\ Effected(i)
          /\ Transition(i, ConferenceMoves, to, Indexed(recs[i], to))
      BY <1>6 DEF MoveParticipant, Transition
    <2>2. RoomOK(i, recs[i], effects[i])
      BY <2>1, RecordFacts DEF RecordOK
    <2>3. recs[i].status \in DOMAIN ConferenceMoves
      BY <2>1, <2>2 DEF RoomOK
    <2>4. /\ to \in DOMAIN ConferenceMoves /\ recs[i].status \in DOMAIN Announced
          /\ to \notin Announced[recs[i].status]
          /\ to \in DOMAIN Announced => Announced[recs[i].status] \cup {to} \subseteq Announced[to]
      BY <2>1, <2>3, ConferenceTable
    <2>5. recs[i].index \subseteq Announced[recs[i].status]
      BY <2>2, <2>4 DEF RoomOK
    <2>6. to \in RoomKinds
      BY <2>4 DEF RoomKinds
    <2>7. PICK q : q = Indexed(recs[i], to)
      OBVIOUS
    <2>8. to \notin recs[i].index
          /\ (to \in DOMAIN Announced => recs[i].index \cup {to} \subseteq Announced[to])
      BY <2>4, <2>5
    <2>9. RecordOK(mgr, i, q, effects[i] + 1, grants[i]) /\ q.status = to /\ q \in RoomRecords
      BY <1>4, <2>1, <2>4, <2>6, <2>7, <2>8
    <2>10. [q EXCEPT !.status = to] = q
      BY <2>9 DEF RoomRecords
    <2> QED BY <2>1, <2>7, <2>9, <2>10, TransitionStep
  <1> QED BY <1>2, <1>3, <1>5, <1>6

-----------------------------------------------------------------------------
(* The handoffs and their ledger *)

LEMMA LedgerKeepsBuffer ==
    ASSUME ManagersInv, mgr = "handoff", recs' = [j \in Ids |-> recs'[j]],
           UNCHANGED <<mgr, log, nextId, cursor, readN, lostN>>
    PROVE  BufferInv'
  <1>1. log = <<>> /\ BufferInv
    BY DEF ManagersInv, ChainInv
  <1>2. nextId \in 0..MaxEventId[mgr] /\ MaxEventId[mgr] \in Nat /\ lostN \in Nat
        /\ EndOfEvents(log, nextId) /\ Accounted(log, nextId, readN, lostN)
    BY <1>1, LifecycleAssumption DEF BufferInv
  <1>3. TellsStatus(log', recs')
    BY <1>1 DEF TellsStatus
  <1>4. nextId' >= nextId /\ nextId' \in 0..MaxEventId[mgr]
    BY <1>2
  <1> QED BY <1>1, <1>2, <1>3, <1>4, BufferPrimed

LEMMA HandoffFacts ==
    ASSUME ManagersInv, mgr = "handoff", NEW i \in Ids, Exists(i)
    PROVE  /\ HandoffOK(recs[i], effects[i], grants[i]) /\ recs[i] \in HandoffRecords
           /\ ChainOK(recs, grants, i) /\ effects[i] \in Nat /\ grants[i] \in Nat
  <1>1. HandoffOK(recs[i], effects[i], grants[i]) /\ effects[i] \in Nat /\ grants[i] \in Nat
    BY RecordFacts DEF RecordOK
  <1>2. ChainOK(recs, grants, i)
    BY DEF ManagersInv, ChainInv
  <1> QED BY <1>1, <1>2 DEF HandoffOK

(* A step of a handoff that leaves its route alone.                        *)
SameRoute(r, q) ==
    /\ r.path = q.path /\ r.sender = q.sender /\ r.receiver = q.receiver
    /\ r.prev = q.prev /\ r.maxHops = q.maxHops

LEMMA ChainKept ==
    ASSUME ManagersInv, mgr = "handoff", NEW i \in Ids, Exists(i), NEW r, r # NoRec,
           recs' = [recs EXCEPT ![i] = r], SameRoute(r, recs[i]), UNCHANGED <<mgr, log, grants>>
    PROVE  ChainInv'
  <1>1. recs = [j \in Ids |-> recs[j]] /\ log = <<>> /\ Ids' = Ids
    BY DEF ManagersInv, BufferInv, ChainInv, Ids
  <1>2. \A j \in Ids : (recs'[j] # NoRec <=> recs[j] # NoRec) /\ SameRoute(recs'[j], recs[j])
    BY <1>1 DEF SameRoute, Exists
  <1>3. PICK R : R = recs'
    OBVIOUS
  <1>4. \A j \in Ids : (R[j] # NoRec <=> recs[j] # NoRec) /\ SameRoute(R[j], recs[j])
    BY <1>2, <1>3
  <1>5. ASSUME NEW j \in Ids, R[j] # NoRec PROVE ChainOK(R, grants, j)
    <2>1. ChainOK(recs, grants, j)
      BY <1>4, <1>5 DEF ManagersInv, ChainInv, Exists
    <2>2. SameRoute(R[j], recs[j])
      BY <1>4
    <2>3. RouteOK(R, grants, R[j].path, R[j].sender, R[j].prev, R[j].maxHops)
      <3>1. RouteOK(recs, grants, R[j].path, R[j].sender, R[j].prev, R[j].maxHops)
        BY <2>1, <2>2 DEF ChainOK, SameRoute
      <3>2. \A m \in DOMAIN recs :
               /\ m \in DOMAIN R /\ (recs[m] # NoRec => R[m] # NoRec)
               /\ R[m].path = recs[m].path /\ R[m].receiver = recs[m].receiver
               /\ R[m].maxHops = recs[m].maxHops
        BY <1>1, <1>3, <1>4 DEF SameRoute
      <3> HIDE DEF SameRoute
      <3> QED BY <3>1, <3>2 DEF RouteOK
    <2> QED BY <2>1, <2>2, <2>3 DEF ChainOK, SameRoute
  <1>6. ASSUME NEW j \in Ids, Exists(j)' PROVE ChainOK(recs, grants, j)'
    <2>1. ChainOK(R, grants, j)
      BY <1>3, <1>5, <1>6 DEF Exists
    <2> QED BY <1>3, <2>1
  <1> QED BY <1>1, <1>6 DEF ChainInv

LEMMA PathKept ==
    ASSUME NEW S, NEW p \in Seq(S), p # <<>>, NEW n, p[Len(p)] = n
    PROVE  NormalizeHopPath(p, n, p[1]) = p
  BY DEF NormalizeHopPath

LEMMA PathGrown ==
    ASSUME NEW S, NEW p \in Seq(S), p # <<>>, NEW n, p[Len(p)] # n
    PROVE  NormalizeHopPath(p, n, p[1]) = Append(p, n)
  BY DEF NormalizeHopPath

LEMMA PathBegun ==
    ASSUME NEW n PROVE NormalizeHopPath(<<>>, n, n) = <<n>>
  BY DEF NormalizeHopPath

LEMMA LoopAllows ==
    ASSUME NEW path, NEW sender, NEW receiver, NEW maxHops,
           LoopReason(path, sender, receiver, maxHops) = "none"
    PROVE  sender # receiver /\ ~(Len(path) > maxHops) /\ ~Visits(path, receiver)
  BY DEF LoopReason, Visits

LEMMA HandoffTable ==
    ASSUME NEW s \in DOMAIN HandoffMoves, NEW to \in HandoffMoves[s]
    PROVE  /\ to \in DOMAIN HandoffMoves /\ to # "initiated"
           /\ s \in {"initiated", "dispatched", "acknowledged"}
           /\ to = "dispatched" => s = "initiated"
  BY MoveTables DEF HandoffMoves

LEMMA OutcomeIs ==
    ASSUME NEW r
    PROVE  /\ ComputeOutcome(r) \in {"deduplicated", "retried", "delivered", "timed_out", "partial",
                                     "rejected", "failed"}
           /\ r.status \in {"initiated", "dispatched", "acknowledged"}
                 => ComputeOutcome(r) = "partial"
  BY DEF ComputeOutcome

LEMMA FailureIs ==
    ASSUME NEW to, NEW kind \in FailureKinds(to)
    PROVE  HandoffFailure(to, kind) \in
              {"none", "handoff_loop_guard", "receiver_rejected", "transport_error",
               "timeout", "policy_violation"}
  BY DEF FailureKinds, HandoffFailure

(* A step of one handoff that leaves its route alone.                      *)
LEMMA LedgerStep ==
    ASSUME ManagersInv, mgr = "handoff", NEW i \in Ids, Exists(i), NEW r,
           recs' = [recs EXCEPT ![i] = r], SameRoute(r, recs[i]),
           UNCHANGED <<mgr, log, nextId, cursor, readN, lostN>>,
           \/ Unmoved /\ HandoffOK(r, effects[i], grants[i])
           \/ Effected(i) /\ HandoffOK(r, effects[i] + 1, grants[i])
    PROVE  ManagersInv'
  <1>1. effects \in [Ids -> Nat] /\ grants \in [Ids -> Nat] /\ recs = [j \in Ids |-> recs[j]]
        /\ RecordsInv
    BY DEF ManagersInv, RecordsInv, BufferInv
  <1>2. PICK e \in Nat : effects' = [effects EXCEPT ![i] = e] /\ grants' = grants
                         /\ HandoffOK(r, e, grants[i])
    <2>1. CASE Unmoved /\ HandoffOK(r, effects[i], grants[i])
      BY <1>1, <2>1 DEF Unmoved
    <2>2. CASE Effected(i) /\ HandoffOK(r, effects[i] + 1, grants[i])
      <3>1. effects[i] + 1 \in Nat
        BY <1>1
      <3>2. effects' = [effects EXCEPT ![i] = effects[i] + 1] /\ grants' = grants
        BY <2>2, Zenon DEF Effected
      <3> QED BY <2>2, <3>1, <3>2, Zenon
    <2> QED BY <2>1, <2>2
  <1>3. PICK g \in Nat : g = grants[i] /\ grants' = [grants EXCEPT ![i] = g]
    BY <1>1, <1>2
  <1>4. RecordOK(mgr, i, r, e, g)
    BY <1>2, <1>3 DEF RecordOK
  <1>5. RecordsInv'
    BY <1>1, <1>2, <1>3, <1>4, RecordStep
  <1>6. r # NoRec
    BY <1>4, RecordExists
  <1>7. ChainInv'
    BY <1>2, <1>6, ChainKept
  <1>8. recs' = [j \in Ids |-> recs'[j]]
    BY <1>1
  <1>9. BufferInv'
    BY <1>8, LedgerKeepsBuffer
  <1> QED BY <1>5, <1>7, <1>9 DEF ManagersInv

LEMMA PhaseStep ==
    ASSUME ManagersInv, mgr = "handoff", NEW i \in Ids, NEW to, NEW kind \in FailureKinds(to),
           TransitionPhase(i, to, kind)
    PROVE  ManagersInv'
  <1> DEFINE why == HandoffFailure(to, kind)
             e == effects[i]
             g == grants[i]
  <1>1. /\ Exists(i) /\ to \in HandoffMoves[recs[i].status]
        /\ recs' = [recs EXCEPT ![i].status = to, ![i].failure = why]
        /\ UNCHANGED <<mgr, log, nextId, cursor, readN, lostN>>
        /\ IF to = "dispatched" THEN Effected(i) ELSE Unmoved
    BY DEF TransitionPhase
  <1>2. why \in {"none", "handoff_loop_guard", "receiver_rejected", "transport_error",
                 "timeout", "policy_violation"}
    BY FailureIs
  <1> HIDE DEF why
  <1>3. /\ recs[i] \in HandoffRecords /\ HandoffOK(recs[i], e, g) /\ e \in Nat /\ g \in Nat
        /\ recs = [j \in Ids |-> recs[j]]
    BY <1>1, HandoffFacts DEF ManagersInv, BufferInv
  <1>4. recs[i].status \in DOMAIN HandoffMoves
    BY <1>3 DEF HandoffRecords
  <1>5. /\ to \in DOMAIN HandoffMoves /\ to # "initiated"
        /\ recs[i].status \in {"initiated", "dispatched", "acknowledged"}
        /\ to = "dispatched" => recs[i].status = "initiated"
    BY <1>1, <1>4, HandoffTable
  <1>6. PICK r : r = [recs[i] EXCEPT !.status = to, !.failure = why]
    OBVIOUS
  <1>7. /\ r \in HandoffRecords /\ SameRoute(r, recs[i]) /\ r.status = to
        /\ r.entry = recs[i].entry
    BY <1>2, <1>3, <1>5, <1>6 DEF HandoffRecords, SameRoute
  <1>8. recs' = [recs EXCEPT ![i] = r]
    BY <1>1, <1>3, <1>6
  <1>9. r.entry \in {"none", "partial", ComputeOutcome(r)}
    BY <1>3, <1>5, <1>7, OutcomeIs DEF HandoffOK
  <1>10. g # 0
    BY <1>3, <1>5 DEF HandoffOK
  <1>11. e <= g /\ (to = "dispatched" => e + 1 <= g)
    BY <1>3, <1>5 DEF HandoffOK
  <1>12. CASE to = "dispatched"
    <2>1. HandoffOK(r, e + 1, g)
      BY <1>5, <1>7, <1>9, <1>10, <1>11, <1>12 DEF HandoffOK
    <2> QED BY <1>1, <1>7, <1>8, <1>12, <2>1, LedgerStep
  <1>13. CASE to # "dispatched"
    <2>1. HandoffOK(r, e, g)
      BY <1>5, <1>7, <1>9, <1>10, <1>11 DEF HandoffOK
    <2> QED BY <1>1, <1>7, <1>8, <1>13, <2>1, LedgerStep
  <1> QED BY <1>12, <1>13

LEMMA SealStep ==
    ASSUME ManagersInv, mgr = "handoff", NEW i \in Ids, Seal(i)
    PROVE  ManagersInv'
  <1> DEFINE entry == ComputeOutcome(recs[i])
             e == effects[i]
             g == grants[i]
  <1>1. /\ Exists(i) /\ recs' = [recs EXCEPT ![i].entry = entry] /\ Unmoved
        /\ UNCHANGED <<mgr, log, nextId, cursor, readN, lostN>>
    BY DEF Seal
  <1>2. entry \in {"deduplicated", "retried", "delivered", "timed_out", "partial",
                   "rejected", "failed"}
    BY OutcomeIs
  <1>3. recs[i] \in HandoffRecords /\ HandoffOK(recs[i], e, g)
    BY <1>1, HandoffFacts
  <1>4. PICK r : r = [recs[i] EXCEPT !.entry = entry]
    OBVIOUS
  <1>5. recs' = [recs EXCEPT ![i] = r]
    BY <1>1, <1>4, Zenon
  <1>6. entry = ComputeOutcome(recs[i])
    OBVIOUS
  <1> HIDE DEF entry
  <1>7. /\ r \in HandoffRecords /\ SameRoute(r, recs[i]) /\ r.status = recs[i].status
        /\ r.entry = entry /\ r.scenario = recs[i].scenario /\ r.failure = recs[i].failure
    BY <1>2, <1>3, <1>4 DEF HandoffRecords, SameRoute
  <1>8. ComputeOutcome(r) = ComputeOutcome(recs[i])
    BY <1>7 DEF ComputeOutcome
  <1>9. HandoffOK(r, e, g)
    BY <1>3, <1>6, <1>7, <1>8 DEF HandoffOK
  <1> QED BY <1>1, <1>5, <1>7, <1>9, LedgerStep

(* A new handoff leaves the routes of the others alone.                    *)
LEMMA ChainGrows ==
    ASSUME ManagersInv, mgr = "handoff", NEW i \in Ids, ~Exists(i), NEW r \in HandoffRecords,
           NEW g \in Nat, recs' = [recs EXCEPT ![i] = r], grants' = [grants EXCEPT ![i] = g],
           UNCHANGED <<mgr, log>>, RouteOK(recs, grants, r.path, r.sender, r.prev, r.maxHops),
           g > 0 => ~Visits(r.path, r.receiver) /\ Len(r.path) <= r.maxHops
    PROVE  ChainInv'
  <1>1. recs = [j \in Ids |-> recs[j]] /\ log = <<>> /\ Ids' = Ids /\ grants \in [Ids -> Nat]
    BY DEF ManagersInv, BufferInv, RecordsInv, ChainInv, Ids
  <1>2. PICK R, G : R = recs' /\ G = grants'
    OBVIOUS
  <1>3. R[i] = r /\ G[i] = g
    BY <1>1, <1>2
  <1>4. \A j \in Ids : recs[j] # NoRec => R[j] = recs[j] /\ G[j] = grants[j]
    BY <1>1, <1>2 DEF Exists
  <1>5. ASSUME NEW path, NEW sender, NEW prev, NEW maxHops,
               RouteOK(recs, grants, path, sender, prev, maxHops)
        PROVE  RouteOK(R, G, path, sender, prev, maxHops)
    <2>1. \A m \in DOMAIN recs : recs[m] # NoRec =>
             /\ m \in DOMAIN R /\ R[m] = recs[m] /\ G[m] = grants[m]
      BY <1>1, <1>2, <1>4
    <2> QED BY <1>5, <2>1 DEF RouteOK
  <1>6. ASSUME NEW j \in Ids, R[j] # NoRec PROVE ChainOK(R, G, j)
    <2>1. CASE j = i
      BY <1>3, <1>5, <2>1 DEF ChainOK
    <2>2. CASE j # i
      <3>1. R[j] = recs[j] /\ recs[j] # NoRec
        BY <1>1, <1>2, <1>6, <2>2
      <3>2. ChainOK(recs, grants, j)
        BY <3>1 DEF ManagersInv, ChainInv, Exists
      <3>3. RouteOK(R, G, R[j].path, R[j].sender, R[j].prev, R[j].maxHops)
        BY <1>5, <3>1, <3>2 DEF ChainOK
      <3> QED BY <1>4, <3>1, <3>2, <3>3 DEF ChainOK
    <2> QED BY <2>1, <2>2
  <1>7. ASSUME NEW j \in Ids, Exists(j)' PROVE ChainOK(recs, grants, j)'
    <2>1. ChainOK(R, G, j)
      BY <1>2, <1>6, <1>7 DEF Exists
    <2> QED BY <1>2, <2>1
  <1> QED BY <1>1, <1>7 DEF ChainInv

LEMMA HandoffPlaced ==
    ASSUME ManagersInv, mgr = "handoff", NEW i \in Ids, ~Exists(i), NEW r \in HandoffRecords,
           recs' = [recs EXCEPT ![i] = r], UNCHANGED <<mgr, log, nextId, cursor, readN, lostN>>,
           RouteOK(recs, grants, r.path, r.sender, r.prev, r.maxHops), r.entry = "none",
           \/ Unmoved /\ r.status = "failed"
           \/ /\ Granted(i) /\ r.status = "initiated"
              /\ ~Visits(r.path, r.receiver) /\ Len(r.path) <= r.maxHops
    PROVE  ManagersInv'
  <1>1. effects \in [Ids -> Nat] /\ grants \in [Ids -> Nat] /\ recs = [j \in Ids |-> recs[j]]
        /\ RecordsInv
    BY DEF ManagersInv, RecordsInv, BufferInv
  <1>2. effects[i] = 0 /\ grants[i] = 0
    BY RecordFacts
  <1>3. PICK g \in Nat :
           /\ effects' = [effects EXCEPT ![i] = 0] /\ grants' = [grants EXCEPT ![i] = g]
           /\ \/ g = 0 /\ r.status = "failed"
              \/ g = 1 /\ r.status = "initiated"
           /\ g > 0 => ~Visits(r.path, r.receiver) /\ Len(r.path) <= r.maxHops
    <2>1. CASE Unmoved /\ r.status = "failed"
      <3>1. effects' = [effects EXCEPT ![i] = 0] /\ grants' = [grants EXCEPT ![i] = 0]
        BY <1>1, <1>2, <2>1 DEF Unmoved
      <3>2. 0 \in Nat /\ ~(0 > 0)
        OBVIOUS
      <3> QED BY <2>1, <3>1, <3>2, Zenon
    <2>2. CASE /\ Granted(i) /\ r.status = "initiated"
               /\ ~Visits(r.path, r.receiver) /\ Len(r.path) <= r.maxHops
      <3>1. effects' = [effects EXCEPT ![i] = 0]
        BY <1>1, <1>2, <2>2 DEF Granted
      <3>2. grants' = [grants EXCEPT ![i] = grants[i] + 1]
        BY <2>2, Zenon DEF Granted
      <3>3. grants' = [grants EXCEPT ![i] = 1]
        BY <1>2, <3>2
      <3> QED BY <2>2, <3>1, <3>3
    <2> QED BY <2>1, <2>2
  <1>4. HandoffOK(r, 0, g)
    BY <1>3 DEF HandoffOK
  <1>5. RecordsInv'
    BY <1>1, <1>3, <1>4, RecordStep DEF RecordOK
  <1>6. ChainInv'
    BY <1>3, ChainGrows
  <1>7. recs' = [j \in Ids |-> recs'[j]]
    BY <1>1
  <1>8. BufferInv'
    BY <1>7, LedgerKeepsBuffer
  <1> QED BY <1>5, <1>6, <1>8 DEF ManagersInv

(* The route of a new handoff: it begins at the origin, is grown by the    *)
(* receiver that hands the task on, or is the route of the handoff that is *)
(* retried or sent again.                                                  *)
LEMMA RouteBegun ==
    ASSUME NEW maxHops
    PROVE  /\ NormalizeHopPath(<<>>, Origin, Origin) \in Seq(HandoffNodes)
           /\ RouteOK(recs, grants, NormalizeHopPath(<<>>, Origin, Origin), Origin, 0, maxHops)
  <1>1. NormalizeHopPath(<<>>, Origin, Origin) = <<Origin>>
    BY PathBegun
  <1>2. PICK p : p = <<Origin>>
    OBVIOUS
  <1>3. p \in Seq(HandoffNodes) /\ Len(p) = 1 /\ p[1] = Origin /\ DOMAIN p = 1..1 /\ p # <<>>
    BY <1>2 DEF HandoffNodes
  <1>4. \A j, k \in DOMAIN p : j = k
    BY <1>3
  <1>5. RouteOK(recs, grants, p, Origin, 0, maxHops)
    BY <1>3, <1>4 DEF RouteOK
  <1> QED BY <1>1, <1>2, <1>3, <1>5

LEMMA RouteKept ==
    ASSUME ManagersInv, mgr = "handoff", NEW of \in Ids, Exists(of)
    PROVE  LET r == recs[of]
               path == NormalizeHopPath(r.path, r.sender, r.path[1])
           IN  /\ path \in Seq(HandoffNodes) /\ r.path # <<>>
               /\ RouteOK(recs, grants, path, r.sender, r.prev, r.maxHops)
  <1>1. recs[of] \in HandoffRecords /\ ChainOK(recs, grants, of)
    BY HandoffFacts
  <1>2. recs[of].path \in Seq(HandoffNodes)
    BY <1>1 DEF HandoffRecords
  <1>3. recs[of].path # <<>> /\ recs[of].path[Len(recs[of].path)] = recs[of].sender
    BY <1>1 DEF ChainOK, RouteOK
  <1>4. NormalizeHopPath(recs[of].path, recs[of].sender, recs[of].path[1]) = recs[of].path
    BY <1>2, <1>3, PathKept
  <1> QED BY <1>1, <1>2, <1>3, <1>4 DEF ChainOK

LEMMA RouteGrown ==
    ASSUME ManagersInv, mgr = "handoff", NEW of \in Ids, Exists(of),
           recs[of].status \in {"acknowledged", "completed"}
    PROVE  LET r == recs[of]
               path == NormalizeHopPath(r.path, r.receiver, r.path[1])
           IN  /\ path \in Seq(HandoffNodes) /\ r.path # <<>>
               /\ RouteOK(recs, grants, path, r.receiver, of, r.maxHops)
  <1>1. recs[of] \in HandoffRecords /\ ChainOK(recs, grants, of) /\ grants[of] \in Nat
        /\ HandoffOK(recs[of], effects[of], grants[of])
    BY HandoffFacts
  <1>2. grants[of] > 0
    BY <1>1 DEF HandoffOK
  <1> DEFINE p == recs[of].path
             n == recs[of].receiver
  <1>3. p \in Seq(HandoffNodes) /\ n \in HandoffNodes
    BY <1>1 DEF HandoffRecords
  <1>4. /\ p # <<>> /\ ~Visits(p, n)
        /\ \A j, k \in DOMAIN p : p[j] = p[k] => j = k
    BY <1>1, <1>2 DEF ChainOK, RouteOK
  <1> HIDE DEF p, n
  <1>5. p[Len(p)] # n /\ \A k \in DOMAIN p : p[k] # n
    BY <1>3, <1>4 DEF Visits
  <1>6. NormalizeHopPath(p, n, p[1]) = Append(p, n)
    BY <1>3, <1>4, <1>5, PathGrown
  <1>7. PICK q : q = Append(p, n)
    OBVIOUS
  <1>8. /\ q \in Seq(HandoffNodes) /\ q # <<>> /\ DOMAIN q = 1..(Len(p) + 1) /\ Len(q) = Len(p) + 1
        /\ q[Len(p) + 1] = n /\ \A k \in 1..Len(p) : q[k] = p[k]
    BY <1>3, <1>7
  <1>9. DOMAIN p = 1..Len(p) /\ Len(p) \in Nat
    BY <1>3
  <1>10. ASSUME NEW j \in DOMAIN q, NEW k \in DOMAIN q, q[j] = q[k] PROVE j = k
    <2>1. j \in 1..Len(p) \/ j = Len(p) + 1
      BY <1>8, <1>9
    <2>2. k \in 1..Len(p) \/ k = Len(p) + 1
      BY <1>8, <1>9
    <2> QED BY <1>4, <1>5, <1>8, <1>9, <1>10, <2>1, <2>2
  <1>11. RouteOK(recs, grants, q, n, of, recs[of].maxHops)
    <2>1. of \in DOMAIN recs
      BY DEF ManagersInv, BufferInv
    <2> QED BY <1>2, <1>7, <1>8, <1>10, <2>1 DEF RouteOK, Exists, p, n
  <1> QED BY <1>4, <1>6, <1>7, <1>8, <1>11 DEF p, n

LEMMA HandoffRecorded ==
    ASSUME ManagersInv, mgr = "handoff", NEW i \in Ids, NEW why \in {"first", "hop", "retry", "again"},
           NEW of, why # "first" => of \in Ids, NEW trouble, NEW limit \in Nat,
           RecordHandoff(i, why, of, trouble, limit)
    PROVE  ManagersInv'
  <1> DEFINE sender  == CASE why = "first" -> Origin
                          [] why = "hop"   -> recs[of].receiver
                          [] OTHER         -> recs[of].sender
             hopPath == IF why = "first" THEN <<>> ELSE recs[of].path
             origin  == IF hopPath = <<>> THEN sender ELSE hopPath[1]
             path    == NormalizeHopPath(hopPath, sender, origin)
             maxHops == IF why = "first" THEN limit ELSE recs[of].maxHops
             prev    == CASE why = "first" -> 0 [] why = "hop" -> of [] OTHER -> recs[of].prev
             scenario == ClassifyHandoff(why, trouble)
             reason(n) == LoopReason(path, sender, n, maxHops)
             new(n) == [status   |-> IF reason(n) = "none" THEN "initiated" ELSE "failed",
                        scenario |-> scenario, sender |-> sender,
                        receiver |-> n, path |-> path, prev |-> prev,
                        maxHops  |-> maxHops, entry |-> "none",
                        failure  |-> IF reason(n) = "none" THEN "none" ELSE "handoff_loop_guard"]
  <1>1. Fresh(i) /\ Follows(why, of) /\ UNCHANGED <<mgr, log, nextId, cursor, readN, lostN>>
    BY DEF RecordHandoff
  <1>2. PICK n \in (IF why = "again" THEN {recs[of].receiver} ELSE Nodes) :
           /\ recs' = [recs EXCEPT ![i] = new(n)]
           /\ IF reason(n) = "none" THEN Granted(i) ELSE Unmoved
    BY Zenon DEF RecordHandoff
  <1>3. why # "first" => of \in Ids /\ Exists(of)
    BY <1>1 DEF Follows
  <1>4. why # "first" => recs[of] \in HandoffRecords
    BY <1>3, HandoffFacts
  <1>5. why = "hop" => recs[of].status \in {"acknowledged", "completed"}
    BY <1>1 DEF Follows
  <1>6. n \in HandoffNodes /\ sender \in HandoffNodes /\ maxHops \in Nat
    BY <1>2, <1>4 DEF HandoffNodes, HandoffRecords
  <1>7. prev \in Nat
    BY <1>3, <1>4 DEF HandoffRecords, Ids
  <1>8. scenario \in {"S1_normal", "S2_receiver_unavailable", "S3_sender_crash",
                      "S4_duplicate", "S5_recovery"}
    BY DEF ClassifyHandoff
  <1>9. path \in Seq(HandoffNodes) /\ RouteOK(recs, grants, path, sender, prev, maxHops)
    <2>1. CASE why = "first"
      <3>1. sender = Origin /\ hopPath = <<>> /\ prev = 0
        BY <2>1
      <3>2. origin = Origin
        BY <3>1
      <3> HIDE DEF sender, hopPath, prev, origin, maxHops
      <3> QED BY <3>1, <3>2, RouteBegun
    <2>2. CASE why = "hop"
      <3>1. sender = recs[of].receiver /\ hopPath = recs[of].path /\ prev = of
            /\ maxHops = recs[of].maxHops
        BY <2>2
      <3>2. recs[of].path # <<>>
        BY <1>3, <1>5, <2>2, RouteGrown
      <3>3. origin = recs[of].path[1]
        BY <3>1, <3>2
      <3> HIDE DEF sender, hopPath, prev, origin, maxHops
      <3> QED BY <1>3, <1>5, <2>2, <3>1, <3>3, RouteGrown
    <2>3. CASE why \in {"retry", "again"}
      <3>1. sender = recs[of].sender /\ hopPath = recs[of].path /\ prev = recs[of].prev
            /\ maxHops = recs[of].maxHops
        BY <2>3
      <3>2. recs[of].path # <<>>
        BY <1>3, <2>3, RouteKept
      <3>3. origin = recs[of].path[1]
        BY <3>1, <3>2
      <3> HIDE DEF sender, hopPath, prev, origin, maxHops
      <3> QED BY <1>3, <2>3, <3>1, <3>3, RouteKept
    <2> QED BY <2>1, <2>2, <2>3
  <1> HIDE DEF sender, path, maxHops, prev, scenario
  <1>10. PICK r : r = new(n)
    OBVIOUS
  <1>11. /\ r \in HandoffRecords /\ r.entry = "none" /\ r.path = path /\ r.sender = sender
         /\ r.prev = prev /\ r.maxHops = maxHops /\ r.receiver = n
         /\ r.status = (IF reason(n) = "none" THEN "initiated" ELSE "failed")
    <2> HIDE DEF reason
    <2> QED BY <1>6, <1>7, <1>8, <1>9, <1>10, MoveTables DEF HandoffRecords
  <1>12. reason(n) = "none" => ~Visits(path, n) /\ Len(path) <= maxHops
    <2>1. reason(n) = "none" => ~Visits(path, n) /\ ~(Len(path) > maxHops)
      BY LoopAllows
    <2> QED BY <1>6, <1>9, <2>1
  <1> HIDE DEF reason, new
  <1>13. \/ Unmoved /\ r.status = "failed"
         \/ /\ Granted(i) /\ r.status = "initiated"
            /\ ~Visits(r.path, r.receiver) /\ Len(r.path) <= r.maxHops
    BY <1>2, <1>11, <1>12
  <1>14. ~Exists(i) /\ recs' = [recs EXCEPT ![i] = r]
    BY <1>1, <1>2, <1>10 DEF Fresh
  <1>15. RouteOK(recs, grants, r.path, r.sender, r.prev, r.maxHops)
    BY <1>9, <1>11
  <1> QED BY <1>1, <1>11, <1>13, <1>14, <1>15, HandoffPlaced

-----------------------------------------------------------------------------
(* The lineage of a handoff *)

Hops(h) == Len(recs[h].path)

(* What a handoff's route says of the handoff before it.                   *)
LEMMA BeforeHop ==
    ASSUME ManagersInv, mgr = "handoff", NEW h \in Ids, Exists(h)
    PROVE  LET p == recs[h].prev
           IN  /\ Hops(h) \in Nat /\ Hops(h) >= 1 /\ recs[h].path[Hops(h)] = recs[h].sender
               /\ p = 0 => Hops(h) = 1
               /\ p # 0 => /\ p \in Ids /\ Exists(p) /\ grants[p] > 0 /\ Hops(h) = Hops(p) + 1
                           /\ \A k \in 1..Hops(p) : recs[h].path[k] = recs[p].path[k]
                           /\ recs[h].path[Hops(h)] = recs[p].receiver
  <1> DEFINE p == recs[h].prev
             q == recs[h].path
  <1>1. recs[h] \in HandoffRecords /\ RouteOK(recs, grants, q, recs[h].sender, p, recs[h].maxHops)
    BY HandoffFacts DEF ChainOK
  <1>2. q \in Seq(HandoffNodes)
    BY <1>1 DEF HandoffRecords
  <1>3. q # <<>> /\ q[Len(q)] = recs[h].sender
    BY <1>1 DEF RouteOK
  <1>4. Hops(h) = Len(q) /\ Hops(h) \in Nat /\ Hops(h) >= 1
    BY <1>2, <1>3 DEF Hops
  <1>5. \/ p = 0 /\ Len(q) = 1
        \/ /\ p \in Ids /\ Exists(p) /\ grants[p] > 0
           /\ q = Append(recs[p].path, recs[p].receiver)
    <2>1. DOMAIN recs = Ids
      BY DEF ManagersInv, BufferInv
    <2> QED BY <1>1, <2>1 DEF RouteOK, Exists
  <1>6. 0 \notin Ids
    BY DEF Ids
  <1>7. CASE p = 0
    <2>1. Len(q) = 1
      BY <1>5, <1>6, <1>7, Zenon
    <2> HIDE DEF q
    <2> QED BY <1>3, <1>4, <1>7, <2>1 DEF q
  <1>8. CASE p # 0
    <2>1. p \in Ids /\ Exists(p) /\ grants[p] > 0 /\ q = Append(recs[p].path, recs[p].receiver)
      BY <1>5, <1>8
    <2>2. recs[p] \in HandoffRecords
      BY <2>1, HandoffFacts
    <2>3. PICK s \in Seq(HandoffNodes) : s = recs[p].path
      BY <2>2 DEF HandoffRecords
    <2>4. PICK n \in HandoffNodes : n = recs[p].receiver
      BY <2>2 DEF HandoffRecords
    <2>5. q = Append(s, n) /\ Hops(p) = Len(s)
      BY <2>1, <2>3, <2>4 DEF Hops
    <2> HIDE DEF q
    <2>6. Len(q) = Len(s) + 1 /\ q[Len(s) + 1] = n /\ \A k \in 1..Len(s) : q[k] = s[k]
      <3>1. PICK t : t = Append(s, n)
        OBVIOUS
      <3>2. Len(t) = Len(s) + 1 /\ t[Len(s) + 1] = n /\ \A k \in 1..Len(s) : t[k] = s[k]
        BY <3>1
      <3> QED BY <2>5, <3>1, <3>2
    <2>7. \A k \in 1..Hops(p) : q[k] = recs[p].path[k]
      BY <2>3, <2>5, <2>6
    <2>8. Hops(h) = Hops(p) + 1 /\ q[Hops(h)] = recs[p].receiver
      BY <1>4, <2>4, <2>5, <2>6
    <2> QED BY <1>3, <1>4, <1>8, <2>1, <2>7, <2>8, Zenon DEF q
  <1> QED BY <1>7, <1>8

(* The lineage is a chain of handoffs, and the least one.                  *)
LEMMA LineageLeast ==
    ASSUME ManagersInv, mgr = "handoff", NEW i \in Ids, Exists(i)
    PROVE  /\ i \in Lineage(i) /\ \A h \in Lineage(i) : h \in Ids /\ Exists(h)
           /\ \A h \in Lineage(i) : recs[h].prev # 0 => recs[h].prev \in Lineage(i)
           /\ \A H : /\ \A h \in H : h \in Ids /\ Exists(h)
                     /\ i \in H /\ \A h \in H : recs[h].prev \in H \cup {0}
                     => Lineage(i) \subseteq H
           /\ \A k \in Lineage(i) : k # i => \E m \in Lineage(i) : recs[m].prev = k
  <1> DEFINE made == {h \in Ids : Exists(h)}
             chains == {H \in SUBSET made : i \in H /\ \A h \in H : recs[h].prev \in H \cup {0}}
             L == Lineage(i)
  <1>1. L = {h \in made : \A H \in chains : h \in H}
    BY DEF Lineage
  <1> HIDE DEF L
  <1>2. i \in L /\ \A h \in L : h \in Ids /\ Exists(h)
    BY <1>1
  <1>3. ASSUME NEW h \in L, recs[h].prev # 0 PROVE recs[h].prev \in L
    <2>1. recs[h].prev \in made
      BY <1>2, <1>3, BeforeHop
    <2>2. ASSUME NEW H \in chains PROVE recs[h].prev \in H
      BY <1>1, <1>3
    <2> QED BY <1>1, <2>1, <2>2
  <1>4. ASSUME NEW H, \A h \in H : h \in Ids /\ Exists(h), i \in H,
               \A h \in H : recs[h].prev \in H \cup {0}
        PROVE  L \subseteq H
    <2>1. H \in chains
      BY <1>4
    <2> QED BY <1>1, <2>1
  <1>5. ASSUME NEW k \in L, k # i PROVE \E m \in L : recs[m].prev = k
    <2>1. SUFFICES ASSUME \A m \in L : recs[m].prev # k PROVE FALSE
      OBVIOUS
    <2>2. PICK H : H = L \ {k}
      OBVIOUS
    <2>3. \A h \in H : h \in Ids /\ Exists(h)
      BY <1>2, <2>2
    <2>4. i \in H
      BY <1>2, <1>5, <2>2
    <2>5. \A h \in H : recs[h].prev \in H \cup {0}
      BY <1>3, <2>1, <2>2
    <2>6. L \subseteq H
      BY <1>4, <2>3, <2>4, <2>5
    <2> QED BY <1>5, <2>2, <2>6
  <1> QED BY <1>2, <1>3, <1>4, <1>5 DEF L

(* Along the route of a granted handoff no node occurs twice, and every    *)
(* handoff of its lineage is a prefix of that route.                       *)
LEMMA LineageRoute ==
    ASSUME ManagersInv, mgr = "handoff", NEW i \in Ids, Exists(i), grants[i] > 0,
           NEW full, full = Append(recs[i].path, recs[i].receiver)
    PROVE  /\ \A j, k \in 1..(Hops(i) + 1) : full[j] = full[k] => j = k
           /\ \A h \in Lineage(i) :
                 /\ Hops(h) <= Hops(i) /\ recs[h].receiver = full[Hops(h) + 1]
                 /\ recs[h].path[1] = full[1]
  <1> DEFINE p == recs[i].path
             n == recs[i].receiver
             L == Lineage(i)
  <1>1. recs[i] \in HandoffRecords /\ ChainOK(recs, grants, i)
    BY HandoffFacts
  <1>2. p \in Seq(HandoffNodes) /\ n \in HandoffNodes
    BY <1>1 DEF HandoffRecords
  <1>3. \A j, k \in DOMAIN p : p[j] = p[k] => j = k
    BY <1>1 DEF ChainOK, RouteOK
  <1>4. \A k \in DOMAIN p : p[k] # n
    BY <1>1 DEF ChainOK, Visits
  <1>5. Hops(i) = Len(p) /\ full = Append(p, n)
    BY DEF Hops
  <1> HIDE DEF p, n
  <1>6. /\ DOMAIN p = 1..Hops(i) /\ full[Hops(i) + 1] = n /\ Hops(i) \in Nat
        /\ \A k \in 1..Hops(i) : full[k] = p[k]
    BY <1>2, <1>5
  <1>7. ASSUME NEW j \in 1..(Hops(i) + 1), NEW k \in 1..(Hops(i) + 1), full[j] = full[k]
        PROVE  j = k
    <2>1. j \in 1..Hops(i) \/ j = Hops(i) + 1
      BY <1>6
    <2>2. k \in 1..Hops(i) \/ k = Hops(i) + 1
      BY <1>6
    <2> QED BY <1>3, <1>4, <1>6, <1>7, <2>1, <2>2
  <1> DEFINE Prefix(h) == /\ Hops(h) <= Hops(i) /\ recs[h].receiver = full[Hops(h) + 1]
                          /\ \A k \in 1..Hops(h) : recs[h].path[k] = full[k]
             H == {h \in Ids : Exists(h) /\ Prefix(h)}
  <1>8. i \in H
    BY <1>6 DEF p, n
  <1>9. ASSUME NEW h \in H PROVE recs[h].prev \in H \cup {0}
    <2> DEFINE q == recs[h].prev
    <2>1. h \in Ids /\ Exists(h) /\ Hops(h) <= Hops(i)
          /\ \A k \in 1..Hops(h) : recs[h].path[k] = full[k]
      OBVIOUS
    <2>2. SUFFICES ASSUME q # 0 PROVE q \in H
      OBVIOUS
    <2>3. /\ q \in Ids /\ Exists(q) /\ Hops(h) = Hops(q) + 1 /\ Hops(h) \in Nat
          /\ \A k \in 1..Hops(q) : recs[h].path[k] = recs[q].path[k]
          /\ recs[h].path[Hops(h)] = recs[q].receiver
      BY <2>1, <2>2, BeforeHop
    <2>4. Hops(q) \in Nat /\ Hops(q) >= 1
      BY <2>3, BeforeHop
    <2> HIDE DEF q, H
    <2>5. Hops(q) <= Hops(i) /\ Hops(h) \in 1..Hops(h) /\ \A k \in 1..Hops(q) : k \in 1..Hops(h)
      BY <1>6, <2>1, <2>3, <2>4
    <2>6. recs[q].receiver = full[Hops(q) + 1]
      BY <2>1, <2>3, <2>5
    <2>7. \A k \in 1..Hops(q) : recs[q].path[k] = full[k]
      BY <2>1, <2>3, <2>5
    <2> QED BY <2>3, <2>5, <2>6, <2>7 DEF H
  <1>10. L \subseteq H
    <2>1. PICK G : G = H
      OBVIOUS
    <2>2. \A h \in G : h \in Ids /\ Exists(h)
      BY <2>1
    <2>3. i \in G /\ \A h \in G : recs[h].prev \in G \cup {0}
      BY <1>8, <1>9, <2>1
    <2> QED BY <2>1, <2>2, <2>3, LineageLeast
  <1>11. ASSUME NEW h \in L
         PROVE  /\ Hops(h) <= Hops(i) /\ recs[h].receiver = full[Hops(h) + 1]
                /\ recs[h].path[1] = full[1]
    <2>1. h \in H
      BY <1>10
    <2>2. Hops(h) \in Nat /\ Hops(h) >= 1
      BY <2>1, BeforeHop
    <2>3. 1 \in 1..Hops(h)
      BY <2>2
    <2> QED BY <2>1, <2>3
  <1> QED BY <1>7, <1>11

(* No two handoffs of a lineage are as many hops from the origin.          *)
LEMMA LineageLevels ==
    ASSUME ManagersInv, mgr = "handoff", NEW i \in Ids, Exists(i), grants[i] > 0
    PROVE  \A h, k \in Lineage(i) : Hops(h) = Hops(k) => h = k
  <1> DEFINE L == Lineage(i)
             Alone(h) == \A k \in L : Hops(k) = Hops(h) => k = h
             H == {h \in L : Alone(h)}
  <1>1. /\ i \in L /\ \A h \in L : h \in Ids /\ Exists(h)
        /\ \A h \in L : recs[h].prev # 0 => recs[h].prev \in L
        /\ \A k \in L : k # i => \E m \in L : recs[m].prev = k
    BY LineageLeast
  <1>2. \A h \in L : Hops(h) <= Hops(i)
    BY LineageRoute
  <1>3. ASSUME NEW h \in L
        PROVE  /\ Hops(h) \in Nat
               /\ recs[h].prev # 0 => Hops(h) = Hops(recs[h].prev) + 1
    BY <1>1, BeforeHop
  <1>4. 0 \notin Ids
    BY DEF Ids
  <1>5. ASSUME NEW k \in L, k # i
        PROVE  \E m \in L : recs[m].prev = k /\ Hops(m) = Hops(k) + 1
    <2>1. PICK m \in L : recs[m].prev = k
      BY <1>1, <1>5
    <2> QED BY <1>1, <1>3, <1>4, <2>1
  <1> HIDE DEF L
  <1>6. i \in H
    <2>1. ASSUME NEW k \in L, Hops(k) = Hops(i), k # i PROVE FALSE
      <3>1. PICK m \in L : Hops(m) = Hops(k) + 1
        BY <1>5, <2>1
      <3> QED BY <1>1, <1>2, <1>3, <2>1, <3>1
    <2> QED BY <1>1, <2>1
  <1>7. ASSUME NEW h \in H, recs[h].prev # 0 PROVE recs[h].prev \in H
    <2> DEFINE q == recs[h].prev
    <2>1. h \in L /\ q \in L /\ Hops(h) = Hops(q) + 1 /\ Alone(h)
      BY <1>1, <1>3, <1>7
    <2>2. ASSUME NEW k \in L, Hops(k) = Hops(q) PROVE k = q
      <3>1. k # i
        BY <1>1, <1>2, <1>3, <2>1, <2>2
      <3>2. PICK m \in L : recs[m].prev = k /\ Hops(m) = Hops(k) + 1
        BY <1>5, <3>1
      <3>3. m = h
        BY <2>1, <2>2, <3>2
      <3> QED BY <3>2, <3>3
    <2> QED BY <2>1, <2>2
  <1>8. L \subseteq H
    <2>1. PICK G : G = H
      OBVIOUS
    <2>2. \A h \in G : h \in Ids /\ Exists(h)
      BY <1>1, <2>1
    <2>3. i \in G /\ \A h \in G : recs[h].prev \in G \cup {0}
      BY <1>6, <1>7, <2>1
    <2> QED BY <2>1, <2>2, <2>3, LineageLeast DEF L
  <1> QED BY <1>8 DEF L

(* Different handoffs of a lineage are at different places of one route.   *)
LEMMA ManagersLineage == ManagersInv => LineageSimple
  <1> SUFFICES ASSUME ManagersInv, mgr = "handoff", NEW i \in Ids, Exists(i), effects[i] > 0
               PROVE  /\ \A h, k \in Lineage(i) : recs[h].receiver = recs[k].receiver => h = k
                      /\ Cardinality(Lineage(i)) <= recs[i].maxHops
                      /\ \A h, k \in Lineage(i) :
                            recs[h].prev = 0 => recs[h].sender # recs[k].receiver
    BY DEF LineageSimple
  <1> DEFINE L == Lineage(i)
             n == Hops(i)
  <1>1. /\ recs[i] \in HandoffRecords /\ ChainOK(recs, grants, i)
        /\ HandoffOK(recs[i], effects[i], grants[i]) /\ effects[i] \in Nat /\ grants[i] \in Nat
    BY HandoffFacts
  <1>2. effects[i] <= grants[i]
    BY <1>1 DEF HandoffOK
  <1>3. grants[i] > 0
    BY <1>1, <1>2
  <1>4. n <= recs[i].maxHops /\ recs[i].maxHops \in Nat
    BY <1>1, <1>3 DEF ChainOK, HandoffRecords, Hops
  <1>5. PICK full : full = Append(recs[i].path, recs[i].receiver)
    OBVIOUS
  <1>6. /\ \A j, k \in 1..(n + 1) : full[j] = full[k] => j = k
        /\ \A h \in L : /\ Hops(h) <= n /\ recs[h].receiver = full[Hops(h) + 1]
                        /\ recs[h].path[1] = full[1]
    BY <1>3, <1>5, LineageRoute
  <1>7. \A h, k \in L : Hops(h) = Hops(k) => h = k
    BY <1>3, LineageLevels
  <1>8. \A h \in L : h \in Ids /\ Exists(h)
    BY LineageLeast
  <1>9. ASSUME NEW h \in L
        PROVE  /\ Hops(h) \in Nat /\ Hops(h) >= 1 /\ Hops(h) <= n
               /\ recs[h].prev = 0 => recs[h].sender = full[1]
    BY <1>6, <1>8, BeforeHop
  <1>10. n \in Nat
    BY BeforeHop
  <1> HIDE DEF L, n
  <1>11. ASSUME NEW h \in L, NEW k \in L, recs[h].receiver = recs[k].receiver PROVE h = k
    <2>1. Hops(h) + 1 \in 1..(n + 1) /\ Hops(k) + 1 \in 1..(n + 1)
      BY <1>9, <1>10
    <2>2. full[Hops(h) + 1] = full[Hops(k) + 1]
      BY <1>6, <1>11
    <2>3. Hops(h) + 1 = Hops(k) + 1
      BY <1>6, <2>1, <2>2
    <2>4. Hops(h) = Hops(k)
      BY <1>9, <2>3
    <2> QED BY <1>7, <2>4
  <1>12. ASSUME NEW h \in L, NEW k \in L, recs[h].prev = 0 PROVE recs[h].sender # recs[k].receiver
    <2>1. Hops(k) + 1 \in 1..(n + 1) /\ 1 \in 1..(n + 1) /\ Hops(k) + 1 # 1
      BY <1>9, <1>10
    <2>2. recs[h].sender = full[1] /\ recs[k].receiver = full[Hops(k) + 1]
      BY <1>6, <1>9, <1>12
    <2> QED BY <1>6, <2>1, <2>2
  <1>13. Cardinality(L) <= n
    <2>1. PICK f : f = [h \in L |-> Hops(h)]
      OBVIOUS
    <2>2. \A h \in L : Hops(h) \in 1..n
      BY <1>9, <1>10
    <2>3. f \in Injection(L, 1..n)
      BY <1>7, <2>1, <2>2 DEF Injection, IsInjective
    <2>4. IsFiniteSet(1..n) /\ Cardinality(1..n) = n
      BY <1>10, FS_Interval
    <2> QED BY <2>3, <2>4, FS_Injection
  <1>14. Cardinality(L) \in Nat
    <2>1. IsFiniteSet(Ids)
      <3>1. MaxIds[mgr] \in Nat
        BY LifecycleAssumption DEF ManagersInv, BufferInv
      <3> QED BY <3>1, FS_Interval DEF Ids
    <2>2. L \in SUBSET Ids
      BY <1>8
    <2> QED BY <2>1, <2>2, FS_Subset, FS_CardinalityType
  <1>15. Cardinality(L) <= recs[i].maxHops
    BY <1>4, <1>10, <1>13, <1>14
  <1> QED BY <1>11, <1>12, <1>15 DEF L

-----------------------------------------------------------------------------
(* The managers together *)

LEMMA ManagersInit == ASSUME LifecycleInit PROVE ManagersInv
  <1>1. /\ mgr \in Managers /\ recs = [i \in Ids |-> NoRec] /\ log = <<>> /\ nextId = 0
        /\ cursor = 0 /\ readN = 0 /\ lostN = 0
        /\ effects = [i \in Ids |-> 0] /\ grants = [i \in Ids |-> 0]
    BY DEF LifecycleInit
  <1>2. MaxEventId[mgr] \in Nat /\ MaxEvents \in Nat
    BY <1>1, LifecycleAssumption
  <1>3. \A i \in Ids : recs[i] = NoRec /\ effects[i] = 0 /\ grants[i] = 0
    BY <1>1
  <1>4. recs = [i \in Ids |-> recs[i]]
    BY <1>1
  <1>5. log \in Seq(ManagerEvents) /\ Len(log) = 0 /\ DOMAIN log = {}
    BY <1>1
  <1>6. EndOfEvents(log, nextId)
    BY <1>1, <1>2, <1>5 DEF EndOfEvents
  <1>7. TellsStatus(log, recs)
    BY <1>5 DEF TellsStatus
  <1>8. Accounted(log, nextId, readN, lostN)
    <2>1. nextId = 0 /\ cursor = 0 /\ readN = 0 /\ lostN = 0
      BY <1>1
    <2>2. PICK l : l = Len(log)
      OBVIOUS
    <2>3. l = 0
      BY <1>5, <2>2
    <2>4. readN + lostN = IF cursor > nextId - l THEN cursor ELSE nextId - l
      BY <2>1, <2>3
    <2> QED BY <2>2, <2>4 DEF Accounted
  <1>9. BufferInv
    BY <1>1, <1>2, <1>4, <1>6, <1>7, <1>8 DEF BufferInv
  <1>10. RecordsInv
    BY <1>1, <1>3 DEF RecordsInv, Exists
  <1>11. ChainInv
    BY <1>1, <1>3 DEF ChainInv, Exists
  <1> QED BY <1>9, <1>10, <1>11 DEF ManagersInv

LEMMA ReadStep ==
    ASSUME ManagersInv, NEW limit \in PageLimits, Read(limit)
    PROVE  ManagersInv'
  <1>1. limit \in Nat
    BY LifecycleAssumption
  <1>2. BufferInv'
    BY <1>1, ReadKeepsBuffer DEF ManagersInv
  <1>3. UNCHANGED <<mgr, recs, log, effects, grants>>
    BY DEF Read
  <1>4. Ids' = Ids
    BY <1>3 DEF Ids
  <1>5. RecordsInv'
    BY <1>3, <1>4 DEF ManagersInv, RecordsInv, Exists
  <1>6. ChainInv'
    BY <1>3, <1>4 DEF ManagersInv, ChainInv, ChainOK, RouteOK, Visits, Exists
  <1> QED BY <1>2, <1>5, <1>6 DEF ManagersInv

LEMMA ManagersNext == ASSUME ManagersInv, [LifecycleNext]_lmVars PROVE ManagersInv'
  <1>1. CASE UNCHANGED lmVars
    <2>1. UNCHANGED <<mgr, recs, log, nextId, cursor, readN, lostN, effects, grants>>
      BY <1>1 DEF lmVars
    <2>2. Ids' = Ids
      BY <2>1 DEF Ids
    <2>3. BufferInv'
      BY <2>1, <2>2 DEF ManagersInv, BufferInv, EndOfEvents, ManagerEvents, TellsStatus, Newest,
                        Accounted
    <2>4. RecordsInv'
      BY <2>1, <2>2 DEF ManagersInv, RecordsInv, Exists
    <2>5. ChainInv'
      BY <2>1, <2>2 DEF ManagersInv, ChainInv, ChainOK, RouteOK, Visits, Exists
    <2> QED BY <2>3, <2>4, <2>5 DEF ManagersInv
  <1>2. ASSUME NEW i \in Ids,
               \/ RequestExecution(i) \/ SessionReady(i) \/ DeliverPayload(i)
               \/ StartRunning(i) \/ ReportResult(i)
               \/ \E to \in {"failed", "timeout", "cancelled"} : EndExecution(i, to)
               \/ \E j \in Ids : RetryExecution(i, j)
        PROVE  ManagersInv'
    <2>1. mgr = "execution"
      BY <1>2 DEF RequestExecution, SessionReady, DeliverPayload, StartRunning, ReportResult,
                  EndExecution, RetryExecution
    <2> QED BY <1>2, <2>1, ExecutionSteps
  <1>3. ASSUME NEW i \in Ids,
               \/ \E limit \in RetryLimits : RegisterDelivery(i, limit)
               \/ QueueDelivery(i) \/ StartDelivery(i) \/ MarkDelivered(i)
               \/ AcknowledgeDelivery(i) \/ RetryDelivery(i)
               \/ \E to \in {"failed", "timed_out"} : EndDelivery(i, to)
        PROVE  ManagersInv'
    <2>1. mgr = "delivery"
      BY <1>3 DEF RegisterDelivery, QueueDelivery, StartDelivery, MarkDelivered,
                  AcknowledgeDelivery, RetryDelivery, EndDelivery
    <2>2. RetryLimits \subseteq Nat
      BY LifecycleAssumption
    <2> QED BY <1>3, <2>1, <2>2, DeliverySteps, RegisterStep
  <1>4. ASSUME NEW i \in Ids,
               \/ CreateManagedProposal(i) \/ StartApply(i) \/ CompleteApply(i) \/ FailApply(i)
               \/ \E to \in {"blocked", "approved", "rejected"} : Decide(i, to)
        PROVE  ManagersInv'
    <2>1. mgr = "proposal"
      BY <1>4 DEF CreateManagedProposal, StartApply, CompleteApply, FailApply, Decide
    <2> QED BY <1>4, <2>1, ManagedSteps
  <1>5. ASSUME NEW i \in Ids,
               \/ RequestWake(i) \/ AcceptWake(i) \/ ResumeWake(i) \/ LaunchWake(i) \/ ReplyWake(i)
               \/ \E to \in {"failed", "unreachable"} : EndWake(i, to)
        PROVE  ManagersInv'
    <2>1. mgr = "wake"
      BY <1>5 DEF RequestWake, AcceptWake, ResumeWake, LaunchWake, ReplyWake, EndWake
    <2> QED BY <1>5, <2>1, WakeSteps
  <1>6. ASSUME \/ CreateRoom \/ CloseRoom
               \/ \E i \in Ids :
                     \/ Invite(i)
                     \/ \E to \in {"joined", "speaking", "blocked", "left", "done"} :
                           MoveParticipant(i, to)
        PROVE  ManagersInv'
    <2>1. mgr = "conference"
      BY <1>6 DEF CreateRoom, CloseRoom, Invite, MoveParticipant
    <2> QED BY <1>6, <2>1, RoomSteps
  <1>7. ASSUME NEW i \in Ids,
               \/ \E limit \in HopLimits, trouble \in Troubles :
                     RecordHandoff(i, "first", 0, trouble, limit)
               \/ \E why \in {"hop", "retry", "again"}, of \in Ids : \E trouble \in
                     IF why = "hop" THEN Troubles ELSE {"none"} :
                     RecordHandoff(i, why, of, trouble, 0)
        PROVE  ManagersInv'
    <2>1. mgr = "handoff"
      BY <1>7 DEF RecordHandoff
    <2>2. HopLimits \subseteq Nat /\ 0 \in Nat
      BY LifecycleAssumption
    <2> QED BY <1>7, <2>1, <2>2, HandoffRecorded
  <1>8. ASSUME NEW i \in Ids,
               \/ \E to \in DOMAIN HandoffMoves : \E kind \in FailureKinds(to) :
                     TransitionPhase(i, to, kind)
               \/ Seal(i)
        PROVE  ManagersInv'
    <2>1. mgr = "handoff"
      BY <1>8 DEF TransitionPhase, Seal
    <2> QED BY <1>8, <2>1, PhaseStep, SealStep
  <1>9. CASE LifecycleNext
    BY <1>2, <1>3, <1>4, <1>5, <1>6, <1>7, <1>8, <1>9, ReadStep, Zenon DEF LifecycleNext
  <1> QED BY <1>1, <1>9

LEMMA ManagersEffects == ManagersInv => EffectsGranted /\ SendsBounded
  <1> SUFFICES ASSUME ManagersInv PROVE EffectsGranted /\ SendsBounded
    OBVIOUS
  <1>1. ASSUME NEW i \in Ids, Exists(i), mgr # "conference" PROVE effects[i] <= grants[i]
    BY <1>1, RecordFacts DEF RecordOK, RunOK, DeliveryOK, ManagedOK, WakeOK, HandoffOK
  <1>2. ASSUME NEW i \in Ids, Exists(i), mgr = "conference"
        PROVE  effects[i] = Cardinality(recs[i].index)
    BY <1>2, RecordFacts DEF RecordOK, RoomOK
  <1>3. \A i \in Ids : ~Exists(i) => effects[i] <= grants[i]
    BY RecordFacts
  <1>4. EffectsGranted
    BY <1>1, <1>2, <1>3 DEF EffectsGranted
  <1>5. ASSUME mgr = "delivery", NEW i \in Ids, Exists(i)
        PROVE  /\ effects[i] <= (IF recs[i].maxRetries > 0 THEN recs[i].maxRetries ELSE 1)
               /\ recs[i].failure = "max_retries_exceeded" =>
                     DeliveryCloseout(recs[i]) = "max_retries_exceeded"
    <2>1. DeliveryOK(recs[i], effects[i], grants[i]) /\ effects[i] \in Nat /\ grants[i] \in Nat
      BY <1>5, RecordFacts DEF RecordOK
    <2>2. recs[i].maxRetries \in Nat
      BY <2>1 DEF DeliveryOK, DeliveryRecords
    <2>3. effects[i] <= grants[i]
          /\ grants[i] <= (IF recs[i].maxRetries > 0 THEN recs[i].maxRetries ELSE 1)
      BY <2>1 DEF DeliveryOK
    <2>4. recs[i].failure = "max_retries_exceeded" =>
             recs[i].status = "timed_out" /\ recs[i].attempt > recs[i].maxRetries
      BY <2>1 DEF DeliveryOK
    <2>5. effects[i] <= (IF recs[i].maxRetries > 0 THEN recs[i].maxRetries ELSE 1)
      BY <2>1, <2>2, <2>3
    <2> QED BY <2>4, <2>5 DEF DeliveryCloseout
  <1>6. SendsBounded
    BY <1>5 DEF SendsBounded
  <1> QED BY <1>4, <1>6

LEMMA ManagersTell == ManagersInv => RecordsTell
  <1> SUFFICES ASSUME ManagersInv PROVE RecordsTell
    OBVIOUS
  <1> DEFINE b == Len(log)
             base == nextId - b
  <1>1. /\ mgr \in Managers /\ nextId \in 0..MaxEventId[mgr] /\ cursor \in 0..nextId
        /\ MaxEventId[mgr] \in Nat
    BY LifecycleAssumption DEF ManagersInv, BufferInv
  <1>2. /\ log \in Seq(ManagerEvents) /\ b <= MaxEvents /\ b <= nextId
        /\ \A k \in DOMAIN log : log[k].id = base + k
    BY DEF ManagersInv, BufferInv, EndOfEvents
  <1>3. b \in Nat /\ DOMAIN log = 1..b
    BY <1>2
  <1>4. readN + lostN = IF cursor > base THEN cursor ELSE base
    BY DEF ManagersInv, BufferInv, Accounted
  <1>5. base \in Nat
    BY <1>1, <1>2, <1>3
  <1>6. ASSUME NEW i \in Ids
        PROVE  recs[i].status \in {"absent", "active", "closed"} \cup DOMAIN Moves[mgr]
    <2>1. CASE ~Exists(i)
      BY <2>1 DEF Exists, NoRec
    <2>2. CASE Exists(i)
      <3>1. RecordOK(mgr, i, recs[i], effects[i], grants[i])
        BY <2>2, RecordFacts
      <3>2. CASE mgr = "execution" /\ RunOK(recs[i], effects[i], grants[i])
        BY <3>2 DEF RunOK, RunRecords, Moves
      <3>3. CASE mgr = "delivery" /\ DeliveryOK(recs[i], effects[i], grants[i])
        BY <3>3 DEF DeliveryOK, DeliveryRecords, Moves
      <3>4. CASE mgr = "proposal" /\ ManagedOK(recs[i], effects[i], grants[i])
        BY <3>4 DEF ManagedOK, ProposalRecords, Moves
      <3>5. CASE mgr = "wake" /\ WakeOK(recs[i], effects[i], grants[i])
        BY <3>5 DEF WakeOK, WakeRecords, Moves
      <3>6. CASE mgr = "conference" /\ RoomOK(i, recs[i], effects[i])
        BY <3>6 DEF RoomOK, RoomRecords, RoomKinds, Moves
      <3>7. CASE mgr = "handoff" /\ HandoffOK(recs[i], effects[i], grants[i])
        BY <3>7 DEF HandoffOK, HandoffRecords, Moves
      <3> QED BY <3>1, <3>2, <3>3, <3>4, <3>5, <3>6, <3>7 DEF RecordOK
    <2> QED BY <2>1, <2>2
  <1>7. LifecycleTypeOK
    BY <1>1, <1>2, <1>6 DEF LifecycleTypeOK
  <1> HIDE DEF b, base
  <1>8. ASSUME NEW k \in DOMAIN log, NEW j \in DOMAIN log, j < k PROVE log[j].id < log[k].id
    <2>1. log[j].id = base + j /\ log[k].id = base + k /\ j \in Nat /\ k \in Nat
      BY <1>2, <1>3
    <2> QED BY <1>5, <1>8, <2>1
  <1>9. LastEventTellsStatus
    BY <1>8 DEF LastEventTellsStatus, ManagersInv, BufferInv, TellsStatus, Newest
  <1>10. ASSUME log # <<>>, cursor >= log[1].id - 1 PROVE readN + lostN = cursor
    <2>1. b # 0
      BY <1>2, <1>10, EmptySeq DEF b
    <2>2. 1 \in DOMAIN log
      BY <1>3, <2>1
    <2>3. log[1].id = base + 1
      BY <1>2, <2>2
    <2>4. cursor \in Nat
      BY <1>1
    <2>5. PICK x : x = log[1].id
      OBVIOUS
    <2>6. x = base + 1 /\ cursor >= x - 1
      BY <1>10, <2>3, <2>5
    <2> QED BY <1>4, <1>5, <2>4, <2>6
  <1>11. ReadOnceOrEvicted
    BY <1>10 DEF ReadOnceOrEvicted
  <1>12. SealAgrees
    BY HandoffFacts DEF SealAgrees, HandoffOK
  <1> QED BY <1>7, <1>9, <1>11, <1>12 DEF RecordsTell

(* Whatever the managers, limits, nodes and interleavings: a run delivers  *)
(* its payload once, a delivery is sent at most maxRetries times, a        *)
(* proposal is applied once per approval, a session runs once per accepted *)
(* wake, a room announces each status of a participant once, and the       *)
(* handoffs that brought a task to a node never visit a node twice and     *)
(* are at most maxHops.                                                    *)
THEOREM EffectsBoundedHolds == LifecycleSpec => []EffectsBounded
  <1>1. LifecycleInit => ManagersInv
    BY ManagersInit
  <1>2. ManagersInv /\ [LifecycleNext]_lmVars => ManagersInv'
    BY ManagersNext
  <1>3. ManagersInv => EffectsBounded
    BY ManagersEffects, ManagersLineage DEF EffectsBounded
  <1> QED BY <1>1, <1>2, <1>3, PTL DEF LifecycleSpec

(* What is written down about a record is what became of it: the newest    *)
(* event the bounded buffer has of a record is that of its status, a       *)
(* reader gets every event it was not too late for exactly once, and a     *)
(* ledger entry is the handoff's outcome or "partial".                     *)
THEOREM RecordsTellHolds == LifecycleSpec => []RecordsTell
  <1>1. LifecycleInit => ManagersInv
    BY ManagersInit
  <1>2. ManagersInv /\ [LifecycleNext]_lmVars => ManagersInv'
    BY ManagersNext
  <1>3. ManagersInv => RecordsTell
    BY ManagersTell
  <1> QED BY <1>1, <1>2, <1>3, PTL DEF LifecycleSpec
=============================================================================
