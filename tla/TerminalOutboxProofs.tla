------------------------ MODULE TerminalOutboxProofs ------------------------
(***************************************************************************)
(* Proofs about the terminal task outbox: the outbox and the list of ids   *)
(* seen mirror the end of the log, from which the dedupe window, the       *)
(* numerators, the acknowledgements and the notifier's cursor follow.      *)
(***************************************************************************)
EXTENDS TerminalOutbox, FiniteSetTheorems, SequenceTheorems, WellFoundedInduction, TLAPS

LEMMA LeastNatural ==
    ASSUME NEW T \in SUBSET Nat, T # {}
    PROVE  \E x \in T : \A y \in T : x <= y
  <1>1. IsWellFoundedOn(OpToRel(<, Nat), Nat)
    BY NatLessThanWellFounded
  <1>2. PICK x \in T : \A y \in T : ~(<<y, x>> \in OpToRel(<, Nat))
    BY <1>1, WFMin
  <1>3. \A y \in T : ~ (y < x)
    BY <1>2 DEF OpToRel
  <1> QED BY <1>3

LEMMA MaxOfPlaces ==
    ASSUME NEW n \in Nat, NEW I \in SUBSET (1..n), I # {}
    PROVE  Max(I) \in I /\ \A i \in I : i <= Max(I)
  <1> DEFINE B == {b \in Nat : \A i \in I : i <= b}
  <1>1. n \in B
    OBVIOUS
  <1>2. PICK b \in B : \A c \in B : b <= c
    BY <1>1, LeastNatural
  <1>3. b \in I
    <2>1. SUFFICES ASSUME b \notin I PROVE FALSE
      OBVIOUS
    <2>2. PICK i \in I : TRUE
      OBVIOUS
    <2>3. b >= 1 /\ b - 1 \in Nat
      BY <2>2
    <2>4. b - 1 \in B
      BY <2>1, <2>3
    <2> QED BY <1>2, <2>3, <2>4
  <1>4. \E x \in I : \A y \in I : x >= y
    BY <1>3
  <1> QED BY <1>4 DEF Max

(* The newest n elements of a sequence, place by place.                    *)
LEMMA NewestFacts ==
    ASSUME NEW D, NEW s \in Seq(D), NEW n \in Nat \ {0}
    PROVE  /\ Newest(n, s) \in Seq(D)
           /\ Len(Newest(n, s)) = IF Len(s) > n THEN n ELSE Len(s)
           /\ DOMAIN Newest(n, s) = 1..Len(Newest(n, s))
           /\ \A i \in 1..Len(Newest(n, s)) :
                 /\ Len(s) - Len(Newest(n, s)) + i \in 1..Len(s)
                 /\ Newest(n, s)[i] = s[Len(s) - Len(Newest(n, s)) + i]
  <1> DEFINE k == Len(s)
             m == IF k > n THEN k - n + 1 ELSE 1
             r == SubSeq(s, m, k)
  <1>1. k \in Nat /\ DOMAIN s = 1..k
    OBVIOUS
  <1>2. Newest(n, s) = r /\ Len(s) = k
    BY DEF Newest
  <1>3. \A i \in m..k : s[i] \in D
    BY <1>1
  <1> HIDE DEF k
  <1>4. m \in 1..(k + 1) /\ m \in Int /\ k \in Int
    BY <1>1
  <1>5. r \in Seq(D)
    BY <1>3, <1>4, SubSeqProperties
  <1>6. Len(r) = IF k > n THEN n ELSE k
    BY <1>1, <1>4, SubSeqProperties
  <1>7. \A i \in 1..(k - m + 1) : r[i] = s[m + i - 1]
    BY <1>4, SubSeqProperties
  <1>8. DOMAIN r = 1..Len(r)
    BY <1>5
  <1> DEFINE x == Len(r)
  <1>9. x = k - m + 1 /\ x \in Nat /\ DOMAIN r = 1..x /\ Len(r) = x
    BY <1>1, <1>6, <1>8
  <1> HIDE DEF r, m, x
  <1>10. \A i \in 1..x : k - x + i \in 1..k /\ r[i] = s[k - x + i]
    BY <1>1, <1>4, <1>7, <1>9
  <1> QED BY <1>2, <1>5, <1>6, <1>9, <1>10

LEMMA AppendFacts ==
    ASSUME NEW D, NEW s \in Seq(D), NEW e \in D
    PROVE  /\ Append(s, e) \in Seq(D) /\ Len(Append(s, e)) = Len(s) + 1
           /\ DOMAIN Append(s, e) = 1..(Len(s) + 1)
           /\ \A i \in 1..Len(s) : Append(s, e)[i] = s[i]
           /\ Append(s, e)[Len(s) + 1] = e
  OBVIOUS

LEMMA IdTypes ==
    /\ \A t \in Tasks, s \in Statuses : TaskEventId(t, s) \in EventId
    /\ \A c \in Lanes, s \in Statuses : ProjectionId(c, s) \in EventId
    /\ Tasks \subseteq Child
    /\ \A c \in Lanes : Canonical(c) \in Child
  BY DEF EventId, Child

-----------------------------------------------------------------------------
(* The inductive invariant.                                                *)

LogEntry == [lane: Tasks \cup Lanes, id: EventId, run: Rounds \cup {None}, child: Child,
             status: Statuses]

LogTyped == log \in Seq(LogEntry) /\ boot \in 0..Len(log)

(* The child, the status and the round of what is announced follow from    *)
(* its id.                                                                 *)
Told(x) ==
    /\ x.child = x.id.of /\ x.status = x.id.status
    /\ x.run = IF x.id.source = "task" THEN RunOf[x.id.of] ELSE x.id.round

AllTold == (\A i \in DOMAIN log : Told(log[i])) /\ (\A i \in DOMAIN events : Told(events[i]))

(* The outbox is the end of the log, as long as its limit allows.          *)
EventsMirror ==
    /\ Len(events) = IF Len(log) > MaxEvents THEN MaxEvents ELSE Len(log)
    /\ \A i \in DOMAIN events : events[i].id = log[Len(log) - Len(events) + i].id

(* So is the list of ids seen; since the last start it forgot only what    *)
(* its own limit made it forget.                                           *)
SeenMirror ==
    /\ Len(seenOrder) <= Len(log)
    /\ Len(seenOrder) >= Len(log) - boot \/ Len(seenOrder) = MaxSeen
    /\ \A i \in DOMAIN seenOrder : seenOrder[i] = log[Len(log) - Len(seenOrder) + i].id

CountedInv ==
    \A r \in Rounds :
        /\ counted[r] \subseteq Succeeded(r)
        /\ \A i \in DOMAIN events : events[i].run = r /\ events[i].status = "succeeded"
                                       => events[i].child \in counted[r]

HandedWereSent == handed \subseteq IdsOf(log) /\ (cursor \in handed \/ cursor = None)

OInv ==
    /\ TypeOK /\ LogTyped /\ AllTold /\ EventsMirror /\ SeenMirror /\ DedupeWindow
    /\ CountedInv /\ HandedWereSent

LEMMA Limits2 == MaxEvents \in Nat \ {0} /\ MaxSeen \in Nat \ {0} /\ MaxSeen >= MaxEvents
  BY OutboxAssumption DEF MaxSeen

(* Ids are unique in the outbox.                                           *)
LEMMA UniqueIds ==
    ASSUME OInv
    PROVE  \A i, j \in DOMAIN events : events[i].id = events[j].id => i = j
  <1> DEFINE n == Len(events)
             k == Len(log)
  <1>1. /\ n \in Nat /\ k \in Nat /\ DOMAIN events = 1..n /\ DOMAIN log = 1..k
        /\ n <= k /\ n <= MaxEvents
    BY Limits2 DEF OInv, TypeOK, LogTyped, EventsMirror
  <1>2. \A i \in 1..n : events[i].id = log[k - n + i].id
    BY <1>1 DEF OInv, EventsMirror
  <1> HIDE DEF n, k
  <1>3. ASSUME NEW i \in 1..n, NEW j \in 1..n, events[i].id = events[j].id, i < j
        PROVE  FALSE
    <2>1. k - n + i \in 1..k /\ k - n + j \in 1..k /\ k - n + i < k - n + j
      BY <1>1, <1>3
    <2>2. (k - n + j) - (k - n + i) > MaxEvents
      BY <1>1, <1>2, <1>3, <2>1 DEF OInv, DedupeWindow
    <2> QED BY <1>1, <2>2, Limits2
  <1>4. ASSUME NEW i \in 1..n, NEW j \in 1..n, events[i].id = events[j].id
        PROVE  i = j
    BY <1>3, <1>4
  <1> QED BY <1>1, <1>4

(* indexOfId finds the one place of an id that the outbox has.             *)
LEMMA IndexFacts ==
    ASSUME OInv, NEW id
    PROVE  /\ IndexOfId(id) \in 0..Len(events)
           /\ IndexOfId(id) # 0 => events[IndexOfId(id)].id = id
           /\ \A i \in DOMAIN events : events[i].id = id => IndexOfId(id) = i
  <1> DEFINE n == Len(events)
             I == {i \in 1..n : events[i].id = id}
  <1>1. n \in Nat /\ DOMAIN events = 1..n
    BY DEF OInv, TypeOK
  <1>2. IndexOfId(id) = IF I # {} THEN Min(I) ELSE 0
    BY DEF IndexOfId, SelectInSeq
  <1>3. \A i, j \in I : i = j
    BY <1>1, UniqueIds
  <1>4. ASSUME NEW i \in I PROVE Min(I) = i
    <2>1. \A x \in I : x = i
      BY <1>3
    <2>2. i \in I /\ i <= i
      OBVIOUS
    <2> HIDE DEF I
    <2> QED BY <2>1, <2>2 DEF Min
  <1> QED BY <1>1, <1>2, <1>4

-----------------------------------------------------------------------------
(* Enqueueing.                                                             *)

CountedAnew(C, run, child, status) ==
    /\ C \in [Rounds -> SUBSET Child]
    /\ Numerator(C, run) \in Nat
    /\ \A r \in Rounds : C[r] \subseteq counted[r] \cup
          (IF run = r /\ status = "succeeded" THEN {child} ELSE {})
    /\ \A r \in Rounds : counted[r] \subseteq C[r]
    /\ run \in Rounds \ {None} /\ status = "succeeded" => child \in C[run]

LEMMA CountFacts ==
    ASSUME OInv, NEW run \in Rounds \cup {None}, NEW child \in Child, NEW status
    PROVE  CountedAnew(Count(counted, run, child, status), run, child, status)
  <1> DEFINE C == Count(counted, run, child, status)
  <1>1. counted \in [Rounds -> SUBSET Child]
    BY DEF OInv, TypeOK
  <1>2. C \in [Rounds -> SUBSET Child]
    BY <1>1 DEF Count
  <1>3. /\ \A r \in Rounds : C[r] \subseteq counted[r] \cup
                    (IF run = r /\ status = "succeeded" THEN {child} ELSE {})
        /\ \A r \in Rounds : counted[r] \subseteq C[r]
        /\ run \in Rounds \ {None} /\ status = "succeeded" => child \in C[run]
    BY <1>1 DEF Count
  <1> HIDE DEF C
  <1>4. Numerator(C, run) \in Nat
    <2>1. CASE run = None
      BY <2>1 DEF Numerator
    <2>2. CASE run # None
      <3>1. C[run] \in SUBSET Child
        BY <1>2, <2>2
      <3>2. IsFiniteSet(C[run])
        BY <3>1, NamesAssumption, FS_Subset
      <3> QED BY <2>2, <3>2, FS_CardinalityType DEF Numerator
    <2> QED BY <2>1, <2>2
  <1> QED BY <1>2, <1>3, <1>4 DEF C, CountedAnew

(* The newest n places of a sequence that grew by one: the new element is  *)
(* the last, the others are where they were or one place further on.       *)
Grown(D, s, e, max, r) ==
    LET d == Len(s) + 1 - Len(r)
    IN /\ r \in Seq(D) /\ DOMAIN r = 1..Len(r)
       /\ Len(r) = IF Len(s) + 1 > max THEN max ELSE Len(s) + 1
       /\ r[Len(r)] = e
       /\ \A i \in 1..(Len(r) - 1) : i + d \in 1..Len(s) /\ r[i] = s[i + d]

LEMMA GrowFacts ==
    ASSUME NEW D, NEW s \in Seq(D), NEW e \in D, NEW max \in Nat \ {0}, Len(s) <= max
    PROVE  Grown(D, s, e, max, Newest(max, Append(s, e)))
  <1> DEFINE a == Append(s, e)
             n == Len(s)
             r == Newest(max, a)
             x == Len(r)
  <1>1. /\ a \in Seq(D) /\ Len(a) = n + 1 /\ \A i \in 1..n : a[i] = s[i]
        /\ a[n + 1] = e /\ n \in Nat
    BY AppendFacts
  <1> HIDE DEF a, n
  <1>2. /\ r \in Seq(D) /\ DOMAIN r = 1..x
        /\ x = IF n + 1 > max THEN max ELSE n + 1
        /\ \A i \in 1..x : r[i] = a[n + 1 - x + i]
    <2>1. /\ r \in Seq(D) /\ DOMAIN r = 1..x
          /\ x = IF Len(a) > max THEN max ELSE Len(a)
          /\ \A i \in 1..x : Len(a) - x + i \in 1..Len(a) /\ r[i] = a[Len(a) - x + i]
      BY <1>1, NewestFacts
    <2> HIDE DEF r, x
    <2> QED BY <1>1, <2>1
  <1> HIDE DEF r
  <1>3. n <= max
    BY DEF n
  <1>4. n + 1 - x \in {0, 1} /\ x \in 1..(n + 1)
    BY <1>1, <1>2, <1>3
  <1> HIDE DEF x
  <1>5. r[x] = e
    BY <1>1, <1>2, <1>4
  <1>6. ASSUME NEW i \in 1..(x - 1)
        PROVE  i + (n + 1 - x) \in 1..n /\ r[i] = s[i + (n + 1 - x)]
    <2> DEFINE j == i + (n + 1 - x)
    <2>1. i \in 1..x /\ j \in 1..n /\ n + 1 - x + i = j
      BY <1>1, <1>4
    <2>2. r[i] = a[n + 1 - x + i]
      BY <1>2, <2>1
    <2> HIDE DEF j
    <2>3. r[i] = s[j]
      BY <1>1, <2>1, <2>2
    <2> QED BY <2>1, <2>3 DEF j
  <1> QED BY <1>2, <1>5, <1>6 DEF a, n, r, x, Grown

(* What Enqueue does for an id that is not known.                          *)
LEMMA EnqueueFacts ==
    ASSUME OInv, NEW lane \in Tasks \cup Lanes, NEW id \in EventId,
           NEW run \in Rounds \cup {None}, NEW child \in Child, NEW status \in Statuses,
           Enqueue(lane, id, run, child, status), ~Known(id)
    PROVE  LET C == Count(counted, run, child, status)
               entry == [lane |-> lane, id |-> id, run |-> run, child |-> child,
                         status |-> status]
           IN /\ counted' = C
              /\ Grown(Event, events, NewEvent(C, id, run, child, status), MaxEvents, events')
              /\ Grown(EventId, seenOrder, id, MaxSeen, seenOrder')
              /\ log' = Append(log, entry) /\ entry \in LogEntry
  <1> DEFINE C == Count(counted, run, child, status)
             e == NewEvent(C, id, run, child, status)
             entry == [lane |-> lane, id |-> id, run |-> run, child |-> child,
                       status |-> status]
  <1>1. /\ counted' = C /\ events' = Newest(MaxEvents, Append(events, e))
        /\ seenOrder' = Newest(MaxSeen, Append(seenOrder, id))
        /\ log' = Append(log, entry)
    BY DEF Enqueue
  <1>2. Numerator(C, run) \in Nat
    BY CountFacts DEF CountedAnew
  <1> HIDE DEF C
  <1>3. e \in Event
    BY <1>2 DEF NewEvent, Event, Receipt
  <1>4. entry \in LogEntry
    BY DEF LogEntry
  <1>5. /\ events \in Seq(Event) /\ seenOrder \in Seq(EventId) /\ log \in Seq(LogEntry)
        /\ Len(events) <= MaxEvents /\ Len(seenOrder) <= MaxSeen
    BY DEF OInv, TypeOK, LogTyped
  <1> HIDE DEF e
  <1>6. Grown(Event, events, e, MaxEvents, events')
    BY <1>1, <1>3, <1>5, Limits2, GrowFacts
  <1>7. Grown(EventId, seenOrder, id, MaxSeen, seenOrder')
    BY <1>1, <1>5, Limits2, GrowFacts
  <1> QED BY <1>1, <1>4, <1>6, <1>7 DEF e, C

(* An id that is not known was last enqueued more than MaxEvents entries   *)
(* ago, and before the last start or more than MaxSeen entries ago.        *)
LEMMA UnknownIsOld ==
    ASSUME OInv, NEW id, ~Known(id), NEW i \in DOMAIN log, log[i].id = id
    PROVE  /\ i <= Len(log) - MaxEvents
           /\ i <= boot \/ i <= Len(log) - MaxSeen
  <1> DEFINE n == Len(events)
             m == Len(seenOrder)
             k == Len(log)
  <1>1. /\ n \in Nat /\ m \in Nat /\ k \in Nat /\ i \in 1..k
        /\ DOMAIN events = 1..n /\ DOMAIN seenOrder = 1..m /\ boot \in 0..k
    BY DEF OInv, TypeOK, LogTyped
  <1>2. /\ n = IF k > MaxEvents THEN MaxEvents ELSE k
        /\ \A j \in 1..n : events[j].id = log[k - n + j].id
        /\ m <= k /\ (m >= k - boot \/ m = MaxSeen)
        /\ \A j \in 1..m : seenOrder[j] = log[k - m + j].id
    BY <1>1 DEF OInv, EventsMirror, SeenMirror
  <1>3. (\A j \in 1..n : events[j].id # id) /\ (\A j \in 1..m : seenOrder[j] # id)
    BY <1>1 DEF Known, IdsOf, Range
  <1> HIDE DEF n, m, k
  <1>4. i <= k - n
    <2>1. SUFFICES ASSUME i > k - n PROVE FALSE
      BY <1>1, <1>2, Limits2
    <2>2. i - (k - n) \in 1..n /\ k - n + (i - (k - n)) = i
      BY <1>1, <1>2, <2>1, Limits2
    <2> QED BY <1>2, <1>3, <2>2
  <1>5. i <= k - m
    <2>1. SUFFICES ASSUME i > k - m PROVE FALSE
      BY <1>1, <1>2
    <2>2. i - (k - m) \in 1..m /\ k - m + (i - (k - m)) = i
      BY <1>1, <1>2, <2>1
    <2> QED BY <1>2, <1>3, <2>2
  <1>6. i <= k - MaxEvents /\ (i <= boot \/ i <= k - MaxSeen)
    BY <1>1, <1>2, <1>4, <1>5, Limits2
  <1> QED BY <1>6 DEF k

LEMMA EnqueueStep ==
    ASSUME OInv, NEW lane \in Tasks \cup Lanes, NEW id \in EventId,
           NEW run \in Rounds \cup {None}, NEW child \in Child, NEW status \in Statuses,
           child = id.of, status = id.status,
           run = IF id.source = "task" THEN RunOf[id.of] ELSE id.round,
           Enqueue(lane, id, run, child, status),
           records' \in [Lanes -> Record \cup {NoRecord}],
           UNCHANGED <<cursor, held, handed, boot>>
    PROVE  OInv'
  <1>1. CASE Known(id)
    <2>1. UNCHANGED <<events, seenOrder, counted, log>>
      BY <1>1 DEF Enqueue
    <2> QED BY <2>1 DEF OInv, TypeOK, LogTyped, AllTold, EventsMirror, SeenMirror, DedupeWindow,
                        CountedInv, HandedWereSent, Succeeded, IdsOf
  <1>2. CASE ~Known(id)
    <2> DEFINE C == Count(counted, run, child, status)
               e == NewEvent(C, id, run, child, status)
               entry == [lane |-> lane, id |-> id, run |-> run, child |-> child,
                         status |-> status]
               n == Len(events)
               x == Len(events')
               m == Len(seenOrder)
               y == Len(seenOrder')
               k == Len(log)
    <2>0. /\ counted' = C /\ log' = Append(log, entry) /\ entry \in LogEntry
          /\ Grown(Event, events, e, MaxEvents, events')
          /\ Grown(EventId, seenOrder, id, MaxSeen, seenOrder')
      BY <1>2, EnqueueFacts
    <2>17. CountedAnew(C, run, child, status)
      BY CountFacts
    <2>1. /\ n \in Nat /\ m \in Nat /\ k \in Nat
          /\ DOMAIN events = 1..n /\ DOMAIN seenOrder = 1..m /\ DOMAIN log = 1..k
          /\ log \in Seq(LogEntry)
      BY DEF OInv, TypeOK, LogTyped
    <2>6. /\ e.id = id /\ e.run = run /\ e.child = child /\ e.status = status
          /\ entry.id = id /\ entry.run = run /\ entry.child = child /\ entry.status = status
      BY DEF NewEvent
    <2> HIDE DEF C, e, entry
    <2>5. /\ C \in [Rounds -> SUBSET Child]
          /\ \A r \in Rounds : C[r] \subseteq counted[r] \cup
                    (IF run = r /\ status = "succeeded" THEN {child} ELSE {})
          /\ \A r \in Rounds : counted[r] \subseteq C[r]
          /\ run \in Rounds \ {None} /\ status = "succeeded" => child \in C[run]
      BY <2>17 DEF CountedAnew
    <2>2. /\ events' \in Seq(Event) /\ DOMAIN events' = 1..x
          /\ x = IF n + 1 > MaxEvents THEN MaxEvents ELSE n + 1
          /\ events'[x] = e
          /\ \A i \in 1..(x - 1) :
                 i + (n + 1 - x) \in 1..n /\ events'[i] = events[i + (n + 1 - x)]
      BY <2>0 DEF Grown
    <2>3. /\ seenOrder' \in Seq(EventId) /\ DOMAIN seenOrder' = 1..y
          /\ y = IF m + 1 > MaxSeen THEN MaxSeen ELSE m + 1
          /\ seenOrder'[y] = id
          /\ \A i \in 1..(y - 1) :
                 i + (m + 1 - y) \in 1..m /\ seenOrder'[i] = seenOrder[i + (m + 1 - y)]
      BY <2>0 DEF Grown
    <2>4. /\ log' \in Seq(LogEntry) /\ Len(log') = k + 1 /\ DOMAIN log' = 1..(k + 1)
          /\ \A i \in 1..k : log'[i] = log[i]
          /\ log'[k + 1] = entry
      BY <2>0, <2>1, AppendFacts
    <2>7. /\ n = IF k > MaxEvents THEN MaxEvents ELSE k
          /\ \A j \in 1..n : events[j].id = log[k - n + j].id
          /\ m <= k /\ (m >= k - boot \/ m = MaxSeen) /\ m <= MaxSeen
          /\ \A j \in 1..m : seenOrder[j] = log[k - m + j].id
          /\ boot \in 0..k /\ boot' = boot
      BY <2>1 DEF OInv, EventsMirror, SeenMirror, LogTyped, TypeOK
    <2> HIDE DEF n, m, k, x, y
    <2>8. x \in 1..(n + 1) /\ y \in 1..(m + 1) /\ x <= MaxEvents /\ y <= MaxSeen
      BY <2>1, <2>2, <2>3, Limits2
    <2>9. TypeOK'
      BY <2>0, <2>2, <2>3, <2>5, <2>8 DEF OInv, TypeOK, x, y
    <2>10. LogTyped'
      BY <2>1, <2>4, <2>7 DEF LogTyped
    <2>11. AllTold'
      <3>1. Told(entry) /\ Told(e)
        BY <2>6 DEF Told
      <3>2. \A i \in 1..(k + 1) : Told(log'[i])
        <4>1. \A i \in 1..k : Told(log[i])
          BY <2>1 DEF OInv, AllTold
        <4> QED BY <2>1, <2>4, <3>1, <4>1
      <3>3. \A i \in 1..x : Told(events'[i])
        <4>1. \A i \in 1..n : Told(events[i])
          BY <2>1 DEF OInv, AllTold
        <4> QED BY <2>2, <2>8, <3>1, <4>1
      <3> QED BY <2>2, <2>4, <3>2, <3>3 DEF AllTold
    <2>12. EventsMirror'
      <3>1. x = IF k + 1 > MaxEvents THEN MaxEvents ELSE k + 1
        BY <2>1, <2>2, <2>7, Limits2
      <3>2. ASSUME NEW i \in 1..x PROVE events'[i].id = log'[k + 1 - x + i].id
        <4>1. CASE i = x
          BY <2>1, <2>2, <2>4, <2>6, <2>8, <4>1
        <4>2. CASE i # x
          <5> DEFINE j == i + (n + 1 - x)
          <5>0. i \in 1..(x - 1)
            BY <2>8, <4>2
          <5>1. j \in 1..n /\ events'[i] = events[j]
            BY <2>2, <5>0
          <5>2. k - n + j \in 1..k /\ k - n + j = k + 1 - x + i
            <6>1. n <= k /\ x \in Nat /\ i \in Nat
              BY <2>1, <2>7, <2>8, Limits2
            <6> QED BY <2>1, <5>1, <6>1
          <5> HIDE DEF j
          <5>3. log'[k + 1 - x + i] = log[k - n + j]
            BY <2>4, <5>2
          <5>4. events[j].id = log[k - n + j].id
            BY <2>7, <5>1
          <5> QED BY <5>1, <5>3, <5>4
        <4> QED BY <4>1, <4>2
      <3>3. Len(events') = x /\ Len(log') = k + 1 /\ DOMAIN events' = 1..x
        BY <2>2, <2>4 DEF x
      <3>4. \A i \in DOMAIN events' : events'[i].id = log'[Len(log') - Len(events') + i].id
        BY <2>1, <2>8, <3>2, <3>3
      <3> QED BY <3>1, <3>3, <3>4 DEF EventsMirror
    <2>13. SeenMirror'
      <3>1. y <= k + 1 /\ (y >= k + 1 - boot \/ y = MaxSeen)
        BY <2>1, <2>3, <2>7, Limits2
      <3>2. ASSUME NEW i \in 1..y PROVE seenOrder'[i] = log'[k + 1 - y + i].id
        <4>1. CASE i = y
          BY <2>1, <2>3, <2>4, <2>6, <2>8, <4>1
        <4>2. CASE i # y
          <5> DEFINE j == i + (m + 1 - y)
          <5>0. i \in 1..(y - 1)
            BY <2>8, <4>2
          <5>1. j \in 1..m /\ seenOrder'[i] = seenOrder[j]
            BY <2>3, <5>0
          <5>2. k - m + j \in 1..k /\ k - m + j = k + 1 - y + i
            <6>1. m <= k /\ y \in Nat /\ i \in Nat
              BY <2>1, <2>7, <2>8, Limits2
            <6> QED BY <2>1, <5>1, <6>1
          <5> HIDE DEF j
          <5>3. log'[k + 1 - y + i] = log[k - m + j]
            BY <2>4, <5>2
          <5>4. seenOrder[j] = log[k - m + j].id
            BY <2>7, <5>1
          <5> QED BY <5>1, <5>3, <5>4
        <4> QED BY <4>1, <4>2
      <3>3. Len(seenOrder') = y /\ Len(log') = k + 1 /\ DOMAIN seenOrder' = 1..y
        BY <2>3, <2>4 DEF y
      <3>4. \A i \in DOMAIN seenOrder' : seenOrder'[i] = log'[Len(log') - Len(seenOrder') + i].id
        BY <2>1, <2>8, <3>2, <3>3
      <3>5. Len(seenOrder') <= Len(log')
        BY <3>1, <3>3
      <3>6. Len(seenOrder') >= Len(log') - boot' \/ Len(seenOrder') = MaxSeen
        <4>1. boot' = boot /\ boot \in Nat /\ k \in Nat /\ y \in Nat
          BY <2>1, <2>7, <2>8
        <4> QED BY <3>1, <3>3, <4>1
      <3> QED BY <3>4, <3>5, <3>6 DEF SeenMirror
    <2>14. DedupeWindow'
      <3>1. ASSUME NEW i \in 1..(k + 1), NEW j \in 1..(k + 1), i < j, log'[i].id = log'[j].id
            PROVE  j - i > MaxEvents /\ (i > boot => j - i > MaxSeen)
        <4>1. i \in 1..k /\ log'[i] = log[i]
          BY <2>1, <2>4, <3>1
        <4>2. CASE j = k + 1
          <5>1. log[i].id = id
            BY <2>4, <2>6, <3>1, <4>1, <4>2
          <5>2. i <= k - MaxEvents /\ (i <= boot \/ i <= k - MaxSeen)
            BY <1>2, <2>1, <4>1, <5>1, UnknownIsOld DEF k
          <5> QED BY <2>1, <2>7, <4>1, <4>2, <5>2, Limits2
        <4>3. CASE j # k + 1
          <5>1. j \in 1..k /\ log'[j] = log[j]
            BY <2>1, <2>4, <4>3
          <5> QED BY <2>1, <3>1, <4>1, <5>1 DEF OInv, DedupeWindow
        <4> QED BY <4>2, <4>3
      <3> QED BY <2>4, <2>7, <3>1 DEF DedupeWindow
    <2>15. CountedInv'
      <3> SUFFICES ASSUME NEW r \in Rounds
                   PROVE  /\ counted'[r] \subseteq Succeeded(r)'
                          /\ \A i \in DOMAIN events' :
                                events'[i].run = r /\ events'[i].status = "succeeded"
                                       => events'[i].child \in counted'[r]
        BY DEF CountedInv
      <3>1. Succeeded(r) \subseteq Succeeded(r)'
        BY <2>1, <2>4 DEF Succeeded
      <3>2. run = r /\ status = "succeeded" => child \in Succeeded(r)'
        <4>1. k + 1 \in DOMAIN log' /\ log'[k + 1].run = run /\ log'[k + 1].status = status
              /\ log'[k + 1].child = child
          BY <2>1, <2>4, <2>6
        <4> QED BY <4>1 DEF Succeeded
      <3>3. counted'[r] \subseteq Succeeded(r)'
        BY <2>0, <2>5, <3>1, <3>2 DEF OInv, CountedInv
      <3>4. ASSUME NEW i \in 1..x, events'[i].run = r, events'[i].status = "succeeded"
            PROVE  events'[i].child \in counted'[r]
        <4>1. CASE i = x
          BY <2>0, <2>2, <2>5, <2>6, <3>4, <4>1, OutboxAssumption
        <4>2. CASE i # x
          <5> DEFINE j == i + (n + 1 - x)
          <5>0. i \in 1..(x - 1)
            BY <2>8, <4>2
          <5>1. j \in DOMAIN events /\ events'[i] = events[j]
            BY <2>1, <2>2, <5>0
          <5> HIDE DEF j
          <5>2. events[j].child \in counted[r]
            BY <3>4, <5>1 DEF OInv, CountedInv
          <5> QED BY <2>0, <2>5, <5>1, <5>2
        <4> QED BY <4>1, <4>2
      <3> QED BY <2>2, <3>3, <3>4
    <2>16. HandedWereSent'
      BY <2>1, <2>4 DEF OInv, HandedWereSent, IdsOf
    <2> QED BY <2>9, <2>10, <2>11, <2>12, <2>13, <2>14, <2>15, <2>16 DEF OInv
  <1> QED BY <1>1, <1>2

LEMMA FinishTaskStep ==
    ASSUME OInv, NEW t \in Tasks, NEW status \in Statuses, FinishTask(t, status)
    PROVE  OInv'
  <1> DEFINE id == TaskEventId(t, status)
  <1>1. /\ Enqueue(t, id, RunOf[t], t, status)
        /\ UNCHANGED <<records, cursor, held, handed, boot>>
    BY DEF FinishTask
  <1>2. /\ id \in EventId /\ id.of = t /\ id.status = status /\ id.source = "task"
        /\ RunOf[t] \in Rounds \cup {None} /\ t \in Child
    BY IdTypes, OutboxAssumption DEF TaskEventId
  <1>3. records' \in [Lanes -> Record \cup {NoRecord}]
    BY <1>1 DEF OInv, TypeOK
  <1> HIDE DEF id
  <1>4. RunOf[t] = IF id.source = "task" THEN RunOf[id.of] ELSE id.round
    BY <1>2
  <1> QED BY <1>1, <1>2, <1>3, <1>4, EnqueueStep

LEMMA IngestStep ==
    ASSUME OInv, NEW c \in Lanes, NEW status \in Statuses, NEW at \in Times,
           Ingest(c, status, at)
    PROVE  OInv'
  <1>1. records \in [Lanes -> Record \cup {NoRecord}]
    BY DEF OInv, TypeOK
  <1>2. CASE /\ records[c].status = status /\ records[c].at = at
             /\ records' = [records EXCEPT ![c].ack = "duplicate_replay"]
             /\ UNCHANGED <<events, seenOrder, counted, log, cursor, held, handed, boot>>
    <2> DEFINE q == [records[c] EXCEPT !.ack = "duplicate_replay"]
    <2>1. records' = [records EXCEPT ![c] = q]
      BY <1>1, <1>2
    <2>2. records[c] \in Record \cup {NoRecord}
      BY <1>1
    <2>3. q \in Record
      BY <1>2, <2>2 DEF Record, NoRecord
    <2> HIDE DEF q
    <2>4. records' \in [Lanes -> Record \cup {NoRecord}]
      BY <1>1, <2>1, <2>3
    <2> QED BY <1>2, <2>4 DEF OInv, TypeOK, LogTyped, AllTold, EventsMirror, SeenMirror,
                        DedupeWindow, CountedInv, HandedWereSent, Succeeded, IdsOf
  <1>3. CASE /\ records' = [records EXCEPT ![c] =
                         [status |-> status, at |-> at, ack |-> "accepted"]]
             /\ Enqueue(c, ProjectionId(c, status), RoundOf[c], Canonical(c), status)
             /\ UNCHANGED <<cursor, held, handed, boot>>
    <2> DEFINE id == ProjectionId(c, status)
               q == [status |-> status, at |-> at, ack |-> "accepted"]
    <2>1. q \in Record
      BY DEF Record
    <2>2. records' \in [Lanes -> Record \cup {NoRecord}]
      <3>1. records' = [records EXCEPT ![c] = q]
        BY <1>3
      <3> HIDE DEF q
      <3> QED BY <1>1, <2>1, <3>1
    <2>3. /\ id \in EventId /\ id.of = Canonical(c) /\ id.status = status
          /\ id.source = "projection" /\ id.round = RoundOf[c]
          /\ RoundOf[c] \in Rounds \cup {None} /\ Canonical(c) \in Child
      BY IdTypes, OutboxAssumption DEF ProjectionId
    <2>4. Enqueue(c, id, RoundOf[c], Canonical(c), status)
      BY <1>3
    <2> HIDE DEF id
    <2>5. RoundOf[c] = IF id.source = "task" THEN RunOf[id.of] ELSE id.round
      BY <2>3
    <2> QED BY <1>3, <2>2, <2>3, <2>4, <2>5, EnqueueStep
  <1> QED BY <1>2, <1>3 DEF Ingest

-----------------------------------------------------------------------------
(* Steps that change events in place.                                      *)

InPlace ==
    /\ events' \in Seq(Event) /\ Len(events') = Len(events) /\ DOMAIN events' = DOMAIN events
    /\ \A i \in DOMAIN events :
          /\ events'[i].id = events[i].id /\ events'[i].run = events[i].run
          /\ events'[i].child = events[i].child /\ events'[i].status = events[i].status

LEMMA InPlaceStep ==
    ASSUME OInv, InPlace, UNCHANGED <<records, seenOrder, counted, log, boot>>,
           held' \subseteq EventId, handed' \subseteq EventId, handed' \subseteq IdsOf(log),
           cursor' \in handed' \/ cursor' = None
    PROVE  OInv'
  <1>1. TypeOK'
    BY DEF OInv, InPlace, TypeOK
  <1>2. LogTyped' /\ DedupeWindow' /\ SeenMirror' /\ HandedWereSent'
    BY DEF OInv, LogTyped, DedupeWindow, SeenMirror, HandedWereSent, IdsOf
  <1>3. AllTold'
    BY DEF OInv, InPlace, AllTold, Told
  <1>4. EventsMirror'
    BY DEF OInv, InPlace, EventsMirror
  <1>5. CountedInv'
    BY DEF OInv, InPlace, CountedInv, Succeeded
  <1> QED BY <1>1, <1>2, <1>3, <1>4, <1>5 DEF OInv

LEMMA UpdateInPlace ==
    ASSUME OInv, NEW i \in DOMAIN events, NEW e \in Event, UpdateEvent(e),
           e.id = events[i].id, e.run = events[i].run, e.child = events[i].child,
           e.status = events[i].status
    PROVE  InPlace
  <1> DEFINE n == Len(events)
  <1>1. /\ n \in Nat /\ DOMAIN events = 1..n /\ \A j \in 1..n : events[j] \in Event
        /\ events' = [j \in 1..n |-> IF events[j].id = e.id THEN e ELSE events[j]]
    BY DEF OInv, TypeOK, UpdateEvent
  <1> HIDE DEF n
  <1>2. events' \in [1..n -> Event] /\ DOMAIN events' = 1..n
    BY <1>1
  <1>3. events' \in Seq(Event) /\ Len(events') = n
    BY <1>1, <1>2
  <1>4. ASSUME NEW j \in 1..n
        PROVE  /\ events'[j].id = events[j].id /\ events'[j].run = events[j].run
               /\ events'[j].child = events[j].child /\ events'[j].status = events[j].status
    <2>1. events[j].id = e.id => j = i
      BY <1>1, UniqueIds
    <2> QED BY <1>1, <2>1
  <1> QED BY <1>1, <1>2, <1>3, <1>4 DEF InPlace, n

LEMMA AcknowledgeStep ==
    ASSUME OInv, NEW id \in held, NEW evidence \in Evidences, Acknowledge(id, evidence)
    PROVE  InPlace /\ OInv'
  <1>1. PICK i \in DOMAIN events : UpdateEvent(Acked(events[i], evidence))
    BY DEF Acknowledge
  <1> DEFINE e == Acked(events[i], evidence)
  <1>2. events[i] \in Event
    BY DEF OInv, TypeOK
  <1>3. /\ e \in Event /\ e.id = events[i].id /\ e.run = events[i].run
        /\ e.child = events[i].child /\ e.status = events[i].status
    <2>1. CASE Confirmed(events[i])
      BY <1>2, <2>1 DEF Acked
    <2>2. CASE ~Confirmed(events[i])
      <3> DEFINE r == ReceiptOfAck(evidence)
      <3>1. r \in Receipt /\ evidence \in Evidence
        BY NamesAssumption DEF ReceiptOfAck, Receipt
      <3>2. e = [events[i] EXCEPT !.ack = evidence, !.receipt = r, !.decision = "confirmed"]
        BY <2>2 DEF Acked
      <3> HIDE DEF r, e
      <3> QED BY <1>2, <3>1, <3>2 DEF Event
    <2> QED BY <2>1, <2>2
  <1>4. UpdateEvent(e)
    BY <1>1
  <1> HIDE DEF e
  <1>5. InPlace
    BY <1>3, <1>4, UpdateInPlace
  <1>6. /\ UNCHANGED <<records, seenOrder, counted, log, boot>>
        /\ held' \subseteq EventId /\ handed' \subseteq EventId /\ handed' \subseteq IdsOf(log)
        /\ (cursor' \in handed' \/ cursor' = None)
    <2>1. held \subseteq EventId /\ held' \in {held, held \ {id}}
      BY DEF Acknowledge, OInv, TypeOK
    <2>2. held' \subseteq held
      BY <2>1
    <2> QED BY <2>1, <2>2 DEF Acknowledge, OInv, TypeOK, HandedWereSent
  <1> QED BY <1>5, <1>6, InPlaceStep

LEMMA RecordReceiptStep ==
    ASSUME OInv, NEW id, NEW status \in Receipts, RecordReceiptStatus(id, status)
    PROVE  InPlace /\ OInv'
  <1>1. PICK i \in DOMAIN events :
             UpdateEvent([events[i] EXCEPT !.receipt = status, !.decision = DecisionOf(status)])
    BY DEF RecordReceiptStatus
  <1> DEFINE e == [events[i] EXCEPT !.receipt = status, !.decision = DecisionOf(status)]
  <1>2. events[i] \in Event
    BY DEF OInv, TypeOK
  <1>3. /\ e \in Event /\ e.id = events[i].id /\ e.run = events[i].run
        /\ e.child = events[i].child /\ e.status = events[i].status
    <2>1. status \in Receipt /\ DecisionOf(status) \in {"pending", "eligible", "confirmed"}
      BY NamesAssumption DEF DecisionOf
    <2> QED BY <1>2, <2>1 DEF Event
  <1>4. UpdateEvent(e)
    BY <1>1
  <1> HIDE DEF e
  <1>5. InPlace
    BY <1>3, <1>4, UpdateInPlace
  <1>6. /\ UNCHANGED <<records, seenOrder, counted, log, boot>>
        /\ held' \subseteq EventId /\ handed' \subseteq EventId /\ handed' \subseteq IdsOf(log)
        /\ (cursor' \in handed' \/ cursor' = None)
    <2>1. UNCHANGED <<records, seenOrder, counted, cursor, held, handed, log, boot>>
      BY DEF RecordReceiptStatus
    <2> QED BY <2>1 DEF OInv, TypeOK, HandedWereSent
  <1> QED BY <1>5, <1>6, InPlaceStep

LEMMA EventsLogged ==
    ASSUME OInv
    PROVE  \A i \in DOMAIN events : events[i].id \in IdsOf(log) /\ events[i].id \in EventId
  <1> DEFINE n == Len(events)
             k == Len(log)
  <1>0. events \in Seq(Event) /\ log \in Seq(LogEntry)
    BY DEF OInv, TypeOK, LogTyped
  <1>1. /\ n \in Nat /\ k \in Nat /\ DOMAIN events = 1..n /\ DOMAIN log = 1..k
        /\ n <= k /\ \A i \in 1..n : events[i].id = log[k - n + i].id
    <2>1. n \in Nat /\ k \in Nat /\ DOMAIN events = 1..n /\ DOMAIN log = 1..k
      BY <1>0
    <2>2. /\ n = IF k > MaxEvents THEN MaxEvents ELSE k
          /\ \A i \in 1..n : events[i].id = log[k - n + i].id
      BY <2>1 DEF OInv, EventsMirror
    <2> HIDE DEF n, k
    <2> QED BY <2>1, <2>2, Limits2
  <1>5. \A i \in 1..n : events[i] \in Event
    BY <1>0
  <1> HIDE DEF n, k
  <1>2. \A i \in 1..n : k - n + i \in 1..k
    BY <1>1
  <1>3. \A i \in 1..n : events[i].id \in IdsOf(log)
    BY <1>1, <1>2 DEF IdsOf
  <1>4. \A i \in 1..n : events[i].id \in EventId
    BY <1>5 DEF Event
  <1> QED BY <1>1, <1>3, <1>4

LEMMA InPlaceUnchanged ==
    ASSUME OInv, events' = events
    PROVE  InPlace
  BY DEF OInv, TypeOK, InPlace

LEMMA LastIdFacts ==
    ASSUME OInv, NEW I \in SUBSET DOMAIN events, I # {}, NEW default
    PROVE  /\ Max(I) \in I /\ (\A i \in I : i <= Max(I))
           /\ LastId(I, default) = events[Max(I)].id
  <1>1. Len(events) \in Nat /\ DOMAIN events = 1..Len(events)
    BY DEF OInv, TypeOK
  <1>2. Max(I) \in I /\ \A i \in I : i <= Max(I)
    BY <1>1, MaxOfPlaces
  <1> QED BY <1>2 DEF LastId

(* A page is what comes first: whatever lies before a member is in it.     *)
LEMMA ApplyLimitFacts ==
    ASSUME OInv, NEW I \in SUBSET DOMAIN events, NEW limit \in Limits
    PROVE  /\ ApplyLimit(I, limit) \subseteq I
           /\ \A i \in ApplyLimit(I, limit) : \A j \in I : j < i => j \in ApplyLimit(I, limit)
  <1>1. ApplyLimit(I, limit) \subseteq I
    BY DEF ApplyLimit
  <1>2. ASSUME NEW i \in ApplyLimit(I, limit), NEW j \in I, j < i
        PROVE  j \in ApplyLimit(I, limit)
    <2> DEFINE before(x) == {y \in I : y < x}
    <2>1. I \subseteq Nat /\ limit \in Nat /\ IsFiniteSet(I)
      <3>1. Len(events) \in Nat /\ DOMAIN events = 1..Len(events)
        BY DEF OInv, TypeOK
      <3>2. IsFiniteSet(1..Len(events))
        BY <3>1, FS_Interval
      <3> QED BY <3>1, <3>2, FS_Subset, OutboxAssumption
    <2>2. before(j) \subseteq before(i) /\ before(i) \subseteq I
      BY <1>1, <1>2, <2>1
    <2>3. Cardinality(before(i)) < limit
      BY <1>2 DEF ApplyLimit
    <2>4. before(i) \in SUBSET I /\ before(j) \in SUBSET before(i)
      BY <2>2
    <2> HIDE DEF before
    <2>5. /\ IsFiniteSet(before(i)) /\ IsFiniteSet(before(j))
          /\ Cardinality(before(j)) <= Cardinality(before(i))
      BY <2>1, <2>4, FS_Subset
    <2>6. Cardinality(before(i)) \in Nat /\ Cardinality(before(j)) \in Nat
      BY <2>5, FS_CardinalityType
    <2>7. Cardinality(before(j)) < limit
      BY <2>1, <2>3, <2>5, <2>6
    <2> QED BY <2>7 DEF ApplyLimit, before
  <1> QED BY <1>1, <1>2

-----------------------------------------------------------------------------
(* Polls.  The cursor stays, is lost, or moves to a later event with       *)
(* everything in between in the reply.                                     *)

Polled(reply) ==
    /\ reply \in SUBSET DOMAIN events /\ Handed(reply)
    /\ \/ cursor' = cursor \/ cursor' = None
       \/ \E l \in reply :
             /\ cursor' = events[l].id
             /\ \A j \in DOMAIN events : IndexOfId(cursor) < j /\ j <= l => j \in reply

LEMMA SubscribePolls ==
    ASSUME OInv, NEW limit \in Limits, Subscribe(limit)
    PROVE  \E reply \in SUBSET DOMAIN events : Polled(reply)
  <1> DEFINE a == IndexOfId(cursor)
             I == After(a)
             reply == ApplyLimit(I, limit)
  <1>1. cursor' = LastId(reply, cursor) /\ Handed(reply)
    BY DEF Subscribe
  <1>2. I = {j \in DOMAIN events : j > a} /\ I \in SUBSET DOMAIN events
    BY DEF After
  <1> HIDE DEF I
  <1>3. reply \subseteq I /\ \A i \in reply : \A j \in I : j < i => j \in reply
    BY <1>2, ApplyLimitFacts
  <1> HIDE DEF reply
  <1>4. CASE reply = {}
    BY <1>1, <1>2, <1>3, <1>4 DEF LastId, Polled
  <1>5. CASE reply # {}
    <2> DEFINE l == Max(reply)
    <2>1. l \in reply /\ cursor' = events[l].id
      BY <1>1, <1>2, <1>3, <1>5, LastIdFacts
    <2> HIDE DEF l
    <2>2. a \in 0..Len(events) /\ DOMAIN events \subseteq Nat
      BY IndexFacts DEF OInv, TypeOK
    <2>3. \A j \in DOMAIN events : a < j /\ j <= l => j \in reply
      BY <1>2, <1>3, <2>1, <2>2
    <2> QED BY <1>1, <1>2, <1>3, <2>1, <2>3 DEF Polled
  <1> QED BY <1>4, <1>5

LEMMA SubscribeWithCursorPolls ==
    ASSUME OInv, NEW limit \in Limits, SubscribeWithCursor(limit)
    PROVE  \E reply \in SUBSET DOMAIN events : Polled(reply)
  <1> DEFINE a == IndexOfId(cursor)
             I == Replay(a)
             reply == ApplyLimit(I, limit)
             R == {i \in reply : i > a}
  <1>1. cursor' = NextCursor(a, reply) /\ Handed(reply)
    BY DEF SubscribeWithCursor
  <1>2. /\ a \in 0..Len(events) /\ Len(events) \in Nat /\ DOMAIN events = 1..Len(events)
    BY IndexFacts DEF OInv, TypeOK
  <1>3. I \in SUBSET DOMAIN events /\ \A j \in DOMAIN events : a < j => j \in I
    BY <1>2 DEF Replay, After
  <1> HIDE DEF I
  <1>4. reply \subseteq I /\ \A i \in reply : \A j \in I : j < i => j \in reply
    BY <1>3, ApplyLimitFacts
  <1> HIDE DEF reply
  <1>5. R \in SUBSET DOMAIN events /\ reply \in SUBSET DOMAIN events /\ (a = 0 => R = reply)
    BY <1>2, <1>3, <1>4
  <1>6. cursor' = IF a = 0 THEN LastId(R, None) ELSE LastId(R, cursor)
    BY <1>1, <1>5 DEF NextCursor
  <1>7. CASE R = {}
    BY <1>1, <1>5, <1>6, <1>7 DEF LastId, Polled
  <1>8. CASE R # {}
    <2> DEFINE l == Max(R)
    <2>1. l \in R /\ cursor' = events[l].id
      BY <1>5, <1>6, <1>8, LastIdFacts
    <2> HIDE DEF l
    <2>2. \A j \in DOMAIN events : a < j /\ j <= l => j \in reply
      BY <1>2, <1>3, <1>4, <2>1
    <2> QED BY <1>1, <1>5, <2>1, <2>2 DEF Polled
  <1> QED BY <1>7, <1>8

LEMMA PollStep ==
    ASSUME OInv, NEW reply \in SUBSET DOMAIN events, Polled(reply)
    PROVE  OInv'
  <1> DEFINE ids == {events[i].id : i \in reply}
  <1>1. /\ held' = held \cup ids /\ handed' = handed \cup ids
        /\ UNCHANGED <<records, events, seenOrder, counted, log, boot>>
    BY DEF Polled, Handed
  <1>2. ids \subseteq IdsOf(log) /\ ids \subseteq EventId
    BY EventsLogged
  <1>3. cursor' \in handed' \/ cursor' = None
    BY <1>1 DEF Polled, OInv, HandedWereSent
  <1>4. held \subseteq EventId /\ handed \subseteq EventId /\ handed \subseteq IdsOf(log)
    BY DEF OInv, TypeOK, HandedWereSent
  <1> HIDE DEF ids
  <1> QED BY <1>1, <1>2, <1>3, <1>4, InPlaceUnchanged, InPlaceStep

LEMMA ForgetStep ==
    ASSUME OInv, NotifierCrash \/ (\E id \in held : AcknowledgeEvicted(id))
    PROVE  OInv' /\ events' = events
  <1>1. /\ held' \subseteq held
        /\ UNCHANGED <<records, events, seenOrder, counted, cursor, handed, log, boot>>
    BY DEF NotifierCrash, AcknowledgeEvicted
  <1>2. held \subseteq EventId /\ handed \subseteq EventId /\ handed \subseteq IdsOf(log)
        /\ (cursor \in handed \/ cursor = None)
    BY DEF OInv, TypeOK, HandedWereSent
  <1> QED BY <1>1, <1>2, InPlaceUnchanged, InPlaceStep

-----------------------------------------------------------------------------
(* Restart.                                                                *)

(* The log entry of a retained event tells the same.                       *)
LEMMA EntryOfEvent ==
    ASSUME OInv, NEW i \in DOMAIN events
    PROVE  \E j \in DOMAIN log :
              /\ log[j].id = events[i].id /\ log[j].run = events[i].run
              /\ log[j].child = events[i].child /\ log[j].status = events[i].status
  <1>1. PICK j \in DOMAIN log : log[j].id = events[i].id
    BY EventsLogged DEF IdsOf
  <1>2. Told(log[j]) /\ Told(events[i])
    BY DEF OInv, AllTold
  <1> QED BY <1>1, <1>2 DEF Told

LEMMA RestartStep ==
    ASSUME OInv, Restart
    PROVE  InPlace /\ OInv'
  <1> DEFINE n == Len(events)
             k == Len(log)
  <1>1. /\ events' = [i \in DOMAIN events |-> Restored(events[i])]
        /\ seenOrder' = [i \in DOMAIN events |-> events[i].id]
        /\ counted' = RebuildSucceededChildren /\ boot' = k
        /\ UNCHANGED <<records, cursor, held, handed, log>>
    BY DEF Restart
  <1>2. /\ n \in Nat /\ DOMAIN events = 1..n /\ \A j \in 1..n : events[j] \in Event
        /\ k \in Nat /\ n = (IF k > MaxEvents THEN MaxEvents ELSE k)
        /\ \A j \in 1..n : events[j].id = log[k - n + j].id
    BY DEF OInv, TypeOK, LogTyped, EventsMirror
  <1>3. Len(events) = n /\ Len(log) = k
    OBVIOUS
  <1> HIDE DEF n, k
  <1>4. ASSUME NEW j \in 1..n
        PROVE  /\ Restored(events[j]) \in Event
               /\ Restored(events[j]).id = events[j].id /\ Restored(events[j]).run = events[j].run
               /\ Restored(events[j]).child = events[j].child
               /\ Restored(events[j]).status = events[j].status
    <2> DEFINE d == IF Confirmed(events[j]) THEN "confirmed" ELSE DecisionOf(events[j].receipt)
    <2>1. d \in {"pending", "eligible", "confirmed"}
      BY DEF DecisionOf
    <2>2. Restored(events[j]) = [events[j] EXCEPT !.decision = d] /\ events[j] \in Event
      BY <1>2 DEF Restored
    <2> HIDE DEF d
    <2> QED BY <2>1, <2>2 DEF Event
  <1>5. events' \in [1..n -> Event] /\ DOMAIN events' = 1..n
    BY <1>1, <1>2, <1>4
  <1>6. events' \in Seq(Event) /\ Len(events') = n
    BY <1>2, <1>5
  <1>7. InPlace
    BY <1>1, <1>2, <1>3, <1>4, <1>5, <1>6 DEF InPlace
  <1>8. seenOrder' \in [1..n -> EventId] /\ DOMAIN seenOrder' = 1..n
    BY <1>1, <1>2, EventsLogged
  <1>9. seenOrder' \in Seq(EventId) /\ Len(seenOrder') = n
    BY <1>2, <1>8
  <1>10. counted' \in [Rounds -> SUBSET Child]
    BY <1>1, <1>2 DEF RebuildSucceededChildren, Event
  <1>11. TypeOK'
    <2>1. n <= MaxEvents /\ n <= MaxSeen
      BY <1>2, Limits2
    <2> QED BY <1>1, <1>6, <1>9, <1>10, <2>1 DEF OInv, TypeOK
  <1>12. LogTyped' /\ HandedWereSent'
    BY <1>1, <1>2, <1>3 DEF OInv, LogTyped, HandedWereSent, IdsOf
  <1>13. AllTold' /\ EventsMirror'
    BY <1>1, <1>7 DEF OInv, InPlace, AllTold, Told, EventsMirror
  <1>14. DedupeWindow'
    BY <1>1, <1>3 DEF OInv, DedupeWindow, LogTyped
  <1>15. SeenMirror'
    <2>1. n <= k /\ n >= k - k
      BY <1>2, Limits2
    <2>2. \A i \in 1..n : seenOrder'[i] = log[k - n + i].id
      BY <1>1, <1>2
    <2> QED BY <1>1, <1>3, <1>8, <1>9, <2>1, <2>2 DEF SeenMirror
  <1>16. CountedInv'
    <2> SUFFICES ASSUME NEW r \in Rounds
                 PROVE  /\ counted'[r] \subseteq Succeeded(r)'
                        /\ \A i \in DOMAIN events' :
                              events'[i].run = r /\ events'[i].status = "succeeded"
                                     => events'[i].child \in counted'[r]
      BY DEF CountedInv
    <2>1. counted'[r] = {events[i].child : i \in {j \in DOMAIN events :
                              events[j].run = r /\ events[j].status = "succeeded"}}
      BY <1>1 DEF RebuildSucceededChildren
    <2>2. ASSUME NEW i \in DOMAIN events, events[i].run = r, events[i].status = "succeeded"
          PROVE  events[i].child \in Succeeded(r)'
      BY <1>1, <2>2, EntryOfEvent DEF Succeeded
    <2>3. counted'[r] \subseteq Succeeded(r)'
      BY <2>1, <2>2
    <2> QED BY <1>7, <2>1, <2>3 DEF InPlace
  <1> QED BY <1>7, <1>11, <1>12, <1>13, <1>14, <1>15, <1>16 DEF OInv

-----------------------------------------------------------------------------
LEMMA InitOInv == Init => OInv
  <1> SUFFICES ASSUME Init PROVE OInv
    OBVIOUS
  <1>1. /\ events \in Seq(Event) /\ Len(events) = 0 /\ DOMAIN events = {}
        /\ seenOrder \in Seq(EventId) /\ Len(seenOrder) = 0 /\ DOMAIN seenOrder = {}
        /\ log \in Seq(LogEntry) /\ Len(log) = 0 /\ DOMAIN log = {}
    BY DEF Init
  <1>2. TypeOK
    BY <1>1, Limits2 DEF Init, TypeOK
  <1>3. EventsMirror /\ SeenMirror /\ LogTyped
    BY <1>1, Limits2 DEF Init, EventsMirror, SeenMirror, LogTyped
  <1> QED BY <1>1, <1>2, <1>3 DEF Init, OInv, AllTold, DedupeWindow, CountedInv, HandedWereSent

LEMMA NextOInv ==
    ASSUME OInv, [Next]_vars
    PROVE  OInv'
  <1>1. CASE UNCHANGED vars
    BY <1>1 DEF vars, OInv, TypeOK, LogTyped, AllTold, EventsMirror, SeenMirror,
                DedupeWindow, CountedInv, HandedWereSent, Succeeded, IdsOf
  <1>2. CASE EnqueueNext
    BY <1>2, FinishTaskStep, IngestStep DEF EnqueueNext
  <1>3. CASE NotifierNext
    BY <1>3, SubscribePolls, SubscribeWithCursorPolls, PollStep, AcknowledgeStep,
       RecordReceiptStep, ForgetStep DEF NotifierNext
  <1>4. CASE Restart
    BY <1>4, RestartStep
  <1> QED BY <1>1, <1>2, <1>3, <1>4 DEF Next

LEMMA OInvHolds == Spec => []OInv
  <1>1. OInv /\ [Next]_vars => OInv'
    BY NextOInv
  <1> QED BY <1>1, InitOInv, PTL DEF Spec

(* The outbox stays within its limits, enqueues an id again only outside   *)
(* the dedupe window, and counts a round's successes while the round is    *)
(* retained, for every limit, set of tasks, lanes and rounds.              *)
THEOREM OutboxInvHolds == Spec => []OutboxInv
  <1>1. ASSUME OInv PROVE ProgressWhileRetained
    <2> SUFFICES ASSUME NEW r \in Rounds,
                        \A i \in DOMAIN log : log[i].run = r => log[i].id \in IdsOf(events)
                 PROVE  Succeeded(r) \subseteq counted[r]
      BY <1>1 DEF ProgressWhileRetained, OInv, CountedInv
    <2>1. ASSUME NEW i \in DOMAIN log, log[i].run = r, log[i].status = "succeeded"
          PROVE  log[i].child \in counted[r]
      <3>1. PICK j \in DOMAIN events : events[j].id = log[i].id
        BY <2>1 DEF IdsOf
      <3>2. Told(log[i]) /\ Told(events[j])
        BY <1>1 DEF OInv, AllTold
      <3>3. /\ events[j].run = r /\ events[j].status = "succeeded"
            /\ events[j].child = log[i].child
        BY <2>1, <3>1, <3>2 DEF Told
      <3> QED BY <1>1, <3>3 DEF OInv, CountedInv
    <2> QED BY <2>1 DEF Succeeded
  <1>2. OInv => OutboxInv
    BY <1>1 DEF OInv, OutboxInv
  <1> QED BY <1>2, OInvHolds, PTL

-----------------------------------------------------------------------------
(* Acknowledgements.                                                       *)

Sticky ==
    \A i \in DOMAIN events : Confirmed(events[i]) =>
        \/ events[i].id \notin IdsOf(events')
        \/ \E j \in DOMAIN events' : /\ events'[j].id = events[i].id
                                     /\ events'[j].ack = events[i].ack

LEMMA StickyInPlace ==
    ASSUME InPlace,
           \A i \in DOMAIN events : Confirmed(events[i]) => events'[i].ack = events[i].ack
    PROVE  Sticky
  BY DEF InPlace, Sticky

LEMMA StickySame ==
    ASSUME events' = events
    PROVE  Sticky
  BY DEF Sticky

LEMMA EnqueueSticky ==
    ASSUME OInv, NEW lane \in Tasks \cup Lanes, NEW id \in EventId,
           NEW run \in Rounds \cup {None}, NEW child \in Child, NEW status \in Statuses,
           Enqueue(lane, id, run, child, status)
    PROVE  Sticky
  <1>1. CASE Known(id)
    BY <1>1, StickySame DEF Enqueue
  <1>2. CASE ~Known(id)
    <2> DEFINE C == Count(counted, run, child, status)
               e == NewEvent(C, id, run, child, status)
               n == Len(events)
               x == Len(events')
    <2>1. Grown(Event, events, e, MaxEvents, events')
      BY <1>2, EnqueueFacts
    <2>2. e.id = id
      BY DEF NewEvent
    <2> HIDE DEF C, e
    <2>3. /\ DOMAIN events' = 1..x /\ events'[x] = e
          /\ \A i \in 1..(x - 1) :
                 i + (n + 1 - x) \in 1..n /\ events'[i] = events[i + (n + 1 - x)]
      BY <2>1 DEF Grown
    <2>4. n \in Nat /\ DOMAIN events = 1..n /\ x \in Nat
      BY <2>1 DEF OInv, TypeOK, Grown
    <2> HIDE DEF n, x
    <2>5. ASSUME NEW i \in DOMAIN events, NEW j \in DOMAIN events',
                 events'[j].id = events[i].id
          PROVE  events'[j].ack = events[i].ack
      <3>1. events[i].id # id
        BY <1>2 DEF Known, IdsOf
      <3>2. j \in 1..(x - 1)
        BY <2>2, <2>3, <2>4, <2>5, <3>1
      <3> DEFINE p == j + (n + 1 - x)
      <3>3. p \in DOMAIN events /\ events'[j] = events[p]
        BY <2>3, <2>4, <3>2
      <3> HIDE DEF p
      <3>4. p = i
        BY <2>5, <3>3, UniqueIds
      <3> QED BY <3>3, <3>4
    <2> QED BY <2>5 DEF Sticky, IdsOf
  <1> QED BY <1>1, <1>2

LEMMA EnqueueNextSticky ==
    ASSUME OInv, EnqueueNext
    PROVE  Sticky
  <1>1. ASSUME NEW t \in Tasks, NEW status \in Statuses, FinishTask(t, status)
        PROVE  Sticky
    <2>1. Enqueue(t, TaskEventId(t, status), RunOf[t], t, status)
      BY <1>1 DEF FinishTask
    <2>2. /\ TaskEventId(t, status) \in EventId /\ RunOf[t] \in Rounds \cup {None}
          /\ t \in Child
      BY IdTypes, OutboxAssumption
    <2> QED BY <2>1, <2>2, EnqueueSticky
  <1>2. ASSUME NEW c \in Lanes, NEW status \in Statuses, NEW at \in Times,
               Ingest(c, status, at)
        PROVE  Sticky
    <2>1. \/ events' = events
          \/ Enqueue(c, ProjectionId(c, status), RoundOf[c], Canonical(c), status)
      BY <1>2 DEF Ingest
    <2>2. /\ ProjectionId(c, status) \in EventId /\ RoundOf[c] \in Rounds \cup {None}
          /\ Canonical(c) \in Child
      BY IdTypes, OutboxAssumption
    <2> QED BY <2>1, <2>2, EnqueueSticky, StickySame
  <1> QED BY <1>1, <1>2 DEF EnqueueNext

(* A confirmation stands until its event is evicted: whatever receipts,    *)
(* second acknowledgements, evictions and restarts come later.             *)
THEOREM AckStickyHolds == Spec => AckSticky
  <1>1. ASSUME OInv, [Next]_vars
        PROVE  [Sticky]_vars
    <2>1. ASSUME NEW id \in held, NEW evidence \in Evidences, Acknowledge(id, evidence)
          PROVE  Sticky
      <3>1. PICK i \in DOMAIN events : UpdateEvent(Acked(events[i], evidence))
        BY <2>1 DEF Acknowledge
      <3>2. Acked(events[i], evidence).id = events[i].id
        <4>1. events[i] \in Event
          BY <1>1 DEF OInv, TypeOK
        <4> QED BY <4>1 DEF Acked, Event
      <3>3. \A j \in DOMAIN events : Confirmed(events[j]) => events'[j].ack = events[j].ack
        BY <1>1, <3>1, <3>2, UniqueIds DEF UpdateEvent, Acked
      <3> QED BY <1>1, <2>1, <3>3, AcknowledgeStep, StickyInPlace
    <2>2. ASSUME NEW id, NEW status \in Receipts, RecordReceiptStatus(id, status)
          PROVE  Sticky
      <3> DEFINE e(i) == [events[i] EXCEPT !.receipt = status, !.decision = DecisionOf(status)]
      <3>1. PICK i \in DOMAIN events : UpdateEvent(e(i))
        BY <2>2 DEF RecordReceiptStatus
      <3>2. e(i).id = events[i].id /\ e(i).ack = events[i].ack
        BY <1>1 DEF OInv, TypeOK, Event
      <3> HIDE DEF e
      <3>3. \A j \in DOMAIN events : Confirmed(events[j]) => events'[j].ack = events[j].ack
        BY <1>1, <3>1, <3>2, UniqueIds DEF UpdateEvent
      <3> QED BY <1>1, <2>2, <3>3, RecordReceiptStep, StickyInPlace
    <2>3. CASE Restart
      <3>1. \A j \in DOMAIN events : events'[j].ack = events[j].ack
        <4>1. ASSUME NEW j \in DOMAIN events PROVE Restored(events[j]).ack = events[j].ack
          <5>1. events[j] \in Event
            BY <1>1 DEF OInv, TypeOK
          <5> QED BY <5>1 DEF Restored, Event
        <4> QED BY <2>3, <4>1 DEF Restart
      <3> QED BY <1>1, <2>3, <3>1, RestartStep, StickyInPlace
    <2>4. CASE UNCHANGED events
      BY <2>4, StickySame
    <2>5. ASSUME NEW limit, Subscribe(limit) \/ SubscribeWithCursor(limit)
          PROVE  events' = events
      BY <2>5 DEF Subscribe, SubscribeWithCursor, Handed
    <2>6. NotifierCrash \/ (\E id \in held : AcknowledgeEvicted(id)) => events' = events
      BY DEF NotifierCrash, AcknowledgeEvicted
    <2>7. CASE NotifierNext
      BY <2>1, <2>2, <2>4, <2>5, <2>6, <2>7 DEF NotifierNext
    <2>8. CASE EnqueueNext
      BY <1>1, <2>8, EnqueueNextSticky
    <2> QED BY <1>1, <2>3, <2>7, <2>8 DEF Next
  <1> QED BY <1>1, OInvHolds, PTL DEF Spec, AckSticky, Sticky

-----------------------------------------------------------------------------
(* The cursor.                                                             *)

CursorPlace ==
    /\ IndexOfId(cursor) \in 0..Len(events)
    /\ IndexOfId(cursor) # 0 => events[IndexOfId(cursor)].id = cursor
    /\ \A i \in DOMAIN events : events[i].id = cursor => IndexOfId(cursor) = i

EventsWellNumbered == DOMAIN events = 1..Len(events) /\ Len(events) \in Nat

LEMMA PlaceNow == OInv => CursorPlace /\ EventsWellNumbered
  BY IndexFacts DEF CursorPlace, EventsWellNumbered, OInv, TypeOK

LEMMA PlaceNext == OInv' => CursorPlace' /\ EventsWellNumbered'
  BY PlaceNow, PTL

LEMMA CoversInPlace ==
    ASSUME OInv, OInv', CursorCovers, InPlace, UNCHANGED <<log, cursor, handed>>
    PROVE  CursorCovers'
  <1> SUFFICES ASSUME HandedOnce', NEW i \in 1..IndexOfId(cursor)'
               PROVE  events'[i].id \in handed
    BY DEF CursorCovers
  <1>1. CursorPlace /\ CursorPlace' /\ EventsWellNumbered
    BY PlaceNow, PlaceNext
  <1>2. IndexOfId(cursor)' # 0 /\ IndexOfId(cursor)' \in DOMAIN events
    BY <1>1 DEF CursorPlace, EventsWellNumbered, InPlace
  <1>3. IndexOfId(cursor) = IndexOfId(cursor)'
    BY <1>1, <1>2 DEF CursorPlace, InPlace
  <1>4. HandedOnce
    BY DEF HandedOnce
  <1>5. i \in DOMAIN events /\ events[i].id \in handed
    BY <1>1, <1>3, <1>4 DEF CursorCovers, CursorPlace, EventsWellNumbered
  <1> QED BY <1>5 DEF InPlace

LEMMA PollCovers ==
    ASSUME OInv, OInv', CursorCovers, NEW reply \in SUBSET DOMAIN events, Polled(reply)
    PROVE  CursorCovers'
  <1> SUFFICES ASSUME HandedOnce', NEW i \in 1..IndexOfId(cursor)'
               PROVE  events'[i].id \in handed'
    BY DEF CursorCovers
  <1> DEFINE a == IndexOfId(cursor)
             b == IndexOfId(cursor)'
  <1>1. /\ UNCHANGED <<events, log>> /\ handed \subseteq handed'
        /\ \A j \in reply : events[j].id \in handed'
    BY DEF Polled, Handed
  <1>2. CursorPlace /\ CursorPlace' /\ EventsWellNumbered
    BY PlaceNow, PlaceNext
  <1>3. /\ a \in 0..Len(events) /\ b \in 1..Len(events) /\ events[b].id = cursor'
        /\ \A j \in DOMAIN events : events[j].id = cursor => a = j
        /\ \A j \in DOMAIN events : events[j].id = cursor' => b = j
        /\ Len(events) \in Nat /\ DOMAIN events = 1..Len(events)
    BY <1>1, <1>2 DEF CursorPlace, EventsWellNumbered
  <1>4. HandedOnce
    BY <1>1 DEF HandedOnce
  <1>5. \A j \in 1..a : events[j].id \in handed'
    BY <1>1, <1>4 DEF CursorCovers
  <1> HIDE DEF a
  <1>6. i \in 1..b
    OBVIOUS
  <1> HIDE DEF b
  <1>7. CASE cursor' = cursor
    BY <1>1, <1>3, <1>5, <1>6, <1>7
  <1>8. CASE cursor' = None
    BY <1>3, <1>8, EventsLogged, NamesAssumption
  <1>9. ASSUME NEW l \in reply, cursor' = events[l].id,
               \A j \in DOMAIN events : a < j /\ j <= l => j \in reply
        PROVE  events'[i].id \in handed'
    <2>1. b = l
      BY <1>3, <1>9
    <2>2. i \in DOMAIN events /\ (i \in 1..a \/ i \in reply)
      BY <1>3, <1>6, <1>9, <2>1
    <2> QED BY <1>1, <1>5, <2>2
  <1> QED BY <1>7, <1>8, <1>9 DEF Polled, a

LEMMA EnqueueCovers ==
    ASSUME OInv, OInv', CursorCovers,
           NEW lane \in Tasks \cup Lanes, NEW id \in EventId,
           NEW run \in Rounds \cup {None}, NEW child \in Child, NEW status \in Statuses,
           Enqueue(lane, id, run, child, status), UNCHANGED <<cursor, handed>>
    PROVE  CursorCovers'
  <1>1. CASE Known(id)
    <2>1. UNCHANGED <<events, log>>
      BY <1>1 DEF Enqueue
    <2> QED BY <2>1, InPlaceUnchanged, CoversInPlace
  <1>2. CASE ~Known(id)
    <2> SUFFICES ASSUME HandedOnce', NEW i \in 1..IndexOfId(cursor)'
                 PROVE  events'[i].id \in handed
      BY DEF CursorCovers
    <2> DEFINE C == Count(counted, run, child, status)
               e == NewEvent(C, id, run, child, status)
               entry == [lane |-> lane, id |-> id, run |-> run, child |-> child,
                         status |-> status]
               n == Len(events)
               x == Len(events')
               k == Len(log)
               a == IndexOfId(cursor)
               b == IndexOfId(cursor)'
    <2>1. /\ Grown(Event, events, e, MaxEvents, events')
          /\ log' = Append(log, entry) /\ entry \in LogEntry
      BY <1>2, EnqueueFacts
    <2>2. e.id = id /\ entry.id = id
      BY DEF NewEvent
    <2> HIDE DEF C, e, entry
    <2>3. /\ DOMAIN events' = 1..x /\ events'[x] = e
          /\ \A j \in 1..(x - 1) :
                 j + (n + 1 - x) \in 1..n /\ events'[j] = events[j + (n + 1 - x)]
      BY <2>1 DEF Grown
    <2>4. n \in Nat /\ DOMAIN events = 1..n /\ x \in Nat
      BY <2>1 DEF OInv, TypeOK, Grown
    <2>5. log \in Seq(LogEntry) /\ k \in Nat /\ DOMAIN log = 1..k
      BY DEF OInv, LogTyped
    <2>6. /\ DOMAIN log' = 1..(k + 1) /\ log'[k + 1].id = id
          /\ \A j \in 1..k : log'[j] = log[j]
      BY <2>1, <2>2, <2>5, AppendFacts
    <2>7. CursorPlace /\ CursorPlace'
      BY PlaceNow, PlaceNext
    <2>8. /\ a \in 0..n /\ b \in 1..x /\ events'[b].id = cursor
          /\ \A j \in DOMAIN events : events[j].id = cursor => a = j
      BY <2>7 DEF CursorPlace
    <2>9. HandedOnce
      BY <2>5, <2>6 DEF HandedOnce
    <2>10. \A j \in 1..a : events[j].id \in handed
      BY <2>9 DEF CursorCovers
    <2>11. i \in 1..b
      OBVIOUS
    <2> HIDE DEF n, x, k, a, b
    <2>12. cursor \in handed
      <3>1. events'[b].id \in EventId
        <4>1. events' \in Seq(Event)
          BY <2>1 DEF Grown
        <4>2. events'[b] \in Event
          BY <2>8, <4>1 DEF x
        <4> QED BY <4>2 DEF Event
      <3> QED BY <2>8, <3>1, NamesAssumption DEF OInv, HandedWereSent
    <2>13. b # x
      <3>1. PICK p \in 1..k : log[p].id = cursor
        BY <2>5, <2>12 DEF OInv, HandedWereSent, IdsOf
      <3>2. p \in DOMAIN log' /\ k + 1 \in DOMAIN log' /\ p # k + 1 /\ log'[p].id = cursor
        BY <2>5, <2>6, <3>1
      <3>3. id # cursor
        BY <2>6, <2>12, <3>2 DEF HandedOnce
      <3> QED BY <2>2, <2>3, <2>8, <3>3
    <2>14. b \in 1..(x - 1) /\ i \in 1..(x - 1) /\ i <= b
      BY <2>4, <2>8, <2>11, <2>13
    <2>15. a = b + (n + 1 - x)
      BY <2>3, <2>4, <2>8, <2>14
    <2>16. i + (n + 1 - x) \in 1..a /\ events'[i] = events[i + (n + 1 - x)]
      BY <2>3, <2>4, <2>8, <2>14, <2>15
    <2> QED BY <2>10, <2>16
  <1> QED BY <1>1, <1>2

LEMMA NextCovers ==
    ASSUME OInv, CursorCovers, [Next]_vars
    PROVE  CursorCovers'
  <1>1. OInv'
    BY NextOInv
  <1>2. CASE UNCHANGED vars
    BY <1>1, <1>2, InPlaceUnchanged, CoversInPlace DEF vars
  <1>3. ASSUME NEW t \in Tasks, NEW status \in Statuses, FinishTask(t, status)
        PROVE  CursorCovers'
    <2>1. Enqueue(t, TaskEventId(t, status), RunOf[t], t, status) /\ UNCHANGED <<cursor, handed>>
      BY <1>3 DEF FinishTask
    <2>2. /\ TaskEventId(t, status) \in EventId /\ RunOf[t] \in Rounds \cup {None}
          /\ t \in Child
      BY IdTypes, OutboxAssumption
    <2> QED BY <1>1, <2>1, <2>2, EnqueueCovers
  <1>4. ASSUME NEW c \in Lanes, NEW status \in Statuses, NEW at \in Times,
               Ingest(c, status, at)
        PROVE  CursorCovers'
    <2>1. /\ \/ UNCHANGED <<events, log>>
             \/ Enqueue(c, ProjectionId(c, status), RoundOf[c], Canonical(c), status)
          /\ UNCHANGED <<cursor, handed>>
      BY <1>4 DEF Ingest
    <2>2. /\ ProjectionId(c, status) \in EventId /\ RoundOf[c] \in Rounds \cup {None}
          /\ Canonical(c) \in Child
      BY IdTypes, OutboxAssumption
    <2> QED BY <1>1, <2>1, <2>2, EnqueueCovers, InPlaceUnchanged, CoversInPlace
  <1>5. ASSUME NEW limit \in Limits, Subscribe(limit) \/ SubscribeWithCursor(limit)
        PROVE  CursorCovers'
    BY <1>1, <1>5, SubscribePolls, SubscribeWithCursorPolls, PollCovers
  <1>6. ASSUME NEW id \in held, NEW evidence \in Evidences, Acknowledge(id, evidence)
        PROVE  CursorCovers'
    BY <1>1, <1>6, AcknowledgeStep, CoversInPlace DEF Acknowledge
  <1>7. ASSUME NEW id, NEW status \in Receipts, RecordReceiptStatus(id, status)
        PROVE  CursorCovers'
    BY <1>1, <1>7, RecordReceiptStep, CoversInPlace DEF RecordReceiptStatus
  <1>8. CASE NotifierCrash \/ (\E id \in held : AcknowledgeEvicted(id))
    <2>1. UNCHANGED <<events, log, cursor, handed>>
      BY <1>8 DEF NotifierCrash, AcknowledgeEvicted
    <2> QED BY <1>1, <2>1, InPlaceUnchanged, CoversInPlace
  <1>9. CASE Restart
    BY <1>1, <1>9, RestartStep, CoversInPlace DEF Restart
  <1>10. CASE EnqueueNext
    BY <1>3, <1>4, <1>10 DEF EnqueueNext
  <1>11. CASE NotifierNext
    BY <1>5, <1>6, <1>7, <1>8, <1>11 DEF NotifierNext
  <1> QED BY <1>2, <1>9, <1>10, <1>11 DEF Next

(* As long as nothing handed out was enqueued again, the notifier's saved  *)
(* cursor never passes an event that no poll returned, whatever limits,    *)
(* evictions, restarts and kinds of poll were mixed.                       *)
THEOREM CursorCoversHolds == Spec => []CursorCovers
  <1>1. Init => CursorCovers
    <2> SUFFICES ASSUME Init PROVE CursorCovers
      OBVIOUS
    <2>1. Len(events) = 0 /\ CursorPlace
      BY InitOInv, PlaceNow DEF Init
    <2>2. IndexOfId(cursor) = 0
      BY <2>1 DEF CursorPlace
    <2> QED BY <2>2 DEF CursorCovers
  <1>2. OInv /\ CursorCovers /\ [Next]_vars => CursorCovers'
    BY NextCovers
  <1> QED BY <1>1, <1>2, OInvHolds, PTL DEF Spec
=============================================================================
