---------------------------- MODULE IntakeProofs ----------------------------
(***************************************************************************)
(* Proofs about what takes work in: the worker process against the         *)
(* broker's task API, and the GitHub side of the broker (the bounded       *)
(* poller, the recovery projection, the handoff receiver, the ingestion).  *)
(***************************************************************************)
EXTENDS WorkerClient, BoundedPoller, GitHubRecovery, HandoffReceiver, GitHubIngestion,
        FiniteSetTheorems, TLAPS

-----------------------------------------------------------------------------
(* WorkerClient: a success is earned and kept, and every handler execution *)
(* is paid for, whatever calls are lost, late or repeated.                 *)

Places == {"stopped", "idle", "handling", "terminating"} \cup Awaiting
Calls == {"none", "sent", "ok", "refused", "broken"}
Requests == [op : {"claim", "start", "complete", "fail"}, task : Tasks, worker : Workers]

(* What a worker's place says: away from the top of the loop it has a      *)
(* task; only an awaited call is under way; a completion is sent only for  *)
(* a good result, and an accepted one has settled the task.                *)
Local(w) ==
    /\ pc[w] \notin {"stopped", "idle"} => batch[w] # <<>>
    /\ call[w] # "none" => pc[w] \in Awaiting
    /\ pc[w] = "completing" =>
          /\ Head(batch[w]) \in produced
          /\ call[w] = "ok" => status[Head(batch[w])] = "succeeded"

LateProduced == \A m \in late : m.op = "complete" => m.task \in produced

ProducedGood == \A t \in produced : EvidenceOK(Mode[t], evidence[t])

(* Every execution begun, every one about to begin and every one the       *)
(* status still admits is paid for.                                        *)
Starters(t) == {w \in Workers : pc[w] = "starting" /\ call[w] = "ok" /\ Head(batch[w]) = t}
Due(t) == IF status[t] \in {"queued", "claimed"} THEN 1 ELSE 0
Paid == \A t \in Tasks : runs[t] + Cardinality(Starters(t)) + Due(t) <= 1 + requeues[t] + reassigns

WInv ==
    /\ TypeOK /\ (\A w \in Workers : Local(w)) /\ LateProduced /\ ProducedGood
    /\ SuccessWasProduced /\ AckedStays /\ Paid

-----------------------------------------------------------------------------
LEMMA StartersFinite ==
    ASSUME NEW t
    PROVE  IsFiniteSet(Starters(t)) /\ Cardinality(Starters(t)) \in Nat
  <1>1. Starters(t) \in SUBSET Workers
    BY DEF Starters
  <1>2. IsFiniteSet(Starters(t))
    BY <1>1, FiniteParties, FS_Subset
  <1> QED BY <1>2, FS_CardinalityType

LEMMA StartersFiniteNext ==
    ASSUME NEW t
    PROVE  IsFiniteSet(Starters(t)') /\ Cardinality(Starters(t)') \in Nat
  <1>1. Starters(t)' \in SUBSET Workers
    BY DEF Starters
  <1>2. IsFiniteSet(Starters(t)')
    BY <1>1, FiniteParties, FS_Subset
  <1> QED BY <1>2, FS_CardinalityType

LEMMA PaidTypes ==
    ASSUME TypeOK, NEW t \in Tasks
    PROVE  /\ runs[t] \in Nat /\ requeues[t] \in Nat /\ reassigns \in Nat
           /\ Cardinality(Starters(t)) \in Nat /\ Due(t) \in {0, 1}
  BY StartersFinite, BoundsNatural DEF TypeOK, Due

(* A step that begins no execution and admits no new one costs nothing.    *)
LEMMA PaidKept ==
    ASSUME WInv, UNCHANGED <<runs, requeues, reassigns>>,
           \A t \in Tasks : Starters(t)' \subseteq Starters(t),
           \A t \in Tasks : Due(t)' <= Due(t)
    PROVE  Paid'
  <1> SUFFICES ASSUME NEW t \in Tasks
               PROVE  (runs[t] + Cardinality(Starters(t)) + Due(t) <= 1 + requeues[t] + reassigns)'
    BY DEF Paid
  <1> DEFINE c == Cardinality(Starters(t))
             d == Cardinality(Starters(t)')
  <1>1. d <= c /\ d \in Nat
    BY StartersFinite, StartersFiniteNext, FS_Subset
  <1>2. runs[t] + c + Due(t) <= 1 + requeues[t] + reassigns
    BY DEF WInv, Paid
  <1>3. /\ runs[t] \in Nat /\ requeues[t] \in Nat /\ reassigns \in Nat /\ c \in Nat
        /\ Due(t) \in {0, 1}
    BY PaidTypes DEF WInv
  <1>4. Due(t)' \in {0, 1} /\ Due(t)' <= Due(t)
    BY DEF Due
  <1>5. Cardinality(Starters(t))' = d
    OBVIOUS
  <1>6. runs'[t] = runs[t] /\ requeues'[t] = requeues[t] /\ reassigns' = reassigns
    OBVIOUS
  <1> HIDE DEF c, d
  <1>7. runs[t] + d + Due(t)' <= 1 + requeues[t] + reassigns
    BY <1>1, <1>2, <1>3, <1>4
  <1> QED BY <1>5, <1>6, <1>7

-----------------------------------------------------------------------------
(* Steps of one worker that leave the broker alone.                        *)

Moved(w, p, b, c) ==
    /\ pc' = [pc EXCEPT ![w] = p]
    /\ batch' = [batch EXCEPT ![w] = b]
    /\ call' = [call EXCEPT ![w] = c]

LEMMA MoveFacts ==
    ASSUME TypeOK, NEW w \in Workers, NEW p \in Places, NEW b \in Seq(Tasks), NEW c \in Calls,
           Moved(w, p, b, c)
    PROVE  /\ pc' \in [Workers -> Places] /\ batch' \in [Workers -> Seq(Tasks)]
           /\ call' \in [Workers -> Calls]
           /\ pc'[w] = p /\ batch'[w] = b /\ call'[w] = c
           /\ \A v \in Workers \ {w} : pc'[v] = pc[v] /\ batch'[v] = batch[v] /\ call'[v] = call[v]
  BY DEF TypeOK, Moved, Places, Calls

LEMMA MoveStep ==
    ASSUME WInv, NEW w \in Workers, NEW p \in Places, NEW b \in Seq(Tasks), NEW c \in Calls,
           Moved(w, p, b, c), UNCHANGED <<brokerVars, runs, produced>>,
           p \notin {"stopped", "idle"} => b # <<>>,
           c # "none" => p \in Awaiting,
           p = "completing" => Head(b) \in produced,
           c # "ok" \/ (p = pc[w] /\ b = batch[w] /\ c = call[w]),
           stopping' \in SUBSET Workers, faults' \in 0..MaxFaults,
           late' \in SUBSET Requests, LateProduced',
           acked' \in SUBSET Tasks, \A t \in acked' : status[t] = "succeeded"
    PROVE  WInv'
  <1>1. /\ pc' \in [Workers -> Places] /\ batch' \in [Workers -> Seq(Tasks)]
        /\ call' \in [Workers -> Calls]
        /\ pc'[w] = p /\ batch'[w] = b /\ call'[w] = c
        /\ \A v \in Workers \ {w} : pc'[v] = pc[v] /\ batch'[v] = batch[v] /\ call'[v] = call[v]
    BY MoveFacts DEF WInv
  <1>2. TypeOK'
    BY <1>1 DEF WInv, TypeOK, brokerVars, Places, Calls, Requests
  <1>3. ASSUME NEW v \in Workers PROVE Local(v)'
    <2>1. CASE v = w
      <3>1. CASE c # "ok"
        BY <1>1, <2>1, <3>1 DEF Local, brokerVars
      <3>2. CASE p = pc[w] /\ b = batch[w] /\ c = call[w]
        BY <1>1, <2>1, <3>2 DEF WInv, Local, brokerVars
      <3> QED BY <3>1, <3>2
    <2>2. CASE v # w
      BY <1>1, <2>2 DEF WInv, Local, brokerVars
    <2> QED BY <2>1, <2>2
  <1>4. ProducedGood' /\ SuccessWasProduced' /\ AckedStays'
    BY DEF WInv, ProducedGood, SuccessWasProduced, AckedStays, brokerVars
  <1>5. Paid'
    <2>1. \A t \in Tasks : Starters(t)' \subseteq Starters(t)
      BY <1>1 DEF Starters
    <2>2. \A t \in Tasks : Due(t)' <= Due(t)
      BY DEF Due, brokerVars
    <2> QED BY <2>1, <2>2, PaidKept DEF brokerVars
  <1> QED BY <1>2, <1>3, <1>4, <1>5 DEF WInv

(* What a worker does not change when only its own place moves.            *)
LEMMA Untouched ==
    ASSUME WInv
    PROVE  /\ stopping \in SUBSET Workers /\ faults \in 0..MaxFaults /\ late \in SUBSET Requests
           /\ acked \in SUBSET Tasks /\ (\A t \in acked : status[t] = "succeeded")
           /\ (UNCHANGED <<late, produced>> => LateProduced')
  BY DEF WInv, TypeOK, AckedStays, LateProduced, Requests

LEMMA BatchFacts ==
    ASSUME WInv, NEW w \in Workers
    PROVE  /\ pc[w] \in Places /\ call[w] \in Calls /\ batch[w] \in Seq(Tasks) /\ <<>> \in Seq(Tasks)
           /\ pc \in [Workers -> Places] /\ call \in [Workers -> Calls]
           /\ batch \in [Workers -> Seq(Tasks)]
           /\ pc[w] \notin {"stopped", "idle"} =>
                 batch[w] # <<>> /\ Head(batch[w]) \in Tasks /\ Tail(batch[w]) \in Seq(Tasks)
  <1>1. /\ pc \in [Workers -> Places] /\ call \in [Workers -> Calls]
        /\ batch \in [Workers -> Seq(Tasks)]
    BY DEF WInv, TypeOK, Places, Calls
  <1>2. pc[w] \notin {"stopped", "idle"} => batch[w] # <<>>
    BY DEF WInv, Local
  <1> DEFINE b == batch[w]
  <1>3. b \in Seq(Tasks)
    BY <1>1
  <1> HIDE DEF b
  <1>4. b # <<>> => Head(b) \in Tasks /\ Tail(b) \in Seq(Tasks)
    BY <1>3
  <1> QED BY <1>1, <1>2, <1>3, <1>4 DEF b

(* runOnce goes on to the next task, sleeps or ends.                       *)
LEMMA NextOrSleepStep ==
    ASSUME WInv, NEW w \in Workers, NEW rest \in Seq(Tasks), NextOrSleep(w, rest),
           UNCHANGED <<brokerVars, stopping, late, faults, runs, produced>>,
           acked' \in SUBSET Tasks, \A t \in acked' : status[t] = "succeeded"
    PROVE  WInv'
  <1>1. CASE rest # <<>>
    <2>1. Moved(w, "claiming", rest, "sent")
      BY <1>1 DEF NextOrSleep, Send, Moved
    <2> QED BY <1>1, <2>1, Untouched, MoveStep DEF Places, Calls, Awaiting
  <1>2. CASE rest = <<>>
    <2> DEFINE p == IF w \in stopping THEN "stopped" ELSE "idle"
    <2>1. Moved(w, p, rest, "none") /\ p \in {"stopped", "idle"}
      BY <1>2 DEF NextOrSleep, Moved
    <2> HIDE DEF p
    <2> QED BY <2>1, Untouched, MoveStep DEF Places, Calls
  <1> QED BY <1>1, <1>2

LEMMA SendStep ==
    ASSUME WInv, NEW w \in Workers, NEW at \in Awaiting \ {"completing"},
           pc[w] \notin {"stopped", "idle"}, Send(w, at),
           UNCHANGED <<brokerVars, batch, stopping, late, faults, runs, produced, acked>>
    PROVE  WInv'
  <1>1. Moved(w, at, batch[w], "sent")
    BY BatchFacts DEF Send, Moved
  <1> QED BY <1>1, BatchFacts, Untouched, MoveStep DEF Places, Calls

LEMMA PollStep ==
    ASSUME WInv, NEW w \in Workers, Poll(w)
    PROVE  WInv'
  <1>1. PICK tasks \in SetToSeqs(Queued(w)) : NextOrSleep(w, tasks)
    BY DEF Poll
  <1>2. tasks \in Seq(Tasks)
    <2> DEFINE Q == Queued(w)
    <2>1. Q \in SUBSET Tasks
      BY DEF Queued
    <2> HIDE DEF Q
    <2>2. IsFiniteSet(Q) /\ Cardinality(Q) \in Nat
      BY <2>1, FiniteParties, FS_Subset, FS_CardinalityType
    <2>3. tasks \in [1..Cardinality(Q) -> Q]
      BY <1>1 DEF SetToSeqs, Q
    <2> QED BY <2>1, <2>2, <2>3
  <1> QED BY <1>1, <1>2, Untouched, NextOrSleepStep DEF Poll, history

LEMMA AfterClaimStep ==
    ASSUME WInv, NEW w \in Workers, AfterClaim(w)
    PROVE  WInv'
  <1>1. CASE call[w] = "ok" /\ Send(w, "starting") /\ UNCHANGED batch
    BY <1>1, SendStep DEF AfterClaim, Awaiting, history
  <1>2. CASE call[w] = "refused" /\ NextOrSleep(w, Tail(batch[w]))
    BY <1>2, BatchFacts, Untouched, NextOrSleepStep DEF AfterClaim, history
  <1>3. CASE call[w] = "broken" /\ NextOrSleep(w, <<>>)
    BY <1>3, BatchFacts, Untouched, NextOrSleepStep DEF AfterClaim, history
  <1> QED BY <1>1, <1>2, <1>3 DEF AfterClaim

LEMMA AfterCompleteStep ==
    ASSUME WInv, NEW w \in Workers, AfterComplete(w)
    PROVE  WInv'
  <1>1. CASE /\ call[w] = "ok" /\ NextOrSleep(w, Tail(batch[w]))
             /\ acked' = acked \cup {Head(batch[w])}
    <2>1. /\ pc[w] = "completing" /\ UNCHANGED <<brokerVars, stopping, late, faults, runs, produced>>
      BY DEF AfterComplete
    <2>2. status[Head(batch[w])] = "succeeded"
      BY <1>1, <2>1 DEF WInv, Local
    <2>3. Head(batch[w]) \in Tasks /\ Tail(batch[w]) \in Seq(Tasks)
      BY <2>1, BatchFacts
    <2>4. acked' \in SUBSET Tasks /\ \A t \in acked' : status[t] = "succeeded"
      BY <1>1, <2>2, <2>3, Untouched
    <2> QED BY <1>1, <2>1, <2>3, <2>4, NextOrSleepStep
  <1>2. CASE /\ call[w] \in {"refused", "broken"} /\ Send(w, "failingAgain")
             /\ UNCHANGED <<batch, acked>>
    BY <1>2, SendStep DEF AfterComplete, Awaiting
  <1> QED BY <1>1, <1>2 DEF AfterComplete

LEMMA AfterFailStep ==
    ASSUME WInv, NEW w \in Workers, AfterFail(w)
    PROVE  WInv'
  <1>1. CASE call[w] = "ok" /\ NextOrSleep(w, Tail(batch[w]))
    BY <1>1, BatchFacts, Untouched, NextOrSleepStep DEF AfterFail, history
  <1>2. CASE Send(w, "failingAgain") /\ UNCHANGED batch
    BY <1>2, SendStep DEF AfterFail, Awaiting, history
  <1>3. CASE NextOrSleep(w, <<>>)
    BY <1>3, BatchFacts, Untouched, NextOrSleepStep DEF AfterFail, history
  <1> QED BY <1>1, <1>2, <1>3 DEF AfterFail

LEMMA StartStep ==
    ASSUME WInv, NEW w \in Workers, Start(w)
    PROVE  WInv'
  <1>1. call[w] = "none"
    BY BatchFacts DEF Start, WInv, Local, Awaiting
  <1>2. Moved(w, "idle", batch[w], call[w])
    BY BatchFacts DEF Start, Moved
  <1> QED BY <1>1, <1>2, BatchFacts, Untouched, MoveStep DEF Start, Places, history

LEMMA HandlerTimeoutStep ==
    ASSUME WInv, NEW w \in Workers, HandlerTimeout(w)
    PROVE  WInv'
  <1>1. call[w] = "none"
    BY BatchFacts DEF HandlerTimeout, WInv, Local, Awaiting
  <1>2. Moved(w, "terminating", batch[w], call[w])
    BY BatchFacts DEF HandlerTimeout, Moved
  <1> QED BY <1>1, <1>2, BatchFacts, Untouched, MoveStep DEF HandlerTimeout, Places, history

LEMMA StopStep ==
    ASSUME WInv, NEW w \in Workers, Stop(w)
    PROVE  WInv'
  <1>1. /\ stopping' \in SUBSET Workers /\ faults' \in 0..MaxFaults
        /\ UNCHANGED <<brokerVars, batch, call, late, history>>
    BY Untouched, BoundsNatural DEF Stop
  <1>2. CASE pc[w] = "idle"
    <2>1. call[w] = "none"
      BY <1>2, BatchFacts DEF WInv, Local, Awaiting
    <2>2. Moved(w, "stopped", batch[w], call[w])
      BY <1>2, BatchFacts DEF Stop, Moved
    <2> QED BY <1>1, <2>1, <2>2, BatchFacts, Untouched, MoveStep DEF Places, history
  <1>3. CASE pc[w] # "idle"
    <2>1. Moved(w, pc[w], batch[w], call[w])
      BY <1>3, BatchFacts DEF Stop, Moved
    <2>2. /\ pc[w] \notin {"stopped", "idle"} /\ (call[w] # "none" => pc[w] \in Awaiting)
          /\ (pc[w] = "completing" => Head(batch[w]) \in produced)
      BY <1>3 DEF Stop, WInv, Local
    <2> QED BY <1>1, <2>1, <2>2, BatchFacts, Untouched, MoveStep DEF history
  <1> QED BY <1>2, <1>3

LEMMA BegunStep ==
    ASSUME WInv, NEW w \in Workers, pc[w] = "starting", call[w] = "ok",
           Moved(w, "handling", batch[w], "none"),
           runs' = [runs EXCEPT ![Head(batch[w])] = @ + 1],
           UNCHANGED <<brokerVars, stopping, late, faults, produced, acked>>
    PROVE  WInv'
  <1> DEFINE k == Head(batch[w])
  <1>0. /\ batch[w] \in Seq(Tasks) /\ batch[w] # <<>> /\ k \in Tasks
        /\ "handling" \in Places /\ "none" \in Calls
    BY BatchFacts DEF Places, Calls
  <1>1. /\ pc' \in [Workers -> Places] /\ batch' \in [Workers -> Seq(Tasks)]
        /\ call' \in [Workers -> Calls]
        /\ pc'[w] = "handling" /\ batch'[w] = batch[w] /\ call'[w] = "none"
        /\ \A v \in Workers \ {w} : pc'[v] = pc[v] /\ batch'[v] = batch[v] /\ call'[v] = call[v]
    BY <1>0, MoveFacts DEF WInv
  <1>2. /\ runs' \in [Tasks -> Nat] /\ runs'[k] = runs[k] + 1
        /\ \A t \in Tasks \ {k} : runs'[t] = runs[t]
    BY <1>0 DEF WInv, TypeOK
  <1>3. TypeOK'
    BY <1>1, <1>2 DEF WInv, TypeOK, brokerVars, Places, Calls
  <1>4. ASSUME NEW v \in Workers PROVE Local(v)'
    BY <1>0, <1>1 DEF WInv, Local, brokerVars
  <1>5. LateProduced' /\ ProducedGood' /\ SuccessWasProduced' /\ AckedStays'
    BY DEF WInv, LateProduced, ProducedGood, SuccessWasProduced, AckedStays, brokerVars
  <1>6. ASSUME NEW t \in Tasks
        PROVE  (runs[t] + Cardinality(Starters(t)) + Due(t) <= 1 + requeues[t] + reassigns)'
    <2>1. /\ Due(t)' = Due(t) /\ requeues'[t] = requeues[t] /\ reassigns' = reassigns
      BY DEF Due, brokerVars
    <2>2. /\ runs[t] \in Nat /\ requeues[t] \in Nat /\ reassigns \in Nat
          /\ Cardinality(Starters(t)) \in Nat /\ Due(t) \in {0, 1}
      BY PaidTypes DEF WInv
    <2>3. IsFiniteSet(Starters(t)) /\ Cardinality(Starters(t)') \in Nat
      BY StartersFinite, StartersFiniteNext
    <2>4. CASE t = k
      <3>1. w \in Starters(t) /\ Starters(t)' = Starters(t) \ {w}
        BY <1>1, <2>4 DEF Starters
      <3>2. Cardinality(Starters(t)') = Cardinality(Starters(t)) - 1
        BY <2>3, <3>1, FS_RemoveElement
      <3>3. runs'[t] = runs[t] + 1
        BY <1>2, <2>4
      <3>4. Cardinality(Starters(t))' = Cardinality(Starters(t)')
        OBVIOUS
      <3>5. runs[t] + Cardinality(Starters(t)) + Due(t) <= 1 + requeues[t] + reassigns
        BY DEF WInv, Paid
      <3> QED BY <2>1, <2>2, <2>3, <3>2, <3>3, <3>4, <3>5
    <2>5. CASE t # k
      <3>1. Starters(t)' = Starters(t)
        BY <1>1, <2>5 DEF Starters
      <3>2. runs'[t] = runs[t]
        BY <1>2, <2>5
      <3>3. Cardinality(Starters(t))' = Cardinality(Starters(t))
        BY <3>1
      <3>4. runs[t] + Cardinality(Starters(t)) + Due(t) <= 1 + requeues[t] + reassigns
        BY DEF WInv, Paid
      <3> QED BY <2>1, <3>2, <3>3, <3>4
    <2> QED BY <2>4, <2>5
  <1>7. Paid'
    BY <1>6 DEF Paid
  <1> QED BY <1>3, <1>4, <1>5, <1>7 DEF WInv

LEMMA AfterStartStep ==
    ASSUME WInv, NEW w \in Workers, AfterStart(w)
    PROVE  WInv'
  <1>1. CASE /\ call[w] = "ok" /\ pc' = [pc EXCEPT ![w] = "handling"]
             /\ call' = [call EXCEPT ![w] = "none"]
             /\ runs' = [runs EXCEPT ![Head(batch[w])] = @ + 1]
    <2>1. Moved(w, "handling", batch[w], "none")
      BY <1>1, BatchFacts DEF AfterStart, Moved
    <2> QED BY <1>1, <2>1, BegunStep DEF AfterStart
  <1>2. CASE /\ call[w] \in {"refused", "broken"} /\ Send(w, "failingAgain") /\ UNCHANGED runs
    BY <1>2, SendStep DEF AfterStart, Awaiting
  <1> QED BY <1>1, <1>2 DEF AfterStart

(* A request given up on stays what it was.                                *)
LEMMA LateFacts ==
    ASSUME WInv, NEW w \in Workers, call[w] = "sent", produced' = produced,
           late' = late \/ late' = late \cup {[op |-> Op(w), task |-> Head(batch[w]), worker |-> w]}
    PROVE  late' \in SUBSET Requests /\ LateProduced'
  <1> DEFINE m == [op |-> Op(w), task |-> Head(batch[w]), worker |-> w]
  <1>1. pc[w] \in Awaiting /\ Head(batch[w]) \in Tasks
    BY BatchFacts DEF WInv, Local, Awaiting
  <1>2. Op(w) \in {"claim", "start", "complete", "fail"} /\ (Op(w) = "complete" => pc[w] = "completing")
    BY <1>1 DEF Op, Awaiting
  <1>3. m \in Requests /\ m.op = Op(w) /\ m.task = Head(batch[w])
    BY <1>1, <1>2 DEF Requests
  <1>4. m.op = "complete" => m.task \in produced
    BY <1>2, <1>3 DEF WInv, Local
  <1>5. late' \in SUBSET (late \cup {m})
    OBVIOUS
  <1> HIDE DEF m
  <1> QED BY <1>3, <1>4, <1>5, Untouched DEF WInv, LateProduced

LEMMA BreakStep ==
    ASSUME WInv, NEW w \in Workers, Break(w)
    PROVE  WInv'
  <1>1. Moved(w, pc[w], batch[w], "broken")
    BY BatchFacts DEF Break, Moved
  <1>2. faults' \in 0..MaxFaults
    BY Untouched, BoundsNatural DEF Break
  <1>3. UNCHANGED <<brokerVars, stopping, history>> /\ call[w] \in {"sent", "ok", "refused"}
    BY DEF Break
  <1>4. late' \in SUBSET Requests /\ LateProduced'
    <2>1. CASE call[w] = "sent"
      BY <1>3, <2>1, LateFacts DEF Break, history
    <2>2. CASE late' = late
      BY <1>3, <2>2, Untouched DEF history
    <2> QED BY <2>1, <2>2 DEF Break
  <1>5. /\ pc[w] \in Awaiting /\ pc[w] \notin {"stopped", "idle"} /\ batch[w] # <<>>
        /\ pc[w] = "completing" => Head(batch[w]) \in produced
    BY <1>3 DEF WInv, Local, Awaiting
  <1> QED BY <1>1, <1>2, <1>3, <1>4, <1>5, BatchFacts, Untouched, MoveStep DEF Calls, history

LEMMA CrashStep ==
    ASSUME WInv, NEW w \in Workers, Crash(w)
    PROVE  WInv'
  <1>1. Moved(w, "stopped", <<>>, "none")
    BY DEF Crash, Moved
  <1>2. faults' \in 0..MaxFaults
    BY Untouched, BoundsNatural DEF Crash
  <1>3. UNCHANGED <<brokerVars, stopping, history>>
    BY DEF Crash
  <1>4. late' \in SUBSET Requests /\ LateProduced'
    <2>1. CASE call[w] = "sent"
      BY <1>3, <2>1, LateFacts DEF Crash, history
    <2>2. CASE call[w] # "sent"
      BY <1>3, <2>2, Untouched DEF Crash, history
    <2> QED BY <2>1, <2>2
  <1>5. "stopped" \in Places /\ "none" \in Calls
    BY DEF Places, Calls
  <1> QED BY <1>1, <1>2, <1>3, <1>4, <1>5, BatchFacts, Untouched, MoveStep DEF history

(* The handler ends: only a good result is recorded and completed.         *)
LEMMA HandlerReturnsStep ==
    ASSUME WInv, NEW w \in Workers, HandlerReturns(w)
    PROVE  WInv'
  <1> DEFINE k == Head(batch[w])
  <1>1. /\ pc[w] \in {"handling", "terminating"}
        /\ UNCHANGED <<status, assigned, requeues, reassigns, silent, batch, stopping,
                       late, faults, runs, acked>>
    BY DEF HandlerReturns
  <1>2. PICK outcome, e : e \in Evidence /\ Report(w, outcome, e)
    <2>1. NoEvidence \in Evidence
      BY DEF NoEvidence, Evidence
    <2> QED BY <2>1 DEF HandlerReturns
  <1> DEFINE good == outcome = "result" /\ EvidenceOK(Mode[k], e)
             at == IF good THEN "completing"
                   ELSE IF outcome = "throw" THEN "failingAgain" ELSE "failing"
  <1>3. /\ Send(w, at) /\ produced' = (IF good THEN produced \cup {k} ELSE produced)
        /\ evidence' = (IF good THEN [evidence EXCEPT ![k] = e] ELSE evidence)
    BY <1>2 DEF Report
  <1>4. /\ batch[w] \in Seq(Tasks) /\ batch[w] # <<>> /\ k \in Tasks
    BY <1>1, BatchFacts
  <1>5. Moved(w, at, batch[w], "sent")
    BY <1>1, <1>3, BatchFacts DEF Send, Moved
  <1>6. at \in Awaiting /\ at \in Places /\ "sent" \in Calls /\ at # "starting"
    BY DEF Awaiting, Places, Calls
  <1>7. at = "completing" => k \in produced'
    BY <1>3
  <1>8. /\ produced \subseteq produced' /\ produced' \in SUBSET Tasks
        /\ evidence' \in [Tasks -> Evidence]
    BY <1>2, <1>3, <1>4 DEF WInv, TypeOK
  <1>9. ProducedGood'
    <2>1. CASE good
      <3>1. evidence'[k] = e /\ \A t \in Tasks \ {k} : evidence'[t] = evidence[t]
        BY <1>3, <1>4, <2>1 DEF WInv, TypeOK
      <3>2. \A t \in produced' \ {k} : t \in produced /\ t \in Tasks
        BY <1>3, <1>8, <2>1
      <3>3. EvidenceOK(Mode[k], e)
        BY <2>1
      <3> QED BY <3>1, <3>2, <3>3 DEF WInv, ProducedGood
    <2>2. CASE ~good
      BY <1>3, <2>2 DEF WInv, ProducedGood
    <2> QED BY <2>1, <2>2
  <1> HIDE DEF good, at
  <1>10. /\ pc' \in [Workers -> Places] /\ batch' \in [Workers -> Seq(Tasks)]
         /\ call' \in [Workers -> Calls]
         /\ pc'[w] = at /\ batch'[w] = batch[w] /\ call'[w] = "sent"
         /\ \A v \in Workers \ {w} : pc'[v] = pc[v] /\ batch'[v] = batch[v] /\ call'[v] = call[v]
    BY <1>4, <1>5, <1>6, MoveFacts DEF WInv
  <1>11. TypeOK'
    BY <1>1, <1>8, <1>10 DEF WInv, TypeOK, Places, Calls
  <1>12. ASSUME NEW v \in Workers PROVE Local(v)'
    <2>1. CASE v = w
      BY <1>4, <1>6, <1>7, <1>10, <2>1 DEF Local
    <2>2. CASE v # w
      BY <1>1, <1>8, <1>10, <2>2 DEF WInv, Local
    <2> QED BY <2>1, <2>2
  <1>13. LateProduced' /\ SuccessWasProduced' /\ AckedStays'
    BY <1>1, <1>8 DEF WInv, LateProduced, SuccessWasProduced, AckedStays
  <1>14. Paid'
    <2>1. \A t \in Tasks : Starters(t)' \subseteq Starters(t)
      BY <1>6, <1>10 DEF Starters
    <2>2. \A t \in Tasks : Due(t)' <= Due(t)
      BY <1>1 DEF Due
    <2> QED BY <1>1, <2>1, <2>2, PaidKept
  <1> QED BY <1>9, <1>11, <1>12, <1>13, <1>14 DEF WInv

-----------------------------------------------------------------------------
(* Steps of the broker: a settled task stays as it is, and a success comes *)
(* only with a result that was produced.                                   *)

Statuses == {"queued"} \cup Held \cup Settled

SettledStay ==
    /\ \A t \in Tasks : status[t] \in Settled => status'[t] = status[t]
    /\ \A t \in Tasks : status'[t] = "succeeded" => status[t] = "succeeded" \/ t \in produced

LEMMA BrokerStep ==
    ASSUME WInv, UNCHANGED <<pc, batch, stopping, runs, produced, acked, evidence>>, SettledStay,
           status' \in [Tasks -> Statuses], assigned' \in [Tasks -> Workers],
           requeues' \in [Tasks -> 0..MaxRequeueAttempts], reassigns' \in 0..MaxReassigns,
           silent' \in SUBSET Tasks, faults' \in 0..MaxFaults, late' \in SUBSET late,
           call' \in [Workers -> Calls],
           \A v \in Workers : call'[v] = call[v] \/
              (/\ call[v] = "sent"
               /\ (call'[v] = "ok" /\ pc[v] = "completing" => status'[Head(batch[v])] = "succeeded")),
           Paid'
    PROVE  WInv'
  <1>1. TypeOK'
    BY DEF WInv, TypeOK, Statuses, Calls
  <1>2. ASSUME NEW v \in Workers PROVE Local(v)'
    <2>1. Local(v) /\ (pc[v] = "completing" => Head(batch[v]) \in Tasks)
      BY BatchFacts DEF WInv
    <2>2. CASE call'[v] = call[v]
      BY <2>1, <2>2 DEF Local, SettledStay, Settled
    <2>3. CASE /\ call[v] = "sent"
               /\ (call'[v] = "ok" /\ pc[v] = "completing" => status'[Head(batch[v])] = "succeeded")
      BY <2>1, <2>3 DEF Local
    <2> QED BY <2>2, <2>3
  <1>3. LateProduced' /\ ProducedGood'
    BY DEF WInv, LateProduced, ProducedGood
  <1>4. SuccessWasProduced'
    BY DEF WInv, SuccessWasProduced, SettledStay
  <1>5. AckedStays'
    BY DEF WInv, TypeOK, AckedStays, SettledStay, Settled
  <1> QED BY <1>1, <1>2, <1>3, <1>4, <1>5 DEF WInv

(* What the broker's answer to a request does to the task.                 *)
LEMMA ApplyFacts ==
    ASSUME WInv, NEW op \in {"claim", "start", "complete", "fail"}, NEW t \in Tasks, NEW w \in Workers,
           Apply(op, t, w), op = "complete" => t \in produced, produced' = produced
    PROVE  /\ status' \in [Tasks -> Statuses] /\ silent' \in SUBSET Tasks /\ SettledStay
           /\ \A u \in Tasks : Due(u)' <= Due(u)
           /\ Accepts(op, t, w) => status'[t] = After(op)
           /\ Accepts(op, t, w) /\ op = "start" => Due(t) = 1 /\ Due(t)' = 0
  <1>0. /\ status \in [Tasks -> Statuses] /\ silent \in SUBSET Tasks
    BY DEF WInv, TypeOK, Statuses
  <1>1. CASE ~Accepts(op, t, w)
    BY <1>0, <1>1 DEF Apply, SettledStay, Due
  <1>2. CASE Accepts(op, t, w)
    <2>1. status' = [status EXCEPT ![t] = After(op)] /\ silent' = silent \ {t}
      BY <1>2 DEF Apply
    <2>2. After(op) \in Statuses
      BY DEF After, Statuses, Held, Settled
    <2>3. status'[t] = After(op) /\ \A u \in Tasks \ {t} : status'[u] = status[u]
      BY <1>0, <2>1
    <2>4. status[t] \notin Settled
      BY <1>2 DEF Accepts, Held, Settled
    <2>5. After(op) = "succeeded" => t \in produced
      BY DEF After
    <2>6. SettledStay
      BY <2>3, <2>4, <2>5 DEF SettledStay
    <2>7. ASSUME NEW u \in Tasks PROVE Due(u)' <= Due(u)
      <3>1. CASE u # t
        BY <2>3, <3>1 DEF Due
      <3>2. CASE u = t /\ op = "claim"
        BY <1>2, <2>3, <3>2 DEF Due, Accepts, After
      <3>3. CASE u = t /\ op # "claim"
        BY <2>3, <3>3 DEF Due, After
      <3> QED BY <3>1, <3>2, <3>3
    <2>8. op = "start" => Due(t) = 1 /\ Due(t)' = 0
      BY <1>2, <2>3 DEF Accepts, After, Due
    <2> QED BY <1>0, <2>1, <2>2, <2>3, <2>6, <2>7, <2>8
  <1> QED BY <1>1, <1>2

LEMMA AnswerStep ==
    ASSUME WInv, NEW w \in Workers, Answer(w)
    PROVE  WInv'
  <1>1. /\ call[w] = "sent" /\ Apply(Op(w), Head(batch[w]), w)
        /\ call' = [call EXCEPT ![w] = IF Accepts(Op(w), Head(batch[w]), w) THEN "ok" ELSE "refused"]
        /\ UNCHANGED <<assigned, requeues, reassigns, evidence, pc, batch, stopping, late, faults, history>>
    BY DEF Answer
  <1>2. pc[w] \in Awaiting /\ Head(batch[w]) \in Tasks
    BY <1>1, BatchFacts DEF WInv, Local, Awaiting
  <1>k. PICK k \in Tasks : k = Head(batch[w])
    BY <1>2
  <1>o. PICK op \in {"claim", "start", "complete", "fail"} : op = Op(w)
    BY <1>2 DEF Op, Awaiting
  <1>c. PICK c \in Calls : c = IF Accepts(op, k, w) THEN "ok" ELSE "refused"
    BY DEF Calls
  <1>3. /\ op = "complete" <=> pc[w] = "completing"
        /\ op = "start" <=> pc[w] = "starting"
    BY <1>2, <1>o DEF Op, Awaiting
  <1>4. op = "complete" => k \in produced
    BY <1>3, <1>k DEF WInv, Local
  <1>5. /\ produced' = produced /\ runs' = runs /\ acked' = acked
        /\ Apply(op, k, w) /\ call' = [call EXCEPT ![w] = c]
    BY <1>1, <1>k, <1>o, <1>c DEF history
  <1>6. /\ status' \in [Tasks -> Statuses] /\ silent' \in SUBSET Tasks /\ SettledStay
        /\ \A u \in Tasks : Due(u)' <= Due(u)
        /\ Accepts(op, k, w) => status'[k] = After(op)
        /\ Accepts(op, k, w) /\ op = "start" => Due(k) = 1 /\ Due(k)' = 0
    BY <1>4, <1>5, ApplyFacts
  <1>7. /\ call' \in [Workers -> Calls] /\ call'[w] = c
        /\ \A v \in Workers \ {w} : call'[v] = call[v]
    <2>1. call \in [Workers -> Calls] /\ c \in Calls
      BY DEF WInv, TypeOK, Calls
    <2> QED BY <1>5, <2>1
  <1>8. ASSUME NEW v \in Workers
        PROVE  call'[v] = call[v] \/
               (/\ call[v] = "sent"
                /\ (call'[v] = "ok" /\ pc[v] = "completing" => status'[Head(batch[v])] = "succeeded"))
    <2>1. CASE v # w
      BY <1>7, <2>1
    <2>2. CASE v = w
      <3>1. After("complete") = "succeeded"
        BY DEF After
      <3> QED BY <1>1, <1>3, <1>6, <1>7, <1>k, <1>c, <2>2, <3>1
    <2> QED BY <2>1, <2>2
  <1>9. Paid'
    <2>1. CASE Accepts(op, k, w) /\ op = "start"
      <3> SUFFICES ASSUME NEW t \in Tasks
                   PROVE  (runs[t] + Cardinality(Starters(t)) + Due(t) <= 1 + requeues[t] + reassigns)'
        BY DEF Paid
      <3>1. requeues'[t] = requeues[t] /\ reassigns' = reassigns /\ runs'[t] = runs[t]
        BY <1>1, <1>5
      <3>2. /\ runs[t] \in Nat /\ requeues[t] \in Nat /\ reassigns \in Nat
            /\ Cardinality(Starters(t)) \in Nat /\ Due(t) \in {0, 1}
        BY PaidTypes DEF WInv
      <3>3. Cardinality(Starters(t))' = Cardinality(Starters(t)')
        OBVIOUS
      <3>4. runs[t] + Cardinality(Starters(t)) + Due(t) <= 1 + requeues[t] + reassigns
        BY DEF WInv, Paid
      <3>5. CASE t = k
        <4>1. w \notin Starters(t) /\ Starters(t)' = Starters(t) \cup {w}
          <5>1. call'[w] = "ok" /\ pc'[w] = "starting" /\ Head(batch'[w]) = t /\ call[w] = "sent"
            BY <1>1, <1>3, <1>7, <1>k, <1>c, <2>1, <3>5
          <5> QED BY <1>1, <1>7, <5>1 DEF Starters
        <4>2. Cardinality(Starters(t)') = Cardinality(Starters(t)) + 1
          BY <4>1, StartersFinite, FS_AddElement
        <4>3. Due(t) = 1 /\ Due(t)' = 0
          BY <1>6, <2>1, <3>5
        <4> QED BY <3>1, <3>2, <3>3, <3>4, <4>2, <4>3
      <3>6. CASE t # k
        <4>1. Starters(t)' = Starters(t)
          BY <1>1, <1>7, <3>6, <1>k DEF Starters
        <4>2. Due(t)' \in {0, 1} /\ Due(t)' <= Due(t)
          BY <1>6 DEF Due
        <4>3. Cardinality(Starters(t))' = Cardinality(Starters(t))
          BY <4>1
        <4> QED BY <3>1, <3>2, <3>4, <4>2, <4>3
      <3> QED BY <3>5, <3>6
    <2>2. CASE ~(Accepts(op, k, w) /\ op = "start")
      <3>1. \A t \in Tasks : Starters(t)' \subseteq Starters(t)
        BY <1>1, <1>3, <1>7, <1>c, <2>2 DEF Starters
      <3> QED BY <1>1, <1>5, <1>6, <3>1, PaidKept
    <2> QED BY <2>1, <2>2
  <1>10. /\ assigned \in [Tasks -> Workers] /\ requeues \in [Tasks -> 0..MaxRequeueAttempts]
         /\ reassigns \in 0..MaxReassigns /\ faults \in 0..MaxFaults
    BY DEF WInv, TypeOK
  <1> QED BY <1>1, <1>5, <1>6, <1>7, <1>8, <1>9, <1>10, BrokerStep

LEMMA LateArrivalStep ==
    ASSUME WInv, NEW m \in late, LateArrival(m)
    PROVE  WInv'
  <1>1. /\ late' \in SUBSET late /\ Apply(m.op, m.task, m.worker)
        /\ UNCHANGED <<assigned, requeues, reassigns, evidence, workerVars, faults, history>>
    BY DEF LateArrival
  <1>2. /\ m.op \in {"claim", "start", "complete", "fail"} /\ m.task \in Tasks /\ m.worker \in Workers
        /\ (m.op = "complete" => m.task \in produced)
    BY Untouched DEF WInv, LateProduced, Requests
  <1>3. /\ UNCHANGED <<pc, batch, call, stopping, runs, produced, acked>>
    BY <1>1 DEF history, workerVars
  <1>4. /\ status' \in [Tasks -> Statuses] /\ silent' \in SUBSET Tasks /\ SettledStay
        /\ \A u \in Tasks : Due(u)' <= Due(u)
    BY <1>1, <1>2, <1>3, ApplyFacts
  <1>5. Paid'
    <2>1. \A t \in Tasks : Starters(t)' \subseteq Starters(t)
      BY <1>3 DEF Starters
    <2> QED BY <1>1, <1>3, <1>4, <2>1, PaidKept
  <1>6. /\ assigned \in [Tasks -> Workers] /\ requeues \in [Tasks -> 0..MaxRequeueAttempts]
        /\ reassigns \in 0..MaxReassigns /\ faults \in 0..MaxFaults /\ call \in [Workers -> Calls]
    BY DEF WInv, TypeOK, Calls
  <1> QED BY <1>1, <1>3, <1>4, <1>5, <1>6, BrokerStep

(* Heartbeats and silences move nothing but the signal.                    *)
LEMMA SignalStep ==
    ASSUME WInv, silent' \in SUBSET Tasks, faults' \in 0..MaxFaults,
           UNCHANGED <<status, assigned, requeues, reassigns, evidence, workerVars, late, history>>
    PROVE  WInv'
  <1>1. UNCHANGED <<pc, batch, call, stopping, runs, produced, acked>>
    BY DEF history, workerVars
  <1>2. Paid'
    <2>1. \A t \in Tasks : Starters(t)' \subseteq Starters(t) /\ Due(t)' <= Due(t)
      BY <1>1 DEF Starters, Due
    <2> QED BY <1>1, <2>1, PaidKept
  <1>3. /\ status \in [Tasks -> Statuses] /\ SettledStay
        /\ assigned \in [Tasks -> Workers] /\ requeues \in [Tasks -> 0..MaxRequeueAttempts]
        /\ reassigns \in 0..MaxReassigns /\ call \in [Workers -> Calls]
    BY DEF WInv, TypeOK, Calls, Statuses, SettledStay
  <1> QED BY <1>1, <1>2, <1>3, BrokerStep

LEMMA TaskHeartbeatStep ==
    ASSUME WInv, NEW w \in Workers, TaskHeartbeat(w)
    PROVE  WInv'
  <1>1. silent' \in SUBSET Tasks /\ faults' \in 0..MaxFaults
    BY DEF TaskHeartbeat, WInv, TypeOK
  <1> QED BY <1>1, SignalStep DEF TaskHeartbeat

LEMMA FallSilentStep ==
    ASSUME WInv, NEW t \in Tasks, FallSilent(t) \/ LoseHeartbeats(t)
    PROVE  WInv'
  <1>1. silent' \in SUBSET Tasks /\ faults' \in 0..MaxFaults
    BY BoundsNatural DEF FallSilent, LoseHeartbeats, WInv, TypeOK
  <1> QED BY <1>1, SignalStep DEF FallSilent, LoseHeartbeats

(* A counted requeue pays for the next execution of each task it requeues. *)
LEMMA ReaperSweepStep ==
    ASSUME WInv, ReaperSweep
    PROVE  WInv'
  <1>1. /\ UNCHANGED <<assigned, reassigns, evidence, workerVars, late, faults, history>>
        /\ UNCHANGED <<pc, batch, call, stopping, runs, produced, acked>>
    BY DEF ReaperSweep, workerVars, history
  <1>2. /\ status \in [Tasks -> Statuses] /\ silent \in SUBSET Tasks
        /\ requeues \in [Tasks -> 0..MaxRequeueAttempts]
    BY DEF WInv, TypeOK, Statuses
  <1>3. ASSUME NEW t \in Tasks
        PROVE  /\ t \notin Stale => status'[t] = status[t] /\ requeues'[t] = requeues[t]
               /\ t \in Stale /\ requeues[t] >= MaxRequeueAttempts =>
                     status'[t] = "failed" /\ requeues'[t] = requeues[t]
               /\ t \in Stale /\ requeues[t] < MaxRequeueAttempts =>
                     status'[t] = "queued" /\ requeues'[t] = requeues[t] + 1
               /\ requeues[t] >= MaxRequeueAttempts \/ requeues[t] < MaxRequeueAttempts
               /\ t \in Stale => status[t] \in Held
    BY <1>2, BoundsNatural DEF ReaperSweep, RequeuesAfter, Stale
  <1>4. status' \in [Tasks -> Statuses] /\ silent' \in SUBSET Tasks
    <2>1. DOMAIN status' = Tasks /\ status' = [t \in Tasks |-> status'[t]] /\ silent' \in SUBSET Tasks
      BY <1>2 DEF ReaperSweep
    <2>2. \A t \in Tasks : status'[t] \in Statuses
      BY <1>2, <1>3 DEF Statuses, Settled
    <2> QED BY <2>1, <2>2
  <1>5. requeues' \in [Tasks -> 0..MaxRequeueAttempts]
    BY <1>2, BoundsNatural DEF ReaperSweep, RequeuesAfter
  <1>6. SettledStay
    BY <1>3 DEF SettledStay, Held, Settled
  <1>7. Paid'
    <2> SUFFICES ASSUME NEW t \in Tasks
                 PROVE  (runs[t] + Cardinality(Starters(t)) + Due(t) <= 1 + requeues[t] + reassigns)'
      BY DEF Paid
    <2>1. Starters(t)' = Starters(t) /\ Cardinality(Starters(t))' = Cardinality(Starters(t))
      BY <1>1 DEF Starters
    <2>2. /\ runs[t] \in Nat /\ requeues[t] \in Nat /\ reassigns \in Nat
          /\ Cardinality(Starters(t)) \in Nat /\ Due(t) \in {0, 1}
      BY PaidTypes DEF WInv
    <2>3. \/ requeues'[t] = requeues[t] /\ Due(t)' \in {0, 1} /\ Due(t)' <= Due(t)
          \/ requeues'[t] = requeues[t] + 1 /\ Due(t)' = 1
      BY <1>3 DEF Due
    <2>4. runs'[t] = runs[t] /\ reassigns' = reassigns
      BY <1>1
    <2>5. runs[t] + Cardinality(Starters(t)) + Due(t) <= 1 + requeues[t] + reassigns
      BY DEF WInv, Paid
    <2> QED BY <2>1, <2>2, <2>3, <2>4, <2>5
  <1>8. /\ assigned \in [Tasks -> Workers] /\ reassigns \in 0..MaxReassigns
        /\ faults \in 0..MaxFaults /\ call \in [Workers -> Calls]
    BY DEF WInv, TypeOK, Calls
  <1> QED BY <1>1, <1>4, <1>5, <1>6, <1>7, <1>8, BrokerStep

(* A counted reassignment pays for the execution it admits.                *)
LEMMA ReassignStep ==
    ASSUME WInv, NEW k \in Tasks, NEW w \in Workers, Reassign(k, w)
    PROVE  WInv'
  <1>1. /\ UNCHANGED <<requeues, evidence, workerVars, late, faults, history>>
        /\ UNCHANGED <<pc, batch, call, stopping, runs, produced, acked>>
        /\ reassigns' = reassigns + 1 /\ status[k] \notin Settled
    BY DEF Reassign, workerVars, history
  <1>2. /\ status' \in [Tasks -> Statuses] /\ silent' \in SUBSET Tasks
        /\ assigned' \in [Tasks -> Workers]
        /\ status'[k] = "queued" /\ \A t \in Tasks \ {k} : status'[t] = status[t]
    BY DEF Reassign, WInv, TypeOK, Statuses
  <1>3. reassigns' \in 0..MaxReassigns
    BY BoundsNatural DEF Reassign, WInv, TypeOK
  <1>4. SettledStay
    BY <1>1, <1>2 DEF SettledStay
  <1>5. Paid'
    <2> SUFFICES ASSUME NEW t \in Tasks
                 PROVE  (runs[t] + Cardinality(Starters(t)) + Due(t) <= 1 + requeues[t] + reassigns)'
      BY DEF Paid
    <2>1. Starters(t)' = Starters(t) /\ Cardinality(Starters(t))' = Cardinality(Starters(t))
      BY <1>1 DEF Starters
    <2>2. /\ runs[t] \in Nat /\ requeues[t] \in Nat /\ reassigns \in Nat
          /\ Cardinality(Starters(t)) \in Nat /\ Due(t) \in {0, 1}
      BY PaidTypes DEF WInv
    <2>3. runs'[t] = runs[t] /\ requeues'[t] = requeues[t] /\ Due(t)' \in {0, 1}
      BY <1>1 DEF Due
    <2>4. runs[t] + Cardinality(Starters(t)) + Due(t) <= 1 + requeues[t] + reassigns
      BY DEF WInv, Paid
    <2> QED BY <1>1, <2>1, <2>2, <2>3, <2>4
  <1>6. /\ requeues \in [Tasks -> 0..MaxRequeueAttempts]
        /\ faults \in 0..MaxFaults /\ call \in [Workers -> Calls]
    BY DEF WInv, TypeOK, Calls
  <1> QED BY <1>1, <1>2, <1>3, <1>4, <1>5, <1>6, BrokerStep

-----------------------------------------------------------------------------
LEMMA InitWInv == Init => WInv
  <1> SUFFICES ASSUME Init PROVE WInv
    OBVIOUS
  <1>1. TypeOK
    BY BoundsNatural DEF Init, TypeOK, NoEvidence, Evidence
  <1>2. ASSUME NEW w \in Workers PROVE Local(w)
    BY DEF Init, Local
  <1>3. LateProduced /\ ProducedGood /\ SuccessWasProduced /\ AckedStays
    BY DEF Init, LateProduced, ProducedGood, SuccessWasProduced, AckedStays
  <1>4. Paid
    <2> SUFFICES ASSUME NEW t \in Tasks
                 PROVE  runs[t] + Cardinality(Starters(t)) + Due(t) <= 1 + requeues[t] + reassigns
      BY DEF Paid
    <2>1. Starters(t) = {} /\ Due(t) = 1
      BY DEF Init, Starters, Due
    <2>2. Cardinality(Starters(t)) = 0
      BY <2>1, FS_EmptySet
    <2> QED BY <2>1, <2>2 DEF Init
  <1> QED BY <1>1, <1>2, <1>3, <1>4 DEF WInv

LEMMA NextWInv == WInv /\ [Next]_vars => WInv'
  <1> SUFFICES ASSUME WInv, [Next]_vars PROVE WInv'
    OBVIOUS
  <1>1. ASSUME NEW w \in Workers, WorkerStep(w) PROVE WInv'
    BY <1>1, StartStep, PollStep, AnswerStep, AfterClaimStep, AfterStartStep, HandlerReturnsStep,
       AfterCompleteStep, AfterFailStep DEF WorkerStep
  <1>2. ASSUME NEW w \in Workers,
               TaskHeartbeat(w) \/ HandlerTimeout(w) \/ Break(w) \/ Stop(w) \/ Crash(w)
        PROVE  WInv'
    BY <1>2, TaskHeartbeatStep, HandlerTimeoutStep, BreakStep, StopStep, CrashStep
  <1>3. ASSUME NEW t \in Tasks, FallSilent(t) \/ LoseHeartbeats(t) PROVE WInv'
    BY <1>3, FallSilentStep
  <1>4. ASSUME NEW t \in Tasks, NEW w \in Workers, Reassign(t, w) PROVE WInv'
    BY <1>4, ReassignStep
  <1>5. ASSUME NEW m \in late, LateArrival(m) PROVE WInv'
    BY <1>5, LateArrivalStep
  <1>6. CASE ReaperSweep
    BY <1>6, ReaperSweepStep
  <1>7. CASE UNCHANGED vars
    <2>1. /\ UNCHANGED <<status, assigned, requeues, reassigns, evidence, workerVars, late, history>>
          /\ silent' \in SUBSET Tasks /\ faults' \in 0..MaxFaults
      BY <1>7 DEF vars, brokerVars, WInv, TypeOK
    <2> QED BY <2>1, SignalStep
  <1> QED BY <1>1, <1>2, <1>3, <1>4, <1>5, <1>6, <1>7 DEF Next

(* The inductive invariant of the worker against the broker's task API     *)
(* holds in every reachable state.                                         *)
THEOREM WInvHolds == Spec => []WInv
  <1>1. Init => WInv
    BY InitWInv
  <1>2. WInv /\ [Next]_vars => WInv'
    BY NextWInv
  <1> QED BY <1>1, <1>2, PTL DEF Spec

(* processTask and the broker's evidence gate: whatever calls were lost,   *)
(* late or repeated, whoever crashed or was reassigned, a task the broker  *)
(* shows succeeded had a handler execution with a result that passed the   *)
(* evidence check of its lane, and one whose worker saw the completion     *)
(* accepted stays succeeded.                                               *)
THEOREM SuccessIsEarnedHolds == Spec => []SuccessIsEarned
  <1>1. WInv => SuccessIsEarned
    <2> SUFFICES ASSUME WInv PROVE SuccessIsEarned
      OBVIOUS
    <2>1. SuccessHasEvidence
      <3> SUFFICES ASSUME NEW t \in Tasks, status[t] = "succeeded"
                   PROVE  /\ Mode[t] = "validation" => evidence[t].comment
                          /\ Mode[t] = "patch" => evidence[t].pr \/ evidence[t].comment
                          /\ Mode[t] # "other" => evidence[t].receiptOK
        BY DEF SuccessHasEvidence
      <3>1. EvidenceOK(Mode[t], evidence[t])
        BY DEF WInv, SuccessWasProduced, ProducedGood
      <3> QED BY <3>1 DEF EvidenceOK, NeedsEvidence, LinksOK
    <2> QED BY <2>1 DEF WInv, SuccessIsEarned
  <1> QED BY <1>1, WInvHolds, PTL

(* The claim and start routes, requeueStaleTasks and reassignTask          *)
(* together: every handler execution of a task is paid for by its first    *)
(* queueing, a counted requeue or a counted reassignment, so a lost or     *)
(* repeated answer never runs the handler twice within one attempt.        *)
THEOREM RunsBoundedHolds == Spec => []RunsBounded
  <1>1. WInv => RunsBounded
    <2> SUFFICES ASSUME WInv, NEW t \in Tasks PROVE runs[t] <= 1 + requeues[t] + reassigns
      BY DEF RunsBounded
    <2>1. runs[t] + Cardinality(Starters(t)) + Due(t) <= 1 + requeues[t] + reassigns
      BY DEF WInv, Paid
    <2>2. /\ runs[t] \in Nat /\ requeues[t] \in Nat /\ reassigns \in Nat
          /\ Cardinality(Starters(t)) \in Nat /\ Due(t) \in {0, 1}
      BY PaidTypes DEF WInv
    <2> QED BY <2>1, <2>2
  <1> QED BY <1>1, WInvHolds, PTL

-----------------------------------------------------------------------------
(* BoundedPoller *)

(* Only the newest poller runs, and the ones to come have never run.       *)
PollersOK ==
    /\ bpUsed \in Nat
    /\ bpUsed # 0 => bpUsed \in Pollers
    /\ bpRunning \in [Pollers -> BOOLEAN]
    /\ bpTimer \in [Pollers -> BOOLEAN]
    /\ bpBusy \in [Pollers -> BOOLEAN]
    /\ \A p \in Pollers : bpRunning[p] => p = bpUsed
    /\ \A p \in Pollers : p > bpUsed => ~ bpBusy[p]

PollerInv == PollersOK /\ OneChain

(* scheduleNext gives a timer to the poller whose cycle has just ended, if *)
(* it still runs.                                                          *)
LEMMA CycleEnds ==
    ASSUME PollerInv, NEW p \in Pollers, bpBusy[p], ScheduleNext(p),
           bpBusy' = [bpBusy EXCEPT ![p] = FALSE],
           UNCHANGED <<bpUsed, bpRunning>>
    PROVE  PollerInv'
  <1>1. PollersOK'
    BY DEF PollerInv, PollersOK, ScheduleNext
  <1>2. OneChain'
    <2>1. \A q \in Pollers : IF bpRunning'[q] THEN bpTimer'[q] # bpBusy'[q] ELSE ~ bpTimer'[q]
      <3> SUFFICES ASSUME NEW q \in Pollers
                   PROVE  IF bpRunning'[q] THEN bpTimer'[q] # bpBusy'[q] ELSE ~ bpTimer'[q]
        OBVIOUS
      <3>1. CASE q = p
        <4>1. bpTimer'[q] = bpRunning[q] /\ ~ bpBusy'[q]
          BY <3>1 DEF PollerInv, PollersOK, ScheduleNext
        <4> QED BY <4>1
      <3>2. CASE q # p
        <4>1. bpTimer'[q] = bpTimer[q] /\ bpBusy'[q] = bpBusy[q]
          BY <3>2 DEF PollerInv, PollersOK, ScheduleNext
        <4> QED BY <4>1 DEF PollerInv, OneChain
      <3> QED BY <3>1, <3>2
    <2>2. \A q \in Pollers : bpTimer'[q] => q = bpUsed
      <3> SUFFICES ASSUME NEW q \in Pollers, bpTimer'[q]
                   PROVE  q = bpUsed
        OBVIOUS
      <3>1. bpRunning[q]
        BY <2>1
      <3> QED BY <3>1 DEF PollerInv, PollersOK
    <2> QED BY <2>1, <2>2 DEF OneChain
  <1> QED BY <1>1, <1>2 DEF PollerInv

LEMMA PollerInvInitially == PollerInit => PollerInv
  BY DEF PollerInit, PollerInv, PollersOK, OneChain

LEMMA PollerInvPreserved ==
    ASSUME PollerInv, [PollerNext]_bpVars
    PROVE  PollerInv'
  <1>1. CASE StartPoller
    <2> DEFINE n == bpUsed + 1
    <2>1. n \in Pollers /\ n # bpUsed /\ ~ bpBusy[n]
      BY <1>1 DEF StartPoller, PollerInv, PollersOK
    <2>2. \A q \in Pollers : ~ bpRunning[q] /\ ~ bpTimer[q]
      <3>1. \A q \in Pollers : ~ bpRunning[q]
        BY <1>1, PollerAssumption DEF StartPoller, Current, PollerInv, PollersOK
      <3> QED BY <3>1 DEF PollerInv, OneChain
    <2>3. \A q \in Pollers : /\ bpRunning'[q] = (q = n)
                             /\ bpTimer'[q] = (q = n)
                             /\ bpBusy'[q] = bpBusy[q]
      BY <1>1, <2>2 DEF StartPoller, PollerInv, PollersOK
    <2>4. PollersOK'
      <3>1. bpUsed' = n /\ bpUsed' \in Nat
        BY <1>1 DEF StartPoller, PollerInv, PollersOK
      <3>2. /\ bpRunning' \in [Pollers -> BOOLEAN]
            /\ bpTimer' \in [Pollers -> BOOLEAN]
            /\ bpBusy' \in [Pollers -> BOOLEAN]
        BY <1>1 DEF StartPoller, PollerInv, PollersOK
      <3>3. \A q \in Pollers : bpRunning'[q] => q = bpUsed'
        BY <2>3, <3>1
      <3>4. \A q \in Pollers : q > n => q > bpUsed
        BY PollerAssumption DEF PollerInv, PollersOK
      <3>5. \A q \in Pollers : q > bpUsed' => ~ bpBusy'[q]
        BY <2>3, <3>1, <3>4 DEF PollerInv, PollersOK
      <3> QED BY <2>1, <3>1, <3>2, <3>3, <3>5 DEF PollersOK
    <2>5. OneChain'
      BY <2>1, <2>3 DEF OneChain
    <2> QED BY <2>4, <2>5 DEF PollerInv
  <1>2. CASE StopPoller
    <2>1. bpUsed \in Pollers
      BY <1>2, PollerAssumption DEF StopPoller, Current, PollerInv, PollersOK
    <2>2. \A q \in Pollers : ~ bpRunning'[q]
      BY <1>2, <2>1 DEF StopPoller, PollerInv, PollersOK
    <2>3. \A q \in Pollers : ~ bpTimer'[q]
      <3> SUFFICES ASSUME NEW q \in Pollers
                   PROVE  ~ bpTimer'[q]
        OBVIOUS
      <3>1. CASE q = bpUsed
        BY <1>2, <3>1 DEF StopPoller, PollerInv, PollersOK
      <3>2. CASE q # bpUsed
        <4>1. bpTimer'[q] = bpTimer[q]
          BY <1>2, <3>2 DEF StopPoller, PollerInv, PollersOK
        <4>2. ~ bpRunning[q]
          BY <3>2 DEF PollerInv, PollersOK
        <4> QED BY <4>1, <4>2 DEF PollerInv, OneChain
      <3> QED BY <3>1, <3>2
    <2>4. PollersOK'
      BY <1>2, <2>1, <2>2 DEF StopPoller, PollerInv, PollersOK
    <2> QED BY <2>2, <2>3, <2>4 DEF PollerInv, OneChain
  <1>3. ASSUME NEW p \in Pollers, PollStarts(p)
        PROVE  PollerInv'
    <2>1. ~ bpBusy[p]
      BY <1>3 DEF PollStarts, PollerInv, OneChain
    <2>2. \A q \in Pollers : ~ bpTimer'[q]
      BY <1>3, <2>1 DEF PollStarts, PollerInv, PollersOK, OneChain
    <2>3. p = bpUsed
      BY <1>3 DEF PollStarts, PollerInv, PollersOK
    <2>4. PollersOK'
      BY <1>3, <2>3 DEF PollStarts, PollerInv, PollersOK
    <2>5. \A q \in Pollers : bpRunning'[q] => bpBusy'[q]
      BY <1>3, <2>3 DEF PollStarts, PollerInv, PollersOK
    <2> QED BY <2>2, <2>4, <2>5 DEF PollerInv, OneChain
  <1>4. ASSUME NEW p \in Pollers, FetchReturns(p)
        PROVE  PollerInv'
    BY <1>4, CycleEnds DEF FetchReturns
  <1>5. ASSUME NEW p \in Pollers, FetchFails(p)
        PROVE  PollerInv'
    BY <1>5, CycleEnds DEF FetchFails
  <1>6. CASE UNCHANGED bpVars
    BY <1>6 DEF bpVars, PollerInv, PollersOK, OneChain
  <1> QED BY <1>1, <1>2, <1>3, <1>4, <1>5, <1>6 DEF PollerNext

(* BoundedPoller, startPoller and stopPoller: there is never a second      *)
(* chain of poll cycles, for any number of stops and starts.               *)
THEOREM OneChainHolds == PollerSpec => []OneChain
  <1>1. PollerInv => OneChain
    BY DEF PollerInv
  <1> QED BY <1>1, PollerInvInitially, PollerInvPreserved, PTL DEF PollerSpec

(* The two slices of a cycle, whatever the batches hold.                   *)
LEMMA SlicesFit ==
    ASSUME NEW n1 \in Nat, NEW n2 \in Nat
    PROVE  Slices(n1, n2)[1] + Slices(n1, n2)[2] <= MaxEventsPerPoll
  BY PollerAssumption DEF Slices

(* poll: no cycle ingests more than maxEventsPerPoll events, for every     *)
(* number and size of batches.                                             *)
THEOREM CycleBoundedHolds == PollerSpec => []CycleBounded
  <1>1. PollerInit => CycleBounded
    BY PollerAssumption DEF PollerInit, CycleBounded
  <1>2. ASSUME CycleBounded, [PollerNext]_bpVars
        PROVE  CycleBounded'
    <2>1. ASSUME NEW p \in Pollers, FetchReturns(p)
          PROVE  CycleBounded'
      <3>1. PICK n1, n2 \in 0..MaxBatch : bpCycle' = Slices(n1, n2)
        BY <2>1 DEF FetchReturns
      <3> QED BY <3>1, SlicesFit DEF CycleBounded
    <2>2. CASE bpCycle' = bpCycle
      BY <1>2, <2>2 DEF CycleBounded
    <2> QED BY <1>2, <2>1, <2>2 DEF PollerNext, StartPoller, StopPoller, PollStarts,
                                   FetchFails, bpVars
  <1> QED BY <1>1, <1>2, PTL DEF PollerSpec

(* startPoller, stopPoller and poll together: one chain of cycles, each    *)
(* within maxEventsPerPoll, for any number of pollers, batches and events. *)
THEOREM PollingBoundedHolds == PollerSpec => []PollingBounded
  <1>1. OneChain /\ CycleBounded => PollingBounded
    BY DEF PollingBounded
  <1> QED BY <1>1, OneChainHolds, CycleBoundedHolds, PTL

-----------------------------------------------------------------------------
(* GitHubRecovery *)

Conclusions == {"passing", "failing", "pending"}
Buckets == {"closed", "needs_retry", "blocked", "ready_to_merge", "ready_to_review"}

RecordType ==
    [exists : BOOLEAN, kind : {"issue", "pull_request"}, state : {"open", "closed", "merged"},
     head : Shas \cup {NoSha}, checks : [CheckNames -> {NoCheck} \cup
                                [conclusion : Conclusions, sha : Shas, at : Nat]],
     checkStatus : Conclusions, review : {"none", "approved", "changes_requested"},
     task : {"none", "queued", "failed", "succeeded"}, at : Nat, bucket : Buckets]

(* The checks on record are of the head, and the status is theirs.         *)
ChecksOfHead(r) ==
    /\ r.checkStatus = AggregateCheckStatus(r.checks)
    /\ \A c \in CheckNames : r.checks[c] # NoCheck => r.checks[c].sha = r.head

RecordInv(r) == r \in RecordType /\ ChecksOfHead(r) /\ r.bucket = ComputeBucket(r)

LEMMA NoCheckFacts ==
    /\ \A x \in [conclusion : Conclusions, sha : Shas, at : Nat] : x # NoCheck
    /\ NoCheck.conclusion = "none" /\ NoCheck.at = 0
    /\ \A c \in CheckNames : NoChecks[c] = NoCheck
  BY DEF NoCheck, NoChecks, Conclusions

LEMMA StatusTypes ==
    /\ \A r : ComputeBucket(r) \in Buckets
    /\ \A checks : AggregateCheckStatus(checks) \in Conclusions
  <1>1. ASSUME NEW r PROVE ComputeBucket(r) \in Buckets
    <2>1. CASE r.state \in {"closed", "merged"}
      BY <2>1 DEF ComputeBucket, Buckets
    <2>2. CASE r.state \notin {"closed", "merged"} /\ r.state = "open" /\ r.kind = "issue"
      BY <2>2 DEF ComputeBucket, Buckets
    <2>3. CASE r.state \notin {"closed", "merged"} /\ ~(r.state = "open" /\ r.kind = "issue")
      BY <2>3 DEF ComputeBucket, Buckets
    <2> QED BY <2>1, <2>2, <2>3
  <1>2. ASSUME NEW checks PROVE AggregateCheckStatus(checks) \in Conclusions
    <2> DEFINE all == {checks[c].conclusion : c \in CheckNames} \ {"none"}
    <2>1. AggregateCheckStatus(checks) =
             CASE all = {} -> "pending"
               [] "failing" \in all -> "failing"
               [] "failing" \notin all /\ "pending" \in all -> "pending"
               [] OTHER -> "passing"
      BY DEF AggregateCheckStatus
    <2> HIDE DEF all
    <2>2. CASE all = {}
      BY <2>1, <2>2 DEF Conclusions
    <2>3. CASE all # {} /\ "failing" \in all
      BY <2>1, <2>3 DEF Conclusions
    <2>4. CASE all # {} /\ "failing" \notin all /\ "pending" \in all
      BY <2>1, <2>4 DEF Conclusions
    <2>5. CASE all # {} /\ "failing" \notin all /\ "pending" \notin all
      BY <2>1, <2>5 DEF Conclusions
    <2> QED BY <2>2, <2>3, <2>4, <2>5
  <1> QED BY <1>1, <1>2

LEMMA Bucketed ==
    ASSUME NEW r \in RecordType, ChecksOfHead(r)
    PROVE  RecordInv(WithBucket(r))
  <1> DEFINE x == WithBucket(r)
  <1>1. ComputeBucket(r) \in Buckets
    BY StatusTypes
  <1>2. x \in RecordType
    BY <1>1 DEF WithBucket, RecordType
  <1>3. /\ x.bucket = ComputeBucket(r) /\ x.state = r.state /\ x.kind = r.kind
        /\ x.task = r.task /\ x.review = r.review /\ x.checkStatus = r.checkStatus
        /\ x.checks = r.checks /\ x.head = r.head
    BY DEF WithBucket, RecordType
  <1> HIDE DEF x
  <1>4. ComputeBucket(x) = ComputeBucket(r)
    BY <1>3 DEF ComputeBucket
  <1>5. ChecksOfHead(x)
    BY <1>3 DEF ChecksOfHead
  <1>6. RecordInv(x)
    BY <1>2, <1>3, <1>4, <1>5 DEF RecordInv
  <1> QED BY <1>6 DEF x

(* Every handler that changes the record ends with the watermark and the   *)
(* bucket.                                                                 *)
LEMMA Rebucketed ==
    ASSUME NEW r \in RecordType, ChecksOfHead(r), NEW at \in Nat
    PROVE  RecordInv(WithBucket(BumpWatermark(r, at)))
  <1>1. BumpWatermark(r, at) \in RecordType /\ ChecksOfHead(BumpWatermark(r, at))
    BY DEF BumpWatermark, RecordType, ChecksOfHead
  <1> QED BY <1>1, Bucketed

LEMMA PlaceholderInv ==
    ASSUME NEW kind \in {"issue", "pull_request"}, NEW sha \in Shas \cup {NoSha}, NEW at \in Nat
    PROVE  RecordInv(CreatePlaceholderState(kind, sha, at))
  <1> DEFINE p == [exists |-> TRUE, kind |-> kind, state |-> "open", head |-> sha,
                   checks |-> NoChecks, checkStatus |-> "pending", review |-> "none",
                   task |-> "none", at |-> at, bucket |-> "blocked"]
  <1>1. NoChecks \in [CheckNames -> {NoCheck} \cup [conclusion : Conclusions, sha : Shas, at : Nat]]
    BY DEF NoChecks
  <1>2. AggregateCheckStatus(NoChecks) = "pending"
    <2>1. {NoChecks[c].conclusion : c \in CheckNames} \ {"none"} = {}
      BY NoCheckFacts
    <2> QED BY <2>1 DEF AggregateCheckStatus
  <1>3. p \in RecordType
    BY <1>1 DEF RecordType, Conclusions, Buckets
  <1>4. ChecksOfHead(p)
    BY <1>2, NoCheckFacts DEF ChecksOfHead
  <1> HIDE DEF p
  <1>5. RecordInv(WithBucket(p))
    BY <1>3, <1>4, Bucketed
  <1> QED BY <1>5 DEF p, CreatePlaceholderState

LEMMA OrPlaceholderInv ==
    ASSUME RecordInv(rec), NEW kind \in {"issue", "pull_request"}, NEW sha \in Shas \cup {NoSha},
           NEW at \in Nat
    PROVE  RecordInv(OrPlaceholder(kind, sha, at))
  BY PlaceholderInv DEF OrPlaceholder

LEMMA IssueLikeInv ==
    ASSUME RecordInv(rec), NEW kind \in {"issue", "pull_request"}, NEW merged \in BOOLEAN,
           NEW action, NEW state, NEW at \in Nat
    PROVE  RecordInv(ApplyIssueLike(kind, merged, action, state, at))
  <1> DEFINE r == OrPlaceholder(kind, NoSha, at)
             n == [r EXCEPT !.kind = IF kind = "pull_request" THEN kind ELSE @,
                            !.state = DeriveLifecycleState(merged, action, state)]
  <1>1. RecordInv(r)
    BY OrPlaceholderInv
  <1>2. DeriveLifecycleState(merged, action, state) \in {"open", "closed", "merged"}
    BY DEF DeriveLifecycleState
  <1>3. n \in RecordType /\ ChecksOfHead(n)
    <2> HIDE DEF r
    <2> QED BY <1>1, <1>2 DEF RecordInv, RecordType, ChecksOfHead
  <1>4. ApplyIssueLike(kind, merged, action, state, at) =
           IF RecStale(at) THEN rec ELSE WithBucket(BumpWatermark(n, at))
    BY DEF ApplyIssueLike
  <1> HIDE DEF n
  <1> QED BY <1>3, <1>4, Rebucketed

LEMMA CheckRunInv ==
    ASSUME RecordInv(rec), NEW name \in CheckNames, NEW sha \in Shas, NEW concl \in Conclusions,
           NEW at \in Nat
    PROVE  RecordInv(ApplyCheckRunEvent(name, sha, concl, at))
  <1> DEFINE r == OrPlaceholder("pull_request", sha, at)
             moved == r.head # NoSha /\ r.head # sha
             kept == IF moved THEN NoChecks ELSE r.checks
             entry == [conclusion |-> concl, sha |-> sha, at |-> at]
             checks == [kept EXCEPT ![name] = entry]
             whole == AggregateCheckStatus(checks)
             n == [r EXCEPT !.head = sha, !.checks = checks, !.checkStatus = whole]
  <1>1. RecordInv(r)
    BY OrPlaceholderInv
  <1>2. ApplyCheckRunEvent(name, sha, concl, at) = r
        \/ ApplyCheckRunEvent(name, sha, concl, at) = WithBucket(BumpWatermark(n, at))
    BY DEF ApplyCheckRunEvent
  <1> HIDE DEF r
  <1>3. /\ kept \in [CheckNames -> {NoCheck} \cup [conclusion : Conclusions, sha : Shas, at : Nat]]
        /\ \A c \in CheckNames : kept[c] # NoCheck => kept[c].sha = sha
    <2>1. CASE moved
      BY <2>1, NoCheckFacts DEF NoChecks
    <2>2. CASE ~moved
      <3>1. \A c \in CheckNames : r.checks[c] # NoCheck => r.checks[c].sha = r.head
        BY <1>1 DEF RecordInv, ChecksOfHead
      <3>2. r.checks \in [CheckNames -> {NoCheck} \cup
                                [conclusion : Conclusions, sha : Shas, at : Nat]]
        BY <1>1 DEF RecordInv, RecordType
      <3>3. r.head = NoSha \/ r.head = sha
        BY <2>2
      <3>4. \A c \in CheckNames : r.checks[c] # NoCheck => r.checks[c].sha \in Shas
        BY <3>2
      <3>5. \A c \in CheckNames : r.checks[c] # NoCheck => r.checks[c].sha = sha
        BY <3>1, <3>3, <3>4, ShaAssumption
      <3> QED BY <2>2, <3>2, <3>5
    <2> QED BY <2>1, <2>2
  <1> HIDE DEF kept
  <1>4. entry \in [conclusion : Conclusions, sha : Shas, at : Nat] /\ entry.sha = sha
    OBVIOUS
  <1> HIDE DEF entry
  <1>5. /\ checks \in [CheckNames -> {NoCheck} \cup [conclusion : Conclusions, sha : Shas, at : Nat]]
        /\ \A c \in CheckNames : checks[c] # NoCheck => checks[c].sha = sha
    BY <1>3, <1>4
  <1>6. whole \in Conclusions
    BY StatusTypes
  <1> HIDE DEF checks
  <1>7. /\ n \in RecordType /\ n.head = sha /\ n.checks = checks
        /\ n.checkStatus = AggregateCheckStatus(checks)
    <2> HIDE DEF whole
    <2>1. n \in RecordType /\ n.head = sha /\ n.checks = checks /\ n.checkStatus = whole
      BY <1>1, <1>5, <1>6 DEF RecordInv, RecordType
    <2> QED BY <2>1 DEF whole
  <1> HIDE DEF n
  <1>8. ChecksOfHead(n)
    BY <1>5, <1>7 DEF ChecksOfHead
  <1> QED BY <1>1, <1>2, <1>7, <1>8, Rebucketed

LEMMA ReviewInv ==
    ASSUME RecordInv(rec), NEW action, NEW state, NEW at \in Nat
    PROVE  RecordInv(ApplyPullRequestReviewEvent(action, state, at))
  <1> DEFINE r == OrPlaceholder("pull_request", NoSha, at)
             verdict == MapReviewVerdict(action, state)
             n == [r EXCEPT !.kind = "pull_request",
                            !.review = IF verdict = "keep" THEN @ ELSE verdict]
  <1>1. RecordInv(r)
    BY OrPlaceholderInv
  <1>2. ApplyPullRequestReviewEvent(action, state, at) =
           IF at < r.at THEN r ELSE WithBucket(BumpWatermark(n, at))
    BY DEF ApplyPullRequestReviewEvent
  <1>3. verdict \in {"none", "approved", "changes_requested", "keep"}
    BY DEF MapReviewVerdict
  <1> HIDE DEF r, verdict
  <1>4. n \in RecordType /\ ChecksOfHead(n)
    <2>1. r \in RecordType /\ ChecksOfHead(r)
      BY <1>1 DEF RecordInv
    <2>2. PICK w : w = IF verdict = "keep" THEN r.review ELSE verdict
      OBVIOUS
    <2>3. w \in {"none", "approved", "changes_requested"}
      BY <1>3, <2>1, <2>2 DEF RecordType
    <2>4. n = [r EXCEPT !.kind = "pull_request", !.review = w]
      BY <2>2, Zenon
    <2> HIDE DEF n
    <2>5. /\ n \in RecordType /\ n.head = r.head /\ n.checks = r.checks
          /\ n.checkStatus = r.checkStatus
      BY <2>1, <2>3, <2>4 DEF RecordType
    <2> QED BY <2>1, <2>5 DEF ChecksOfHead
  <1> HIDE DEF n
  <1> QED BY <1>1, <1>2, <1>4, Rebucketed

LEMMA TaskStatusInv ==
    ASSUME RecordInv(rec), NEW how \in {"queued", "failed", "succeeded"}, NEW at \in Nat
    PROVE  RecordInv(WithTaskStatus(how, at))
  <1> DEFINE r == OrPlaceholder("issue", NoSha, at)
             n == [r EXCEPT !.task = how]
  <1>1. RecordInv(r)
    BY OrPlaceholderInv
  <1>2. WithTaskStatus(how, at) = WithBucket(BumpWatermark(n, at))
    BY DEF WithTaskStatus
  <1> HIDE DEF r
  <1>3. n \in RecordType /\ ChecksOfHead(n)
    BY <1>1 DEF RecordInv, RecordType, ChecksOfHead
  <1> HIDE DEF n
  <1> QED BY <1>2, <1>3, Rebucketed

LEMMA RecordInvTells ==
    ASSUME RecordInv(rec)
    PROVE  BucketTells
  <1> DEFINE all == {rec.checks[c].conclusion : c \in CheckNames} \ {"none"}
  <1>1. BucketCurrent
    BY DEF RecordInv, BucketCurrent
  <1>2. ASSUME rec.bucket = "ready_to_merge"
        PROVE  rec.review = "approved" /\ rec.checkStatus = "passing"
    BY <1>2 DEF RecordInv, ComputeBucket
  <1>3. ASSUME AggregateCheckStatus(rec.checks) = "passing"
        PROVE  all # {} /\ "failing" \notin all /\ "pending" \notin all
    <2>1. AggregateCheckStatus(rec.checks) =
             CASE all = {} -> "pending"
               [] "failing" \in all -> "failing"
               [] "failing" \notin all /\ "pending" \in all -> "pending"
               [] OTHER -> "passing"
      BY DEF AggregateCheckStatus
    <2> HIDE DEF all
    <2>2. CASE all = {}
      BY <1>3, <2>1, <2>2
    <2>3. CASE all # {} /\ "failing" \in all
      BY <1>3, <2>1, <2>3
    <2>4. CASE all # {} /\ "failing" \notin all /\ "pending" \in all
      BY <1>3, <2>1, <2>4
    <2> QED BY <2>2, <2>3, <2>4
  <1>4. \A c \in CheckNames : \/ rec.checks[c] = NoCheck
                              \/ rec.checks[c].conclusion \in Conclusions
    BY DEF RecordInv, RecordType
  <1>5. ASSUME rec.bucket = "ready_to_merge"
        PROVE  /\ rec.review = "approved"
               /\ \E c \in CheckNames : rec.checks[c] # NoCheck
               /\ \A c \in CheckNames : rec.checks[c] # NoCheck =>
                     rec.checks[c].sha = rec.head /\ rec.checks[c].conclusion = "passing"
    <2>1. rec.review = "approved" /\ all # {} /\ "failing" \notin all /\ "pending" \notin all
      BY <1>2, <1>3, <1>5 DEF RecordInv, ChecksOfHead
    <2>2. \E c \in CheckNames : rec.checks[c] # NoCheck
      BY <2>1, NoCheckFacts
    <2>3. ASSUME NEW c \in CheckNames, rec.checks[c] # NoCheck
          PROVE  rec.checks[c].sha = rec.head /\ rec.checks[c].conclusion = "passing"
      <3>1. rec.checks[c].conclusion \in Conclusions
        BY <1>4, <2>3
      <3>2. rec.checks[c].conclusion \in all
        BY <3>1 DEF Conclusions
      <3> QED BY <2>1, <2>3, <3>1, <3>2 DEF Conclusions, RecordInv, ChecksOfHead
    <2> QED BY <2>1, <2>2, <2>3
  <1>6. ReadyIsOfTheHead
    BY <1>5 DEF ReadyIsOfTheHead
  <1> QED BY <1>1, <1>6 DEF BucketTells

(* RecoveryProjection: the bucket shown is the one the record's fields     *)
(* give, and "ready to merge" is about checks of the head alone, all of    *)
(* them passing, and an approval, in whatever order and however often      *)
(* events, checks, reviews and task statuses come.                         *)
THEOREM BucketTellsHolds == RecoverySpec => []BucketTells
  <1>1. RecoveryInit => RecordInv(rec)
    <2> SUFFICES ASSUME RecoveryInit PROVE RecordInv(rec)
      OBVIOUS
    <2> DEFINE p == CreatePlaceholderState("issue", NoSha, 0)
    <2>1. RecordInv(p)
      BY PlaceholderInv
    <2>2. rec = [p EXCEPT !.exists = FALSE]
      BY DEF RecoveryInit, NoRecord
    <2> HIDE DEF p
    <2>3. /\ rec \in RecordType /\ rec.bucket = p.bucket /\ rec.state = p.state
          /\ rec.kind = p.kind /\ rec.task = p.task /\ rec.review = p.review
          /\ rec.checkStatus = p.checkStatus /\ rec.checks = p.checks /\ rec.head = p.head
      BY <2>1, <2>2 DEF RecordInv, RecordType
    <2>4. ComputeBucket(rec) = ComputeBucket(p)
      BY <2>3 DEF ComputeBucket
    <2> QED BY <2>1, <2>3, <2>4 DEF RecordInv, ChecksOfHead
  <1>2. RecordInv(rec) /\ [RecoveryNext]_recVars => RecordInv(rec)'
    <2> SUFFICES ASSUME RecordInv(rec), [RecoveryNext]_recVars PROVE RecordInv(rec')
      BY DEF RecordInv, RecordType, ChecksOfHead, ComputeBucket, AggregateCheckStatus
    <2>1. ASSUME NEW d, NEW r, RecordInv(r), IngestEvent(d, r) PROVE RecordInv(rec')
      BY <2>1 DEF IngestEvent
    <2>2. \A at \in RecTimes : at \in Nat
      BY DEF RecTimes
    <2>3. ASSUME NEW d, IssueLikeEvent(d) PROVE RecordInv(rec')
      BY <2>1, <2>2, <2>3, IssueLikeInv DEF IssueLikeEvent
    <2>4. ASSUME NEW d, CheckRunEvent(d) PROVE RecordInv(rec')
      <3>1. PICK name \in CheckNames, sha \in Shas, at \in RecTimes, run \in CheckRuns :
               IngestEvent(d, ApplyCheckRunEvent(name, sha, MapCheckConclusion(run[1], run[2]), at))
        BY <2>4 DEF CheckRunEvent
      <3>2. MapCheckConclusion(run[1], run[2]) \in Conclusions
        BY DEF MapCheckConclusion, Conclusions, CheckRuns
      <3> QED BY <2>1, <2>2, <3>1, <3>2, CheckRunInv
    <2>5. ASSUME NEW d, ReviewEvent(d) PROVE RecordInv(rec')
      BY <2>1, <2>2, <2>5, ReviewInv DEF ReviewEvent
    <2>6. ASSUME NEW d, DeferredEvent(d) PROVE RecordInv(rec')
      BY <2>6 DEF DeferredEvent, IngestEvent
    <2>7. CASE SetTaskStatus
      BY <2>2, <2>7, TaskStatusInv DEF SetTaskStatus
    <2>8. CASE UNCHANGED recVars
      BY <2>8 DEF recVars
    <2> QED BY <2>3, <2>4, <2>5, <2>6, <2>7, <2>8 DEF RecoveryNext
  <1>3. RecordInv(rec) => BucketTells
    BY RecordInvTells
  <1> QED BY <1>1, <1>2, <1>3, PTL DEF RecoverySpec

-----------------------------------------------------------------------------
(* HandoffReceiver *)

Commands(k) == DOMAIN Handoffs[k].targets

(* Ids the receiver makes itself carry the key, the worker and the place   *)
(* of their command; an explicit targetTaskId is a name alone.             *)
OwnId(k) == ~(Handoffs[k].explicit # "" /\ Len(Handoffs[k].targets) = 1)

MadeCounts == \A k \in Keys : hrMade[k] = [i \in Commands(k) |-> hrMade[k][i]]

(* A command's task, once made, is on record, and a task with an id of the *)
(* receiver's own was made for its command and runs on its worker.         *)
TasksOfCommands ==
    \A k \in Keys : \A i \in Commands(k) :
        /\ hrMade[k][i] \in {0, 1}
        /\ hrMade[k][i] = 1 => TaskIdForHandoff(k, i) \in DOMAIN hrTasks
        /\ OwnId(k) /\ TaskIdForHandoff(k, i) \in DOMAIN hrTasks =>
              /\ hrMade[k][i] = 1
              /\ hrTasks[TaskIdForHandoff(k, i)].worker = Handoffs[k].targets[i]

AnswerKey ==
    hrAnswer.accepted => hrAnswer.key \in Keys /\ DOMAIN hrAnswer.evidence = Commands(hrAnswer.key)

HandoffStatuses == {"queued", "running", "failed", "succeeded", "succeeded_pr"}

HandoffInv ==
    /\ hrTasks \in [DOMAIN hrTasks -> [worker : STRING, status : HandoffStatuses]]
    /\ hrMade = [k \in Keys |-> hrMade[k]]
    /\ MadeCounts /\ TasksOfCommands /\ AnswerKey /\ AnswerNamesEachCommand

LEMMA CommandFacts ==
    ASSUME NEW k \in Keys
    PROVE  /\ Handoffs[k].targets \in Seq(STRING) /\ Commands(k) = 1..Len(Handoffs[k].targets)
           /\ Commands(k) \subseteq Nat
           /\ \A i \in Commands(k) : Handoffs[k].targets[i] \in STRING
           /\ Handoffs[k].explicit = "" => OwnId(k)
  <1>1. Handoffs[k].targets \in Seq(STRING)
    BY HandoffAssumption
  <1>2. Commands(k) = 1..Len(Handoffs[k].targets)
    BY <1>1 DEF Commands
  <1>3. \A i \in Commands(k) : Handoffs[k].targets[i] \in STRING
    BY <1>1, <1>2
  <1>4. Commands(k) \subseteq Nat
    BY <1>1, <1>2
  <1> QED BY <1>1, <1>2, <1>3, <1>4 DEF OwnId

(* taskIdForHandoff tells commands apart, unless the id is explicit.       *)
LEMMA IdsApart ==
    /\ \A k \in Keys : \A i \in Commands(k) :
          TaskIdForHandoff(k, i) = IF OwnId(k) THEN <<"handoff", k, Handoffs[k].targets[i], i>>
                                   ELSE <<Handoffs[k].explicit>>
    /\ \A k, l \in Keys : \A i \in Commands(k) : \A j \in Commands(l) :
          OwnId(k) /\ TaskIdForHandoff(k, i) = TaskIdForHandoff(l, j) => k = l /\ i = j
  <1>1. \A k \in Keys : \A i \in Commands(k) :
          TaskIdForHandoff(k, i) = IF OwnId(k) THEN <<"handoff", k, Handoffs[k].targets[i], i>>
                                   ELSE <<Handoffs[k].explicit>>
    BY DEF TaskIdForHandoff, OwnId
  <1>2. ASSUME NEW k \in Keys, NEW l \in Keys, NEW i \in Commands(k), NEW j \in Commands(l),
               OwnId(k), TaskIdForHandoff(k, i) = TaskIdForHandoff(l, j)
        PROVE  k = l /\ i = j
    <2>1. CASE OwnId(l)
      <3>1. <<"handoff", k, Handoffs[k].targets[i], i>> = <<"handoff", l, Handoffs[l].targets[j], j>>
        BY <1>1, <1>2, <2>1
      <3> QED BY <3>1
    <2>2. CASE ~OwnId(l)
      <3>1. <<"handoff", k, Handoffs[k].targets[i], i>> = <<Handoffs[l].explicit>>
        BY <1>1, <1>2, <2>2
      <3>2. Len(<<"handoff", k, Handoffs[k].targets[i], i>>) = 4 /\ Len(<<Handoffs[l].explicit>>) = 1
        OBVIOUS
      <3> QED BY <3>1, <3>2
    <2> QED BY <2>1, <2>2
  <1> QED BY <1>1, <1>2

LEMMA ReceiveStep ==
    ASSUME HandoffInv, NEW key \in Keys, Receive(key)
    PROVE  HandoffInv'
  <1> DEFINE h == Handoffs[key]
             id(i) == TaskIdForHandoff(key, i)
             made == {i \in Reached(key) : /\ id(i) \notin DOMAIN hrTasks
                                           /\ \A j \in 1..(i - 1) : id(j) # id(i)}
             newIds == {id(i) : i \in made}
             pick(t) == CHOOSE i \in made : id(i) = t
             after == [t \in (DOMAIN hrTasks) \cup newIds |->
                         IF t \in DOMAIN hrTasks THEN hrTasks[t]
                         ELSE [worker |-> h.targets[pick(t)], status |-> "queued"]]
  <1>1. /\ hrTasks' = after
        /\ hrMade' = [hrMade EXCEPT ![key] =
                        [i \in DOMAIN h.targets |-> IF i \in made THEN @[i] + 1 ELSE @[i]]]
        /\ hrAnswer' = IF AllReached(key)
                       THEN [key |-> key, accepted |-> TRUE, replayed |-> made # Reached(key),
                             evidence |-> [i \in DOMAIN h.targets |->
                                             <<id(i), after[id(i)].worker,
                                               ToEvidenceStatus(after[id(i)].status)>>]]
                       ELSE [key |-> key, accepted |-> FALSE, replayed |-> FALSE,
                             evidence |-> <<>>]
    BY DEF Receive
  <1>2. made \subseteq Commands(key) /\ \A i \in made : id(i) \notin DOMAIN hrTasks
    BY DEF Reached, Commands
  <1>3. ASSUME NEW i \in Reached(key), OwnId(key), i \notin made
        PROVE  id(i) \in DOMAIN hrTasks
    <2>1. i \in Commands(key)
      BY <1>3 DEF Reached, Commands
    <2>2. \A j \in 1..(i - 1) : j \in Commands(key) /\ j # i
      <3>1. Commands(key) = 1..Len(Handoffs[key].targets) /\ Handoffs[key].targets \in Seq(STRING)
        BY CommandFacts
      <3>2. Len(Handoffs[key].targets) \in Nat
        BY <3>1
      <3> QED BY <2>1, <3>1, <3>2
    <2>3. \A j \in 1..(i - 1) : id(j) # id(i)
      BY <1>3, <2>1, <2>2, IdsApart
    <2> QED BY <1>3, <2>3
  <1> HIDE DEF made
  <1>4. ASSUME NEW i \in made, OwnId(key) PROVE pick(id(i)) = i
    <2>1. \A j \in made : id(j) = id(i) => j = i
      BY <1>2, <1>4, IdsApart
    <2> QED BY <1>4, <2>1
  <1>5. /\ DOMAIN hrTasks' = (DOMAIN hrTasks) \cup newIds
        /\ hrTasks' \in [DOMAIN hrTasks' -> [worker : STRING, status : HandoffStatuses]]
    <2>1. ASSUME NEW t \in newIds PROVE h.targets[pick(t)] \in STRING
      <3>1. pick(t) \in made
        BY <2>1
      <3> QED BY <1>2, <3>1, CommandFacts
    <2> HIDE DEF id, pick, newIds
    <2>2. DOMAIN hrTasks' = (DOMAIN hrTasks) \cup newIds
      BY <1>1
    <2>3. ASSUME NEW t \in DOMAIN hrTasks' PROVE hrTasks'[t] \in [worker : STRING, status : HandoffStatuses]
      BY <1>1, <2>1, <2>2 DEF HandoffInv, HandoffStatuses
    <2> QED BY <1>1, <2>2, <2>3
  <1>6. \A t \in DOMAIN hrTasks : hrTasks'[t] = hrTasks[t]
    BY <1>1
  <1>7. ASSUME NEW i \in made, OwnId(key) PROVE hrTasks'[id(i)].worker = h.targets[i]
    <2>1. id(i) \in newIds /\ id(i) \notin DOMAIN hrTasks
      BY <1>2, <1>7
    <2> HIDE DEF id, pick, newIds
    <2>2. hrTasks'[id(i)] = [worker |-> h.targets[pick(id(i))], status |-> "queued"]
      BY <1>1, <2>1
    <2> QED BY <1>4, <1>7, <2>2
  <1>8. hrMade' = [k \in Keys |-> hrMade'[k]] /\ \A k \in Keys : k # key => hrMade'[k] = hrMade[k]
    BY <1>1 DEF HandoffInv
  <1>9. hrMade'[key] = [i \in Commands(key) |-> IF i \in made THEN hrMade[key][i] + 1 ELSE hrMade[key][i]]
    BY <1>1 DEF HandoffInv, Commands
  <1>10. MadeCounts'
    BY <1>8, <1>9 DEF MadeCounts, HandoffInv
  <1>11. TasksOfCommands'
    <2> SUFFICES ASSUME NEW k \in Keys, NEW i \in Commands(k)
                 PROVE  /\ hrMade'[k][i] \in {0, 1}
                        /\ hrMade'[k][i] = 1 => TaskIdForHandoff(k, i) \in DOMAIN hrTasks'
                        /\ OwnId(k) /\ TaskIdForHandoff(k, i) \in DOMAIN hrTasks' =>
                              /\ hrMade'[k][i] = 1
                              /\ hrTasks'[TaskIdForHandoff(k, i)].worker = Handoffs[k].targets[i]
      BY DEF TasksOfCommands, Commands, TaskIdForHandoff, OwnId
    <2>1. /\ hrMade[k][i] \in {0, 1}
          /\ hrMade[k][i] = 1 => TaskIdForHandoff(k, i) \in DOMAIN hrTasks
          /\ OwnId(k) /\ TaskIdForHandoff(k, i) \in DOMAIN hrTasks =>
                /\ hrMade[k][i] = 1
                /\ hrTasks[TaskIdForHandoff(k, i)].worker = Handoffs[k].targets[i]
      BY DEF HandoffInv, TasksOfCommands
    <2>2. CASE k = key /\ i \in made
      <3>1. TaskIdForHandoff(k, i) \notin DOMAIN hrTasks /\ TaskIdForHandoff(k, i) \in DOMAIN hrTasks'
        BY <1>2, <1>5, <2>2
      <3>2. hrMade[k][i] = 0
        BY <2>1, <3>1
      <3>3. hrMade'[k][i] = 1
        BY <1>9, <2>2, <3>2
      <3> QED BY <1>7, <2>2, <3>1, <3>3
    <2>3. CASE ~(k = key /\ i \in made)
      <3>1. hrMade'[k][i] = hrMade[k][i]
        BY <1>8, <1>9, <2>3
      <3>2. OwnId(k) => TaskIdForHandoff(k, i) \notin newIds
        BY <1>2, <2>3, IdsApart
      <3> QED BY <1>5, <1>6, <2>1, <3>1, <3>2
    <2> QED BY <2>2, <2>3
  <1>12. ASSUME AllReached(key)
         PROVE  /\ hrAnswer'.accepted /\ hrAnswer'.key = key
                /\ hrAnswer'.evidence = [i \in Commands(key) |->
                                           <<id(i), hrTasks'[id(i)].worker,
                                             ToEvidenceStatus(hrTasks'[id(i)].status)>>]
    BY <1>1, <1>12 DEF Commands
  <1>13. ~AllReached(key) => ~hrAnswer'.accepted
    BY <1>1
  <1> HIDE DEF after
  <1>14. AnswerKey'
    BY <1>12, <1>13 DEF AnswerKey, Commands
  <1>15. AnswerNamesEachCommand'
    <2> SUFFICES ASSUME AllReached(key), OwnId(key)
                 PROVE  /\ \A i \in Commands(key) : hrAnswer'.evidence[i][2] = h.targets[i]
                        /\ \A i, j \in Commands(key) :
                              hrAnswer'.evidence[i][1] = hrAnswer'.evidence[j][1] => i = j
                        /\ \A i \in Commands(key) : hrMade'[key][i] = 1
      <3>1. CASE ~AllReached(key)
        BY <1>13, <3>1 DEF AnswerNamesEachCommand
      <3>2. CASE AllReached(key) /\ h.explicit # ""
        BY <1>12, <3>2 DEF AnswerNamesEachCommand
      <3>3. CASE AllReached(key) /\ h.explicit = ""
        <4>1. OwnId(key) /\ hrAnswer'.key = key /\ DOMAIN hrAnswer'.evidence = Commands(key)
          BY <1>12, <3>3, CommandFacts
        <4>2. AllReached(key) /\ OwnId(key)
          BY <3>3, <4>1
        <4> QED BY <4>1, <4>2, Zenon DEF AnswerNamesEachCommand
      <3> QED BY <3>1, <3>2, <3>3
    <2>1. ASSUME NEW i \in Commands(key)
          PROVE  id(i) \in DOMAIN hrTasks'
      <3>1. i \in Reached(key)
        BY <2>1 DEF AllReached, Commands
      <3> QED BY <1>3, <1>5, <3>1
    <2>2. \A i \in Commands(key) : hrMade'[key][i] = 1 /\ hrTasks'[id(i)].worker = h.targets[i]
      BY <1>11, <2>1 DEF TasksOfCommands, TaskIdForHandoff, OwnId, Commands
    <2>3. \A i \in Commands(key) : /\ hrAnswer'.evidence[i][1] = id(i)
                                   /\ hrAnswer'.evidence[i][2] = hrTasks'[id(i)].worker
      BY <1>12
    <2> QED BY <2>2, <2>3, IdsApart
  <1> QED BY <1>5, <1>8, <1>10, <1>11, <1>14, <1>15 DEF HandoffInv

LEMMA HandoffTaskMovesStep ==
    ASSUME HandoffInv, NEW t \in DOMAIN hrTasks, HandoffTaskMoves(t)
    PROVE  HandoffInv'
  <1>1. PICK s \in HandoffStatuses : hrTasks' = [hrTasks EXCEPT ![t].status = s]
    BY DEF HandoffTaskMoves, HandoffStatuses
  <1>2. UNCHANGED <<hrMade, hrAnswer>>
    BY DEF HandoffTaskMoves
  <1>3. /\ DOMAIN hrTasks' = DOMAIN hrTasks
        /\ hrTasks' \in [DOMAIN hrTasks' -> [worker : STRING, status : HandoffStatuses]]
        /\ \A u \in DOMAIN hrTasks : hrTasks'[u].worker = hrTasks[u].worker
    BY <1>1 DEF HandoffInv
  <1>4. MadeCounts' /\ AnswerKey' /\ AnswerNamesEachCommand'
    BY <1>2 DEF HandoffInv, MadeCounts, AnswerKey, AnswerNamesEachCommand, Commands
  <1>5. TasksOfCommands'
    BY <1>2, <1>3 DEF HandoffInv, TasksOfCommands, TaskIdForHandoff, OwnId, Commands
  <1> QED BY <1>2, <1>3, <1>4, <1>5 DEF HandoffInv

(* HandoffReceiver.receive: however often comments are delivered, with     *)
(* workers registering and tasks moving in between, a command makes at     *)
(* most one task, and an accepted handoff answers with the task of each of *)
(* its commands, for any comments and workers.                             *)
THEOREM HandoffsIdempotentHolds == HandoffSpec => []HandoffsIdempotent
  <1>1. HandoffInit => HandoffInv
    <2> SUFFICES ASSUME HandoffInit PROVE HandoffInv
      OBVIOUS
    <2>1. \A k \in Keys : hrMade[k] = [i \in Commands(k) |-> 0]
      BY DEF HandoffInit, Commands
    <2>2. /\ DOMAIN hrTasks = {}
          /\ hrTasks \in [DOMAIN hrTasks -> [worker : STRING, status : HandoffStatuses]]
      BY DEF HandoffInit
    <2>3. MadeCounts
      BY <2>1 DEF MadeCounts
    <2>4. TasksOfCommands
      <3>1. \A k \in Keys : \A i \in Commands(k) : hrMade[k][i] = 0
        BY <2>1
      <3> QED BY <2>2, <3>1 DEF TasksOfCommands
    <2>5. ~hrAnswer.accepted /\ hrMade = [k \in Keys |-> hrMade[k]]
      BY DEF HandoffInit
    <2> QED BY <2>2, <2>3, <2>4, <2>5 DEF HandoffInv, AnswerKey, AnswerNamesEachCommand
  <1>2. HandoffInv /\ [HandoffNext]_hrVars => HandoffInv'
    <2> SUFFICES ASSUME HandoffInv, [HandoffNext]_hrVars PROVE HandoffInv'
      OBVIOUS
    <2>1. CASE UNCHANGED <<hrTasks, hrMade, hrAnswer>>
      <3>1. MadeCounts' /\ AnswerKey'
        BY <2>1 DEF HandoffInv, MadeCounts, AnswerKey, Commands
      <3>2. AnswerNamesEachCommand'
        BY <2>1 DEF HandoffInv, AnswerNamesEachCommand
      <3>3. TasksOfCommands'
        BY <2>1 DEF HandoffInv, TasksOfCommands, Commands, TaskIdForHandoff, OwnId
      <3> QED BY <2>1, <3>1, <3>2, <3>3 DEF HandoffInv
    <2>2. (\E w \in HomeWorkers : HandoffRegister(w)) \/ UNCHANGED hrVars
          => UNCHANGED <<hrTasks, hrMade, hrAnswer>>
      BY DEF HandoffRegister, hrVars
    <2> QED BY <2>1, <2>2, ReceiveStep, HandoffTaskMovesStep DEF HandoffNext
  <1>3. HandoffInv => HandoffsIdempotent
    BY DEF HandoffInv, TasksOfCommands, HandoffsIdempotent, CommandsRunOnce, Commands
  <1> QED BY <1>1, <1>2, <1>3, PTL DEF HandoffSpec

-----------------------------------------------------------------------------
(* GitHubIngestion *)

IssueStatuses == {"none", "queued", "claimed", "done", "canceled"}

SvcType == [tasks : [TaskIds -> IssueStatuses], seen : SUBSET Nat, mark : Nat, life : Nat]

NoOrphan(s) == \A c \in ChildIds : s.tasks[c] # "none" => s.tasks[ParentTaskId] # "none"

(* What holds of the service between the calls it makes.                   *)
SvcOK(s) == s \in SvcType /\ s.life <= s.mark /\ NoOrphan(s)

(* A step of a call that only creates tasks.                               *)
OnlyCreates(s, n) ==
    /\ SvcOK(n) /\ n.seen = s.seen /\ n.mark = s.mark /\ n.life = s.life
    /\ \A id \in TaskIds : s.tasks[id] # "none" => n.tasks[id] = s.tasks[id]

(* The end of the parent: nothing of its tree stays live when it is        *)
(* canceled.                                                               *)
EndsTree(s, n) ==
    Live(s.tasks[ParentTaskId]) /\ n.tasks[ParentTaskId] = "canceled" =>
        \A id \in TaskIds : ~ Live(n.tasks[id])

LEMMA ParentApart ==
    ParentTaskId \in TaskIds /\ ParentTaskId \notin ChildIds /\ TaskIds = {ParentTaskId} \cup ChildIds
  <1>1. ASSUME NEW src, NEW i PROVE ParentTaskId # ChildTaskId(src, i)
    <2>1. Len(ParentTaskId) = 1 /\ Len(ChildTaskId(src, i)) = 2
      BY DEF ParentTaskId, ChildTaskId
    <2> QED BY <2>1
  <1> QED BY <1>1 DEF TaskIds, ChildIds

LEMMA CreateTaskOK ==
    ASSUME NEW s, SvcOK(s)
    PROVE  OnlyCreates(s, CreateTask(s, ParentTaskId))
  <1>1. CASE s.tasks[ParentTaskId] = "none"
    <2> DEFINE n == CreateTask(s, ParentTaskId)
    <2>1. n = [s EXCEPT !.tasks[ParentTaskId] = "queued"]
      BY <1>1 DEF CreateTask
    <2>2. /\ n \in SvcType /\ n.seen = s.seen /\ n.mark = s.mark /\ n.life = s.life
          /\ n.tasks = [s.tasks EXCEPT ![ParentTaskId] = "queued"]
      BY <2>1, ParentApart DEF SvcOK, SvcType, IssueStatuses
    <2>3. s.tasks \in [TaskIds -> IssueStatuses]
      BY DEF SvcOK, SvcType
    <2> HIDE DEF n
    <2>4. n.tasks[ParentTaskId] = "queued"
      BY <2>2, <2>3, ParentApart
    <2>5. \A id \in TaskIds : s.tasks[id] # "none" => n.tasks[id] = s.tasks[id]
      BY <1>1, <2>2, <2>3
    <2>6. OnlyCreates(s, n)
      BY <2>2, <2>4, <2>5 DEF OnlyCreates, SvcOK, NoOrphan
    <2> QED BY <2>6 DEF n
  <1>2. CASE s.tasks[ParentTaskId] # "none"
    BY <1>2 DEF CreateTask, OnlyCreates
  <1> QED BY <1>1, <1>2

LEMMA CreateChildrenOK ==
    ASSUME NEW s, SvcOK(s), HasParent(s), NEW src, NEW cmds, NEW cap
    PROVE  OnlyCreates(s, CreateChildren(s, src, cmds, cap))
  <1> DEFINE made == {i \in 1..Len(cmds) : i <= cap /\ cmds[i] \in ghKnown}
             new(id) == \E i \in made : id = ChildTaskId(src, i - 1)
             tasks == [id \in TaskIds |-> IF s.tasks[id] = "none" /\ new(id) THEN "queued"
                                          ELSE s.tasks[id]]
             n == CreateChildren(s, src, cmds, cap)
  <1>1. n = [s EXCEPT !.tasks = tasks]
    BY DEF CreateChildren
  <1> HIDE DEF new, n
  <1>2. tasks \in [TaskIds -> IssueStatuses]
    BY DEF SvcOK, SvcType, IssueStatuses
  <1>3. \A id \in TaskIds : s.tasks[id] # "none" => tasks[id] = s.tasks[id]
    OBVIOUS
  <1>4. tasks[ParentTaskId] # "none"
    BY <1>3, ParentApart DEF HasParent
  <1> HIDE DEF tasks
  <1>5. /\ n \in SvcType /\ n.seen = s.seen /\ n.mark = s.mark /\ n.life = s.life
        /\ n.tasks = tasks
    BY <1>1, <1>2 DEF SvcOK, SvcType
  <1>6. OnlyCreates(s, n)
    BY <1>3, <1>4, <1>5 DEF OnlyCreates, SvcOK, NoOrphan
  <1> QED BY <1>6 DEF n

LEMMA IngestCommandsOK ==
    ASSUME NEW s, SvcOK(s), NEW src, NEW cmds, NEW rest, NEW cap
    PROVE  OnlyCreates(s, IngestCommands(s, src, cmds, rest, cap))
  <1> DEFINE p == EnsureParentTask(s, cmds[1])
  <1>1. OnlyCreates(s, s)
    BY DEF OnlyCreates
  <1>2. OnlyCreates(s, p)
    BY <1>1, CreateTaskOK DEF EnsureParentTask
  <1>3. IngestCommands(s, src, cmds, rest, cap) = s
        \/ /\ HasParent(p)
           /\ IngestCommands(s, src, cmds, rest, cap) = CreateChildren(p, src, rest, cap - 1)
    BY DEF IngestCommands
  <1> HIDE DEF p
  <1>4. ASSUME HasParent(p) PROVE OnlyCreates(s, CreateChildren(p, src, rest, cap - 1))
    <2>1. OnlyCreates(p, CreateChildren(p, src, rest, cap - 1))
      BY <1>2, <1>4, CreateChildrenOK DEF OnlyCreates
    <2> QED BY <1>2, <2>1 DEF OnlyCreates
  <1> QED BY <1>1, <1>3, <1>4

LEMMA ApplyLifecycleOK ==
    ASSUME NEW s, SvcOK(s), NEW action
    PROVE  LET n == ApplyLifecycle(s, action)
           IN SvcOK(n) /\ n.seen = s.seen /\ n.mark = s.mark /\ n.life = s.life /\ EndsTree(s, n)
  <1> DEFINE c == CancelExistingTask(s)
             f == CompleteExistingTask(s)
  <1>1. s.tasks \in [TaskIds -> IssueStatuses] /\ s \in SvcType
    BY DEF SvcOK, SvcType
  <1>2. SvcOK(c) /\ c.seen = s.seen /\ c.mark = s.mark /\ c.life = s.life /\ EndsTree(s, c)
    <2> DEFINE tasks == [id \in TaskIds |-> IF Live(s.tasks[id]) THEN "canceled" ELSE s.tasks[id]]
    <2>1. c = [s EXCEPT !.tasks = tasks]
      BY DEF CancelExistingTask
    <2>2. tasks \in [TaskIds -> IssueStatuses]
      BY <1>1 DEF IssueStatuses
    <2>3. \A id \in TaskIds : ~ Live(tasks[id]) /\ (tasks[id] = "none" <=> s.tasks[id] = "none")
      BY DEF Live
    <2> HIDE DEF tasks, c
    <2>4. c \in SvcType /\ c.seen = s.seen /\ c.mark = s.mark /\ c.life = s.life /\ c.tasks = tasks
      BY <1>1, <2>1, <2>2 DEF SvcType
    <2>5. NoOrphan(c)
      BY <2>3, <2>4, ParentApart DEF SvcOK, NoOrphan
    <2> QED BY <2>3, <2>4, <2>5 DEF SvcOK, EndsTree
  <1>3. SvcOK(f) /\ f.seen = s.seen /\ f.mark = s.mark /\ f.life = s.life /\ EndsTree(s, f)
    <2>1. CASE s.tasks[ParentTaskId] = "claimed"
      <3>1. f = [s EXCEPT !.tasks[ParentTaskId] = "done"]
        BY <2>1 DEF CompleteExistingTask
      <3> HIDE DEF f
      <3>2. /\ f \in SvcType /\ f.seen = s.seen /\ f.mark = s.mark /\ f.life = s.life
            /\ f.tasks = [s.tasks EXCEPT ![ParentTaskId] = "done"]
        BY <1>1, <3>1, ParentApart DEF SvcType, IssueStatuses
      <3>3. f.tasks[ParentTaskId] = "done"
        BY <1>1, <3>2, ParentApart
      <3> QED BY <3>2, <3>3 DEF SvcOK, NoOrphan, EndsTree
    <2>2. CASE s.tasks[ParentTaskId] # "claimed"
      <3>1. f = s
        BY <2>2 DEF CompleteExistingTask
      <3> QED BY <3>1 DEF EndsTree, Live
    <2> QED BY <2>1, <2>2
  <1>4. EndsTree(s, s)
    BY DEF EndsTree, Live
  <1>5. ApplyLifecycle(s, action) \in {s, c, f}
    <2> HIDE DEF c, f
    <2>1. CASE action = "closed"
      BY <2>1 DEF ApplyLifecycle, c
    <2>2. CASE action = "merged"
      BY <2>2 DEF ApplyLifecycle, f
    <2>3. CASE action # "closed" /\ action # "merged"
      BY <2>3 DEF ApplyLifecycle
    <2> QED BY <2>1, <2>2, <2>3
  <1> HIDE DEF c, f
  <1> QED BY <1>2, <1>3, <1>4, <1>5

LEMMA HandleLifecycleOK ==
    ASSUME NEW s, SvcOK(s), NEW action, NEW at \in Nat
    PROVE  LET n == HandleLifecycle(s, action, at)
           IN /\ SvcOK(n) /\ n.seen = s.seen /\ EndsTree(s, n)
              /\ IF GateLifecycleEntry(s, at) THEN n.mark = at ELSE n = s
  <1>1. CASE GateLifecycleEntry(s, at)
    <2> DEFINE b == [s EXCEPT !.mark = Later(at, @), !.life = Later(at, @)]
               n == ApplyLifecycle(b, action)
    <2>1. s \in SvcType /\ s.mark \in Nat /\ s.life \in Nat
      BY DEF SvcOK, SvcType
    <2>2. Later(at, s.mark) = at /\ Later(at, s.life) = at
      BY <1>1, <2>1 DEF GateLifecycleEntry, Later
    <2>3. b \in SvcType /\ b.mark = at /\ b.life = at /\ b.seen = s.seen /\ b.tasks = s.tasks
      BY <2>1, <2>2 DEF SvcType
    <2> HIDE DEF b
    <2>4. SvcOK(b)
      BY <2>3 DEF SvcOK, NoOrphan
    <2>5. SvcOK(n) /\ n.seen = b.seen /\ n.mark = b.mark /\ EndsTree(b, n)
      BY <2>4, ApplyLifecycleOK
    <2>6. HandleLifecycle(s, action, at) = n
      BY <1>1 DEF HandleLifecycle, b
    <2> HIDE DEF n
    <2> QED BY <1>1, <2>3, <2>5, <2>6 DEF EndsTree
  <1>2. CASE ~ GateLifecycleEntry(s, at)
    <2>1. HandleLifecycle(s, action, at) = s
      BY <1>2 DEF HandleLifecycle
    <2> QED BY <1>2, <2>1 DEF EndsTree, Live
  <1> QED BY <1>1, <1>2

LEMMA DispatchOK ==
    ASSUME NEW s, SvcOK(s), NEW e, NEW at \in Nat, s.mark = at, NEW cap
    PROVE  LET n == Dispatch(s, e, at, cap)
           IN SvcOK(n) /\ n.seen = s.seen /\ n.mark = at /\ EndsTree(s, n)
  <1>1. ASSUME NEW n, OnlyCreates(s, n)
        PROVE  SvcOK(n) /\ n.seen = s.seen /\ n.mark = at /\ EndsTree(s, n)
    BY <1>1, ParentApart DEF OnlyCreates, EndsTree, Live
  <1>2. CASE e.action \in {"closed", "reopened", "merged"}
    <2>1. Dispatch(s, e, at, cap) = HandleLifecycle(s, e.action, at)
      BY <1>2 DEF Dispatch
    <2>2. HandleLifecycle(s, e.action, at).mark = at
      BY HandleLifecycleOK
    <2> QED BY <2>1, <2>2, HandleLifecycleOK
  <1>3. CASE e.action = "opened"
    <2>1. \E rest : Dispatch(s, e, at, cap)
                    = IngestCommands(s, "body", ParseAssignmentIntents(e.body), rest, cap)
      BY <1>3 DEF Dispatch
    <2> QED BY <1>1, <2>1, IngestCommandsOK
  <1>4. CASE e.action = "created"
    <2>1. \E rest : Dispatch(s, e, at, cap)
                    = IngestCommands(s, "comment", ParseAssignmentIntents(e.body), rest, cap)
      BY <1>4 DEF Dispatch
    <2> QED BY <1>1, <2>1, IngestCommandsOK
  <1>5. CASE e.action \notin {"closed", "reopened", "merged", "opened", "created"}
    <2>1. Dispatch(s, e, at, cap) = s
      BY <1>5 DEF Dispatch
    <2> QED BY <2>1 DEF EndsTree, Live
  <1> QED BY <1>2, <1>3, <1>4, <1>5

(* A call of ingest that was not accepted has only remembered the delivery. *)
LEMMA IngestOK ==
    ASSUME NEW s, SvcOK(s), NEW e, NEW d \in Nat, NEW at \in Nat, NEW cap,
           NEW n, n = Ingest(s, e, d, at, cap)
    PROVE  /\ SvcOK(n) /\ n.seen = s.seen \cup {d} /\ EndsTree(s, n)
           /\ IF d \notin s.seen /\ AcceptEvent(s, at) THEN n.mark = at
              ELSE n.tasks = s.tasks /\ n.mark = s.mark
  <1>1. s \in SvcType /\ s.mark \in Nat /\ s.life \in Nat /\ s.life <= s.mark
    BY DEF SvcOK, SvcType
  <1>2. CASE d \in s.seen
    <2>1. n = s /\ s.seen = s.seen \cup {d}
      BY <1>2 DEF Ingest
    <2> QED BY <1>2, <2>1 DEF EndsTree, Live
  <1>3. CASE d \notin s.seen /\ ~ AcceptEvent(s, at)
    <2> DEFINE m == [s EXCEPT !.seen = @ \cup {d}]
    <2>1. m \in SvcType /\ m.seen = s.seen \cup {d} /\ m.tasks = s.tasks /\ m.mark = s.mark
          /\ m.life = s.life
      BY <1>1 DEF SvcType
    <2>2. n = m
      BY <1>3 DEF Ingest
    <2> HIDE DEF m
    <2> QED BY <1>3, <2>1, <2>2 DEF SvcOK, NoOrphan, EndsTree, Live
  <1>4. CASE d \notin s.seen /\ AcceptEvent(s, at)
    <2> DEFINE b == [s EXCEPT !.seen = @ \cup {d}, !.mark = at]
    <2>1. b \in SvcType /\ b.seen = s.seen \cup {d} /\ b.tasks = s.tasks /\ b.mark = at
          /\ b.life = s.life
      BY <1>1 DEF SvcType
    <2>2. n = Dispatch(b, e, at, cap)
      BY <1>4 DEF Ingest
    <2> HIDE DEF b
    <2>3. SvcOK(b)
      BY <1>1, <1>4, <2>1 DEF SvcOK, NoOrphan, AcceptEvent
    <2>4. SvcOK(n) /\ n.seen = b.seen /\ n.mark = at /\ EndsTree(b, n)
      BY <2>1, <2>2, <2>3, DispatchOK
    <2> QED BY <1>4, <2>1, <2>4 DEF EndsTree
  <1> QED BY <1>2, <1>3, <1>4

(* lastSeenAt is the newest time accepted since the start.                 *)
IngestedInOrder ==
    /\ SvcOK(Svc)
    /\ ghClock \in Nat /\ ghMark <= ghClock /\ ghNewest = ghMark
    /\ ghKnown \subseteq GitHubWorkers /\ ghSeen \subseteq Deliveries

LEMMA SvcFacts ==
    /\ Svc.tasks = ghTasks /\ Svc.seen = ghSeen /\ Svc.mark = ghMark /\ Svc.life = ghLife
    /\ SvcOK(Svc) <=> /\ ghTasks \in [TaskIds -> IssueStatuses] /\ ghSeen \subseteq Nat
                      /\ ghMark \in Nat /\ ghLife \in Nat /\ ghLife <= ghMark
                      /\ ChildHasParent
  BY DEF Svc, SvcOK, SvcType, NoOrphan, ChildHasParent

LEMMA DeliveriesNat == Deliveries \subseteq Nat
  BY DEF Deliveries

(* A webhook, a polled batch and a backfill: one call of the service that  *)
(* is accepted, or changes no task.                                        *)
LEMMA CallStep ==
    ASSUME IngestedInOrder, NEW n, SvcOK(n), n.seen \subseteq Deliveries, EndsTree(Svc, n), Becomes(n),
           NEW accepted \in BOOLEAN, NEW at \in Nat, at <= ghClock,
           IF accepted THEN n.mark = at /\ at >= ghMark ELSE n.tasks = ghTasks /\ n.mark = ghMark,
           Noted(accepted, at), UNCHANGED <<ghKnown, ghClock, ghCrashes>>
    PROVE  IngestedInOrder' /\ LifecycleInOrder /\ CloseSettlesTree
  <1>1. ghTasks' = n.tasks /\ ghSeen' = n.seen /\ ghMark' = n.mark /\ ghLife' = n.life
    BY DEF Becomes
  <1>2. ghMark \in Nat /\ ghClock \in Nat /\ ghNewest = ghMark /\ ghMark <= ghClock
    BY SvcFacts DEF IngestedInOrder
  <1>3. ghNewest' = (IF accepted THEN Later(ghNewest, at) ELSE ghNewest) /\ ghAt' = at
    BY DEF Noted
  <1>4. ghNewest' = ghMark' /\ ghMark' <= ghClock
    BY <1>1, <1>2, <1>3 DEF Later
  <1>5. Svc' = n
    <2>1. n = [tasks |-> n.tasks, seen |-> n.seen, mark |-> n.mark, life |-> n.life]
      BY DEF SvcOK, SvcType
    <2> QED BY <1>1, <2>1 DEF Svc
  <1>6. SvcOK(Svc)'
    BY <1>1, <1>5 DEF SvcOK, NoOrphan, SvcType, ChildIds, TaskIds, Svc
  <1>7. IngestedInOrder'
    BY <1>1, <1>2, <1>4, <1>6 DEF IngestedInOrder, Deliveries
  <1>8. LifecycleInOrder
    <2> SUFFICES ASSUME Live(ghTasks[ParentTaskId]), ~ Live(ghTasks'[ParentTaskId])
                 PROVE  ghAt' = ghNewest'
      BY DEF LifecycleInOrder
    <2>1. accepted
      BY <1>1
    <2> QED BY <1>1, <1>3, <1>4, <2>1
  <1>9. CloseSettlesTree
    BY <1>1, SvcFacts DEF CloseSettlesTree, EndsTree
  <1> QED BY <1>7, <1>8, <1>9

LEMMA WebhookStep ==
    ASSUME IngestedInOrder, NEW d \in Deliveries, Webhook(d)
    PROVE  IngestedInOrder' /\ LifecycleInOrder /\ CloseSettlesTree
  <1>1. SvcOK(Svc) /\ ghClock \in Nat /\ d \in Nat /\ ghSeen \subseteq Deliveries /\ ghMark \in Nat
    BY DeliveriesNat, SvcFacts DEF IngestedInOrder
  <1>2. /\ Noted(Accepted(d, ghClock), ghClock) /\ UNCHANGED <<ghKnown, ghClock, ghCrashes>>
        /\ Accepted(d, ghClock) \in BOOLEAN
    BY DEF Webhook, Accepted
  <1>3. Accepted(d, ghClock) <=> d \notin ghSeen /\ ghClock >= ghMark
    BY SvcFacts DEF Accepted, AcceptEvent
  <1>4. CASE d \in ghSeen /\ Becomes(Svc)
    <2>1. EndsTree(Svc, Svc)
      BY DEF EndsTree, Live
    <2>2. PICK n : n = Svc
      OBVIOUS
    <2>3. SvcOK(n) /\ n.seen \subseteq Deliveries /\ EndsTree(Svc, n) /\ Becomes(n)
      BY <1>1, <1>4, <2>1, <2>2, SvcFacts
    <2>4. PICK accepted \in BOOLEAN : accepted = Accepted(d, ghClock)
      BY <1>2
    <2>5. IF accepted THEN n.mark = ghClock /\ ghClock >= ghMark
          ELSE n.tasks = ghTasks /\ n.mark = ghMark
      BY <1>3, <1>4, <2>2, <2>4, SvcFacts
    <2>6. ghClock <= ghClock /\ Noted(accepted, ghClock) /\ UNCHANGED <<ghKnown, ghClock, ghCrashes>>
      BY <1>1, <1>2, <2>4
    <2> QED BY <1>1, <2>3, <2>5, <2>6, CallStep
  <1>5. ASSUME d \notin ghSeen, NEW e \in Events, NEW cap \in 0..Creations(e),
               Becomes(Ingest(Svc, e, d, ghClock, cap))
        PROVE  IngestedInOrder' /\ LifecycleInOrder /\ CloseSettlesTree
    <2>1. PICK n : n = Ingest(Svc, e, d, ghClock, cap)
      OBVIOUS
    <2>2. /\ SvcOK(n) /\ n.seen = Svc.seen \cup {d} /\ EndsTree(Svc, n)
          /\ IF d \notin Svc.seen /\ AcceptEvent(Svc, ghClock) THEN n.mark = ghClock
             ELSE n.tasks = Svc.tasks /\ n.mark = Svc.mark
      <3>1. SvcOK(Svc) /\ d \in Nat /\ ghClock \in Nat
        BY <1>1
      <3> QED BY ONLY <2>1, <3>1, IngestOK
    <2>3. n.seen \subseteq Deliveries
      BY <1>1, <2>2, SvcFacts
    <2>4. IF Accepted(d, ghClock) THEN n.mark = ghClock /\ ghClock >= ghMark
          ELSE n.tasks = ghTasks /\ n.mark = ghMark
      BY <1>3, <2>2, SvcFacts DEF Accepted
    <2> QED BY <1>1, <1>2, <1>5, <2>1, <2>2, <2>3, <2>4, CallStep
  <1> QED BY <1>4, <1>5 DEF Webhook

LEMMA PolledBatchStep ==
    ASSUME IngestedInOrder, NEW d \in Deliveries, PolledBatch(d)
    PROVE  IngestedInOrder' /\ LifecycleInOrder /\ CloseSettlesTree
  <1>1. SvcOK(Svc) /\ ghClock \in Nat /\ d \in Nat /\ ghSeen \subseteq Deliveries /\ ghMark \in Nat
    BY DeliveriesNat, SvcFacts DEF IngestedInOrder
  <1>2. PICK first \in Events, second \in Comments, at \in 1..ghClock :
           /\ d \notin ghSeen
           /\ Becomes(IngestBatch(Svc, first, second, d, at))
           /\ Noted(Accepted(d, at), at)
           /\ UNCHANGED <<ghKnown, ghClock, ghCrashes>>
    BY DEF PolledBatch
  <1>3. at \in Nat /\ at <= ghClock
    BY <1>1
  <1>4. Accepted(d, at) \in BOOLEAN /\ (Accepted(d, at) <=> d \notin ghSeen /\ at >= ghMark)
    BY SvcFacts DEF Accepted, AcceptEvent
  <1>5. PICK n : n = Ingest(Svc, first, d, at, AllOfIt)
    OBVIOUS
  <1>6. /\ SvcOK(n) /\ n.seen = Svc.seen \cup {d} /\ EndsTree(Svc, n)
        /\ IF d \notin Svc.seen /\ AcceptEvent(Svc, at) THEN n.mark = at
           ELSE n.tasks = Svc.tasks /\ n.mark = Svc.mark
    <2>1. SvcOK(Svc) /\ d \in Nat /\ at \in Nat
      BY <1>1, <1>3
    <2> QED BY ONLY <1>5, <2>1, IngestOK
  <1>7. IngestBatch(Svc, first, second, d, at) = n
    <2>1. Ingest(n, second, d, at, AllOfIt) = n
      BY <1>6 DEF Ingest
    <2> QED BY <1>5, <2>1 DEF IngestBatch
  <1>8. n.seen \subseteq Deliveries
    BY <1>1, <1>6, SvcFacts
  <1>9. IF Accepted(d, at) THEN n.mark = at /\ at >= ghMark ELSE n.tasks = ghTasks /\ n.mark = ghMark
    BY <1>4, <1>6, SvcFacts DEF Accepted
  <1> QED BY <1>2, <1>3, <1>4, <1>6, <1>7, <1>8, <1>9, CallStep

LEMMA BackfillStep ==
    ASSUME IngestedInOrder, Backfill
    PROVE  IngestedInOrder' /\ LifecycleInOrder /\ CloseSettlesTree
  <1>1. SvcOK(Svc) /\ ghClock \in Nat /\ ghSeen \subseteq Deliveries /\ ghMark \in Nat
    BY SvcFacts DEF IngestedInOrder
  <1>2. PICK action \in {"closed", "reopened", "merged"}, at \in 1..ghClock :
           /\ Becomes(HandleLifecycle(Svc, action, at))
           /\ Noted(GateLifecycleEntry(Svc, at), at)
           /\ UNCHANGED <<ghKnown, ghClock, ghCrashes>>
    BY DEF Backfill
  <1>3. at \in Nat /\ at <= ghClock
    BY <1>1
  <1>4. /\ GateLifecycleEntry(Svc, at) \in BOOLEAN
        /\ GateLifecycleEntry(Svc, at) => at >= ghMark
    BY SvcFacts DEF GateLifecycleEntry
  <1>5. PICK n : n = HandleLifecycle(Svc, action, at)
    OBVIOUS
  <1>6. /\ SvcOK(n) /\ n.seen = Svc.seen /\ EndsTree(Svc, n)
        /\ IF GateLifecycleEntry(Svc, at) THEN n.mark = at ELSE n = Svc
    BY <1>1, <1>3, <1>5, HandleLifecycleOK
  <1>7. n.seen \subseteq Deliveries
    BY <1>1, <1>6, SvcFacts
  <1>8. IF GateLifecycleEntry(Svc, at) THEN n.mark = at /\ at >= ghMark
        ELSE n.tasks = ghTasks /\ n.mark = ghMark
    BY <1>4, <1>6, SvcFacts
  <1> QED BY <1>2, <1>3, <1>4, <1>5, <1>6, <1>7, <1>8, CallStep

LEMMA GitHubCrashStep ==
    ASSUME IngestedInOrder, GitHubCrash
    PROVE  IngestedInOrder'
  <1> DEFINE b == [Svc EXCEPT !.seen = {}]
  <1>1. SvcOK(Svc) /\ ghClock \in Nat
    BY DEF IngestedInOrder
  <1>2. SvcOK(b)
    BY <1>1 DEF SvcOK, SvcType, NoOrphan
  <1>3. PICK e \in Events : \E cap \in 0..Creations(e) : ghTasks' = Ingest(b, e, 1, ghClock, cap).tasks
    BY DEF GitHubCrash
  <1>4. PICK cap \in 0..Creations(e) : ghTasks' = Ingest(b, e, 1, ghClock, cap).tasks
    BY <1>3
  <1> HIDE DEF b
  <1>5. PICK n : n = Ingest(b, e, 1, ghClock, cap)
    OBVIOUS
  <1>6. SvcOK(n)
    BY <1>1, <1>2, <1>5, IngestOK
  <1>7. n.tasks \in [TaskIds -> IssueStatuses] /\ NoOrphan(n)
    BY <1>6 DEF SvcOK, SvcType
  <1>8. /\ ghTasks' = n.tasks /\ ghSeen' = {} /\ ghMark' = 0 /\ ghLife' = 0 /\ ghNewest' = 0
        /\ UNCHANGED <<ghKnown, ghClock>>
    BY <1>4, <1>5 DEF GitHubCrash
  <1>9. SvcOK(Svc)'
    BY <1>7, <1>8 DEF SvcOK, NoOrphan, SvcType, ChildIds, TaskIds, Svc
  <1> QED BY <1>1, <1>8, <1>9 DEF IngestedInOrder, Deliveries

(* The rest of the broker: no call of the service.                         *)
LEMMA OtherGitHubSteps ==
    ASSUME IngestedInOrder,
           \/ \E w \in GitHubWorkers : RegisterWorker(w)
           \/ \E id \in TaskIds : WorkerActs(id)
           \/ ClockTick
    PROVE  IngestedInOrder'
  <1>1. /\ ghTasks \in [TaskIds -> IssueStatuses] /\ ghSeen \subseteq Nat
        /\ ghMark \in Nat /\ ghLife \in Nat /\ ghLife <= ghMark /\ ChildHasParent
    BY SvcFacts DEF IngestedInOrder
  <1>2. UNCHANGED <<ghSeen, ghMark, ghLife, ghNewest>>
    BY DEF RegisterWorker, WorkerActs, ClockTick
  <1>3. ghKnown' \subseteq GitHubWorkers /\ ghClock' \in Nat /\ ghMark <= ghClock'
    BY <1>1 DEF RegisterWorker, WorkerActs, ClockTick, IngestedInOrder
  <1>4. /\ ghTasks' \in [TaskIds -> IssueStatuses]
        /\ \A id \in TaskIds : ghTasks'[id] = "none" <=> ghTasks[id] = "none"
    <2>1. CASE ghTasks' = ghTasks
      BY <1>1, <2>1
    <2>2. ASSUME NEW id \in TaskIds, WorkerActs(id)
          PROVE  /\ ghTasks' \in [TaskIds -> IssueStatuses]
                 /\ \A x \in TaskIds : ghTasks'[x] = "none" <=> ghTasks[x] = "none"
      BY <1>1, <2>2 DEF WorkerActs, IssueStatuses
    <2> QED BY <2>1, <2>2 DEF RegisterWorker, ClockTick
  <1>5. NoOrphan(Svc)'
    BY <1>1, <1>4, ParentApart DEF NoOrphan, ChildHasParent, Svc, ChildIds, TaskIds, ParentTaskId
  <1>6. SvcOK(Svc)'
    BY <1>1, <1>2, <1>4, <1>5 DEF SvcOK, SvcType, Svc, TaskIds
  <1> QED BY <1>2, <1>3, <1>6 DEF IngestedInOrder, Deliveries

LEMMA IngestedInitially == GitHubInit => IngestedInOrder
  <1> SUFFICES ASSUME GitHubInit PROVE IngestedInOrder
    OBVIOUS
  <1>1. ghTasks \in [TaskIds -> IssueStatuses] /\ \A id \in TaskIds : ghTasks[id] = "none"
    BY DEF GitHubInit, IssueStatuses
  <1>2. ChildHasParent
    BY <1>1, ParentApart DEF ChildHasParent
  <1>3. SvcOK(Svc)
    BY <1>1, <1>2, SvcFacts DEF GitHubInit
  <1> QED BY <1>3 DEF GitHubInit, IngestedInOrder

LEMMA IngestedPreserved ==
    ASSUME IngestedInOrder, GitHubNext
    PROVE  IngestedInOrder' /\ LifecycleInOrder /\ CloseSettlesTree
  <1>1. ASSUME ghAt' = 0 PROVE LifecycleInOrder /\ CloseSettlesTree
    BY <1>1 DEF LifecycleInOrder, CloseSettlesTree
  <1>2. CASE \/ \E w \in GitHubWorkers : RegisterWorker(w)
             \/ \E id \in TaskIds : WorkerActs(id)
             \/ ClockTick
    <2>1. ghAt' = 0
      BY <1>2 DEF RegisterWorker, WorkerActs, ClockTick
    <2> QED BY <1>1, <1>2, <2>1, OtherGitHubSteps
  <1>3. CASE GitHubCrash
    <2>1. ghAt' = 0
      BY <1>3 DEF GitHubCrash
    <2> QED BY <1>1, <1>3, <2>1, GitHubCrashStep
  <1> QED BY <1>2, <1>3, WebhookStep, PolledBatchStep, BackfillStep DEF GitHubNext

LEMMA IngestedAlways == GitHubSpec => []IngestedInOrder
  <1>1. IngestedInOrder /\ [GitHubNext]_ghVars => IngestedInOrder'
    <2>1. ASSUME IngestedInOrder, UNCHANGED ghVars PROVE IngestedInOrder'
      <3>1. SvcOK(Svc)'
        BY <2>1 DEF IngestedInOrder, ghVars, Svc, SvcOK, SvcType, NoOrphan, ChildIds, TaskIds
      <3> QED BY <2>1, <3>1 DEF IngestedInOrder, ghVars, Deliveries
    <2> QED BY <2>1, IngestedPreserved
  <1> QED BY <1>1, IngestedInitially, PTL DEF GitHubSpec

(* GitHubIngestionService: watermarks never pass the clock, so that a      *)
(* webhook stamped on arrival is never taken for stale, and a child task   *)
(* always has its parent, also after a createTask that threw or a crash in *)
(* the middle of a delivery, for any bodies, workers and deliveries.       *)
THEOREM IngestionInvHolds == GitHubSpec => []IngestionInv
  <1>1. IngestedInOrder => IngestionInv
    BY SvcFacts DEF IngestedInOrder, IngestionInv, GitHubTypeOK, IssueStatuses
  <1> QED BY <1>1, IngestedAlways, PTL

(* A close or merge ends the task of an issue only if nothing newer was    *)
(* accepted (gateLifecycleEntry, acceptEvent), and a close that ends it    *)
(* leaves no task of the issue live (cancelExistingTask).                  *)
THEOREM IssueEndsTasksHolds == GitHubSpec => IssueEndsTasks
  <1>1. IngestedInOrder /\ [GitHubNext]_ghVars => [LifecycleInOrder /\ CloseSettlesTree]_ghVars
    BY IngestedPreserved
  <1> QED BY <1>1, IngestedAlways, PTL DEF GitHubSpec, IssueEndsTasks
=============================================================================
