---------------------------- MODULE WorkerClient ----------------------------
(***************************************************************************)
(* The worker process of src/worker.ts against the broker's task API, over *)
(* HTTP calls whose request or answer may be lost or late: the poll loop,  *)
(* processTask with its two ways to report a failure, the task heartbeat,  *)
(* the external handler's timeout, stop, crash and restart; on the broker  *)
(* claim, start, complete, fail, reassignment and the stale-task reaper.   *)
(***************************************************************************)
EXTENDS Naturals, Sequences, FiniteSets, SequencesExt

CONSTANTS Tasks, Workers,
          Mode,                \* [Tasks -> {"other", "patch", "validation"}]
          MaxRequeueAttempts,  \* A2A_MAX_REQUEUE_ATTEMPTS
          MaxFaults,           \* bound: lost calls, crashes, silences
          MaxReassigns         \* bound: operator reassignments

ASSUME ModeTyped == Mode \in [Tasks -> {"other", "patch", "validation"}]
ASSUME FiniteParties == IsFiniteSet(Tasks) /\ IsFiniteSet(Workers)
ASSUME BoundsNatural ==
    MaxRequeueAttempts \in Nat \ {0} /\ MaxFaults \in Nat /\ MaxReassigns \in Nat

VARIABLES
    \* broker
    status, assigned, requeues, reassigns,
    silent,      \* held tasks whose last signal is older than the stale threshold
    evidence,    \* what the last result sent for the task carried
    \* worker
    pc,          \* where processTask awaits
    batch,       \* the tasks of the last poll not yet processed, current first
    call,        \* the awaited HTTP call
    stopping,
    \* network
    late,        \* requests whose caller gave up and that may still arrive
    faults,
    \* history
    runs,        \* handler executions begun
    produced,    \* tasks for which some handler execution returned a good result
    acked        \* tasks whose worker saw the broker accept the completion

brokerVars == <<status, assigned, requeues, reassigns, silent, evidence>>
workerVars == <<pc, batch, call, stopping>>
history == <<runs, produced, acked>>
vars == <<brokerVars, workerVars, late, faults, history>>

Held == {"claimed", "running"}
Settled == {"succeeded", "failed"}
Awaiting == {"claiming", "starting", "completing", "failing", "failingAgain"}
NoEvidence == [pr |-> FALSE, comment |-> FALSE, receiptOK |-> TRUE]
Evidence == [pr : BOOLEAN, comment : BOOLEAN, receiptOK : BOOLEAN]

\* The types; a task is never requeued more often than MaxRequeueAttempts,
\* whichever of claim, heartbeat and reaper come in between.
TypeOK ==
    /\ status \in [Tasks -> {"queued"} \cup Held \cup Settled]
    /\ assigned \in [Tasks -> Workers]
    /\ requeues \in [Tasks -> 0..MaxRequeueAttempts]
    /\ reassigns \in 0..MaxReassigns
    /\ silent \in SUBSET Tasks
    /\ evidence \in [Tasks -> Evidence]
    /\ pc \in [Workers -> {"stopped", "idle", "handling", "terminating"} \cup Awaiting]
    /\ batch \in [Workers -> Seq(Tasks)]
    /\ call \in [Workers -> {"none", "sent", "ok", "refused", "broken"}]
    /\ stopping \in SUBSET Workers
    /\ late \in SUBSET [op : {"claim", "start", "complete", "fail"}, task : Tasks, worker : Workers]
    /\ faults \in 0..MaxFaults
    /\ runs \in [Tasks -> Nat]
    /\ produced \in SUBSET Tasks /\ acked \in SUBSET Tasks

Init ==
    /\ status = [t \in Tasks |-> "queued"]
    /\ assigned \in [Tasks -> Workers]
    /\ requeues = [t \in Tasks |-> 0] /\ reassigns = 0
    /\ silent = {}
    /\ evidence = [t \in Tasks |-> NoEvidence]
    /\ pc = [w \in Workers |-> "stopped"]
    /\ batch = [w \in Workers |-> <<>>]
    /\ call = [w \in Workers |-> "none"]
    /\ stopping = {}
    /\ late = {} /\ faults = 0
    /\ runs = [t \in Tasks |-> 0]
    /\ produced = {} /\ acked = {}

-----------------------------------------------------------------------------
(* The broker's answer to a call: its guard and its effect on the task.    *)

Op(w) == CASE pc[w] = "claiming" -> "claim"
           [] pc[w] = "starting" -> "start"
           [] pc[w] = "completing" -> "complete"
           [] OTHER -> "fail"

\* assertTaskWorker, and the status each route requires.
Accepts(op, t, w) ==
    /\ assigned[t] = w
    /\ CASE op = "claim" -> status[t] = "queued"
         [] op = "start" -> status[t] = "claimed"
         [] OTHER -> status[t] \in Held

After(op) == CASE op = "claim" -> "claimed"
               [] op = "start" -> "running"
               [] op = "complete" -> "succeeded"
               [] OTHER -> "failed"

Apply(op, t, w) ==
    IF Accepts(op, t, w)
    THEN /\ status' = [status EXCEPT ![t] = After(op)]
         /\ silent' = silent \ {t}
    ELSE UNCHANGED <<status, silent>>

\* The request reaches the broker and is answered.
Answer(w) ==
    /\ call[w] = "sent"
    /\ LET t == Head(batch[w])
       IN /\ Apply(Op(w), t, w)
          /\ call' = [call EXCEPT ![w] = IF Accepts(Op(w), t, w) THEN "ok" ELSE "refused"]
    /\ UNCHANGED <<assigned, requeues, reassigns, evidence, pc, batch, stopping,
                   late, faults, history>>

\* fetch rejects: the request never left, is still on its way, or was
\* answered and the answer was lost.
Break(w) ==
    /\ faults < MaxFaults
    /\ faults' = faults + 1
    /\ \/ /\ call[w] = "sent"
          /\ late' \in {late, late \cup {[op |-> Op(w), task |-> Head(batch[w]), worker |-> w]}}
       \/ call[w] \in {"ok", "refused"} /\ late' = late
    /\ call' = [call EXCEPT ![w] = "broken"]
    /\ UNCHANGED <<brokerVars, pc, batch, stopping, history>>

LateArrival(m) ==
    /\ late' = late \ {m}
    /\ Apply(m.op, m.task, m.worker)
    /\ UNCHANGED <<assigned, requeues, reassigns, evidence, workerVars, faults, history>>

-----------------------------------------------------------------------------
(* The worker. *)

Send(w, at) ==
    /\ pc' = [pc EXCEPT ![w] = at]
    /\ call' = [call EXCEPT ![w] = "sent"]

\* The for loop of runOnce: the next polled task is claimed, however long
\* ago it was polled; after the last one the loop sleeps, or ends when
\* stop() has cleared `running`.
NextOrSleep(w, rest) ==
    /\ batch' = [batch EXCEPT ![w] = rest]
    /\ IF rest # <<>> THEN Send(w, "claiming")
       ELSE /\ pc' = [pc EXCEPT ![w] = IF w \in stopping THEN "stopped" ELSE "idle"]
            /\ call' = [call EXCEPT ![w] = "none"]

\* run(): register, heartbeat, enter the loop.
Start(w) ==
    /\ pc[w] = "stopped"
    /\ pc' = [pc EXCEPT ![w] = "idle"]
    /\ stopping' = stopping \ {w}
    /\ UNCHANGED <<brokerVars, batch, call, late, faults, history>>

\* pollQueuedTasks lists the queued tasks assigned to this worker; with none
\* of them the loop sleeps again.
Queued(w) == {t \in Tasks : status[t] = "queued" /\ assigned[t] = w}

Poll(w) ==
    /\ pc[w] = "idle"
    /\ \E tasks \in SetToSeqs(Queued(w)) : NextOrSleep(w, tasks)
    /\ UNCHANGED <<brokerVars, stopping, late, faults, history>>

\* A refused claim (401, 403, 404, 409) skips the task, a broken one throws
\* out of runOnce and drops the rest of the batch.
AfterClaim(w) ==
    /\ pc[w] = "claiming"
    /\ \/ call[w] = "ok" /\ Send(w, "starting") /\ UNCHANGED batch
       \/ call[w] = "refused" /\ NextOrSleep(w, Tail(batch[w]))
       \/ call[w] = "broken" /\ NextOrSleep(w, <<>>)
    /\ UNCHANGED <<brokerVars, stopping, late, faults, history>>

\* Only an accepted start runs the handler; anything else goes to the catch.
AfterStart(w) ==
    /\ pc[w] = "starting"
    /\ \/ /\ call[w] = "ok"
          /\ pc' = [pc EXCEPT ![w] = "handling"]
          /\ call' = [call EXCEPT ![w] = "none"]
          /\ runs' = [runs EXCEPT ![Head(batch[w])] = @ + 1]
       \/ /\ call[w] \in {"refused", "broken"}
          /\ Send(w, "failingAgain")
          /\ UNCHANGED runs
    /\ UNCHANGED <<brokerVars, batch, stopping, late, faults, produced, acked>>

\* startTaskHeartbeatTimer: silent once stop() was called.
TaskHeartbeat(w) ==
    /\ pc[w] \in {"handling", "terminating"} /\ w \notin stopping
    /\ LET t == Head(batch[w])
       IN t \in silent /\ assigned[t] = w /\ status[t] \in Held /\ silent' = silent \ {t}
    /\ UNCHANGED <<status, assigned, requeues, reassigns, evidence, workerVars,
                   late, faults, history>>

\* runExternalHandler: timeoutMs passes, the child gets SIGTERM.
HandlerTimeout(w) ==
    /\ pc[w] = "handling"
    /\ pc' = [pc EXCEPT ![w] = "terminating"]
    /\ UNCHANGED <<brokerVars, batch, call, stopping, late, faults, history>>

\* createExternalWorkerHandler: what the closed child's output means.
Exits == [code : {0, 1}, stdout : {"empty", "invalid", "array", "error", "object"}]
ExternalOutcome(timedOut, exit) ==
    IF ~timedOut /\ exit.code = 0 /\ exit.stdout = "object" THEN "result" ELSE "error"

\* The proposal handlers: an assertion before the try throws, one inside it
\* and a failed call are error outcomes.
Preconditions == [proposal : BOOLEAN, found : BOOLEAN, plugin : BOOLEAN,
                  workspace : BOOLEAN, payload : BOOLEAN]

ValidateOutcome(ok) ==
    IF ~ok.proposal THEN "throw" ELSE IF ok.found /\ ok.plugin THEN "result" ELSE "error"
ApplyOutcome(ok) ==
    IF ~(ok.proposal /\ ok.workspace) THEN "throw" ELSE IF ok.plugin THEN "result" ELSE "error"
ProposePatchOutcome(ok) == IF ok.payload /\ ok.found THEN "result" ELSE "error"
ProposeParamsOutcome(ok) == ProposePatchOutcome(ok)

\* createIntentRouter: an intent without a handler is acknowledged as done.
IntentOutcomes(ok) ==
    {ValidateOutcome(ok), ApplyOutcome(ok), ProposePatchOutcome(ok),
     ProposeParamsOutcome(ok), "result"}

HandlerOutcomes(timedOut) ==
    {ExternalOutcome(timedOut, exit) : exit \in Exits} \cup
    (IF timedOut THEN {} ELSE UNION {IntentOutcomes(ok) : ok \in Preconditions})

\* hasGithubCompletionEvidence, and without a patch for a validation lane.
LinksOK(mode, e) == e.comment \/ (mode # "validation" /\ e.pr)

\* requiresGithubCompletionEvidence
NeedsEvidence(mode) == mode # "other"

\* validateGithubTaskCompletionEvidence
EvidenceOK(mode, e) == NeedsEvidence(mode) => LinksOK(mode, e) /\ e.receiptOK

\* Mutant: the branch of a failed outcome does not return.
ReportAlwaysCompletes(w, outcome, e) ==
    /\ Send(w, "completing")
    /\ produced' = IF outcome = "result" THEN produced \cup {Head(batch[w])} ELSE produced
    /\ evidence' = [evidence EXCEPT ![Head(batch[w])] = e]

\* The result is completed, an error or missing evidence failed from the
\* try, a throw failed from the catch.
Report(w, outcome, e) ==
    LET t == Head(batch[w])
        good == outcome = "result" /\ EvidenceOK(Mode[t], e)
    IN /\ Send(w, IF good THEN "completing"
                  ELSE IF outcome = "throw" THEN "failingAgain" ELSE "failing")
       /\ produced' = IF good THEN produced \cup {t} ELSE produced
       /\ evidence' = IF good THEN [evidence EXCEPT ![t] = e] ELSE evidence

HandlerReturns(w) ==
    /\ pc[w] \in {"handling", "terminating"}
    /\ \E outcome \in HandlerOutcomes(pc[w] = "terminating") :
       \E e \in (IF outcome = "result" /\ Mode[Head(batch[w])] # "other"
                 THEN Evidence ELSE {NoEvidence}) : Report(w, outcome, e)
    /\ UNCHANGED <<status, assigned, requeues, reassigns, silent, batch, stopping,
                   late, faults, runs, acked>>

\* A completion that is not accepted is reported as a failure.
AfterComplete(w) ==
    /\ pc[w] = "completing"
    /\ \/ /\ call[w] = "ok"
          /\ NextOrSleep(w, Tail(batch[w]))
          /\ acked' = acked \cup {Head(batch[w])}
       \/ /\ call[w] \in {"refused", "broken"}
          /\ Send(w, "failingAgain")
          /\ UNCHANGED <<batch, acked>>
    /\ UNCHANGED <<brokerVars, stopping, late, faults, runs, produced>>

\* failTask in the try is tried once more from the catch; in the catch its
\* failure throws out of runOnce.
AfterFail(w) ==
    /\ pc[w] \in {"failing", "failingAgain"}
    /\ \/ call[w] = "ok" /\ NextOrSleep(w, Tail(batch[w]))
       \/ /\ call[w] \in {"refused", "broken"}
          /\ IF pc[w] = "failing" THEN Send(w, "failingAgain") /\ UNCHANGED batch
                                  ELSE NextOrSleep(w, <<>>)
    /\ UNCHANGED <<brokerVars, stopping, late, faults, history>>

\* stop() on SIGTERM: the batch in progress is still worked off.
Stop(w) ==
    /\ pc[w] # "stopped" /\ w \notin stopping
    /\ faults < MaxFaults /\ faults' = faults + 1
    /\ stopping' = stopping \cup {w}
    /\ pc' = [pc EXCEPT ![w] = IF @ = "idle" THEN "stopped" ELSE @]
    /\ UNCHANGED <<brokerVars, batch, call, late, history>>

Crash(w) ==
    /\ pc[w] # "stopped"
    /\ faults < MaxFaults /\ faults' = faults + 1
    /\ late' \in {late} \cup
          (IF call[w] = "sent"
           THEN {late \cup {[op |-> Op(w), task |-> Head(batch[w]), worker |-> w]}} ELSE {})
    /\ pc' = [pc EXCEPT ![w] = "stopped"]
    /\ batch' = [batch EXCEPT ![w] = <<>>]
    /\ call' = [call EXCEPT ![w] = "none"]
    /\ UNCHANGED <<brokerVars, stopping, history>>

-----------------------------------------------------------------------------
(* The broker on its own. *)

Heartbeating(t) == \E w \in Workers :
    /\ pc[w] \in {"handling", "terminating"} /\ w \notin stopping
    /\ batch[w] # <<>> /\ Head(batch[w]) = t

\* The last signal of a held task grows too old: nobody heartbeats it, or
\* the heartbeats are lost.
FallSilent(t) ==
    /\ status[t] \in Held /\ t \notin silent
    /\ ~Heartbeating(t)
    /\ silent' = silent \cup {t}
    /\ UNCHANGED <<status, assigned, requeues, reassigns, evidence, workerVars,
                   late, faults, history>>

LoseHeartbeats(t) ==
    /\ status[t] \in Held /\ t \notin silent
    /\ Heartbeating(t)
    /\ faults < MaxFaults /\ faults' = faults + 1
    /\ silent' = silent \cup {t}
    /\ UNCHANGED <<status, assigned, requeues, reassigns, evidence, workerVars, late, history>>

\* Mutant: only running tasks are reaped.
StaleRunning == {t \in silent : status[t] = "running"}

Stale == {t \in silent : status[t] \in Held}

\* Mutant: a requeue is not counted.
RequeuesUncounted(S) == requeues

RequeuesAfter(S) ==
    [t \in Tasks |-> IF t \in S /\ requeues[t] < MaxRequeueAttempts THEN requeues[t] + 1
                                                                    ELSE requeues[t]]

\* requeueStaleTasks: back to the queue, or dead-lettered at the limit.
ReaperSweep ==
    /\ Stale # {}
    /\ status' = [t \in Tasks |-> IF t \notin Stale THEN status[t]
                     ELSE IF requeues[t] >= MaxRequeueAttempts THEN "failed" ELSE "queued"]
    /\ requeues' = RequeuesAfter(Stale)
    /\ silent' = silent \ Stale
    /\ UNCHANGED <<assigned, reassigns, evidence, workerVars, late, faults, history>>

\* reassignTask by an operator, the running attempt notwithstanding.
Reassign(t, w) ==
    /\ reassigns < MaxReassigns
    /\ status[t] \notin Settled /\ w # assigned[t]
    /\ assigned' = [assigned EXCEPT ![t] = w]
    /\ status' = [status EXCEPT ![t] = "queued"]
    /\ silent' = silent \ {t}
    /\ reassigns' = reassigns + 1
    /\ UNCHANGED <<requeues, evidence, workerVars, late, faults, history>>

WorkerStep(w) ==
    \/ Start(w) \/ Poll(w) \/ Answer(w) \/ AfterClaim(w) \/ AfterStart(w)
    \/ HandlerReturns(w) \/ AfterComplete(w) \/ AfterFail(w)

Next ==
    \/ \E w \in Workers : WorkerStep(w) \/ TaskHeartbeat(w) \/ HandlerTimeout(w)
                          \/ Break(w) \/ Stop(w) \/ Crash(w)
    \/ \E t \in Tasks : FallSilent(t) \/ LoseHeartbeats(t)
                        \/ \E w \in Workers : Reassign(t, w)
    \/ \E m \in late : LateArrival(m)
    \/ ReaperSweep

\* A worker is restarted, its event loop runs, calls are answered and
\* handlers end; the reaper's interval fires; unheard tasks grow stale.
Fairness ==
    /\ \A w \in Workers : WF_vars(WorkerStep(w))
    /\ \A t \in Tasks : WF_vars(FallSilent(t))
    /\ WF_vars(ReaperSweep)

Spec == Init /\ [][Next]_vars /\ Fairness

-----------------------------------------------------------------------------
(* Properties. *)

\* processTask and the broker together: whatever calls were lost, repeated
\* or late and whoever was assigned, a task that succeeded had a handler
\* execution that ended with a result the evidence check let pass.
SuccessWasProduced == \A t \in Tasks : status[t] = "succeeded" => t \in produced

\* The evidence gate of worker.ts and broker.ts: a succeeded validation lane
\* carries a comment, a patch lane a pull request or a comment, and neither
\* a forged receipt.
SuccessHasEvidence ==
    \A t \in Tasks : status[t] = "succeeded" =>
        /\ Mode[t] = "validation" => evidence[t].comment
        /\ Mode[t] = "patch" => evidence[t].pr \/ evidence[t].comment
        /\ Mode[t] # "other" => evidence[t].receiptOK

\* A lost answer never makes a handler run twice within one attempt: every
\* execution is paid for by the first queueing, a counted requeue or an
\* operator's reassignment.
RunsBounded ==
    \A t \in Tasks : runs[t] <= 1 + requeues[t] + reassigns

\* A completion the worker saw accepted stays: no reaper sweep, late request
\* or reassignment takes the success back.
AckedStays == \A t \in acked : status[t] = "succeeded"

\* Every task settles: a claim whose answer was lost, a crashed worker or a
\* dropped batch is picked up by the reaper and ends, at the latest by the
\* dead letter.
EveryTaskSettles == \A t \in Tasks : <>[](status[t] \in Settled)

\* A success is earned and kept, whatever calls were lost, late or repeated and
\* whoever crashed: a handler run produced it, with the evidence its lane needs,
\* and once the worker saw it accepted nothing takes it back.
SuccessIsEarned == TypeOK /\ SuccessWasProduced /\ SuccessHasEvidence /\ AckedStays
=============================================================================
