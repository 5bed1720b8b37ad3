---------------------------- MODULE CloseoutGates ----------------------------
(***************************************************************************)
(* The terminal-brief closeout chain: from the terminal events of a round  *)
(* to the status the broker finalizer reads (core/terminal-brief-*.ts).    *)
(* Every stage is a pure builder run by its own script on the JSON packet  *)
(* of the stage before; what lies between two stages is the caller, who    *)
(* may keep an old packet, rebuild one, or edit one by hand.               *)
(***************************************************************************)
EXTENDS Naturals, FiniteSets

CONSTANTS Workers,      \* workers a round may involve
          MaxEvents,    \* terminal events, and signals, of one observation
          MaxEvidence   \* receipt records of one ingestion

ASSUME GateBounds == MaxEvents \in Nat /\ MaxEvidence \in Nat

None == "none"
\* The subsets of S with at most n members.
UpTo(n, S) == {{}} \cup {{f[i] : i \in 1..n} : f \in [1..n -> S]}

-----------------------------------------------------------------------------
(* Packets.  state is the decision or state a packet reports, blocked that *)
(* its blockers are not empty, facts what it asserts, unsafe the no-live   *)
(* flags that are set: the builders leave every one of them false.         *)

Actions == {"post_closeout_comment", "merge_pull_request", "close_issue",
            "create_taskflow_record"}

Packet(at, state, blocked, facts) ==
    [at |-> at, state |-> state, blocked |-> blocked, facts |-> facts, unsafe |-> {}]

NoPacket == Packet(None, None, FALSE, {})

VARIABLES rehearsal,  \* the last rehearsal packet
          dispatch,   \* the dispatch adapter packet, until the status has read it
          packet,     \* the packet of the last stage run
          past        \* ghost: what the inputs behind packet really showed

closeoutVars == <<rehearsal, dispatch, packet, past>>

-----------------------------------------------------------------------------
(* terminal-brief-completion-watcher *)

Events == [worker : Workers, status : {"succeeded", "failed"}, url : BOOLEAN,
           round : {"this", "other"}]

\* buildLane: two events of a worker that differ are a conflict.
Lane(w, events) ==
    LET mine == {e \in events : e.worker = w}
    IN CASE mine = {} -> "waiting"
         [] Cardinality(mine) > 1 -> "conflict"
         [] OTHER -> LET e == CHOOSE x \in mine : TRUE
                     IN IF e.status # "succeeded" THEN "blocked"
                        ELSE IF e.url THEN "ready" ELSE "needs_evidence"

\* deriveExpectedTotal: the total the input or an event names, 0 for none.
ExpectedTotal(total, lanes) == IF total > 0 THEN total ELSE Cardinality(lanes)

CompletionPacket(allEvents, expected, total) ==
    LET events == {e \in allEvents : e.round = "this"}
        lanes == expected \cup {e.worker : e \in events}
        ready == {w \in lanes : Lane(w, events) = "ready"}
    IN IF lanes # ready THEN "blocked"
       ELSE IF Cardinality(ready) < ExpectedTotal(total, lanes) THEN "waiting"
       ELSE "ready_for_finalizer"

-----------------------------------------------------------------------------
(* terminal-brief-final-count-closeout *)

Signals == {s \in [p : 1..2, t : 1..2, round : {"this", "other"}] : s.p <= s.t}

FinalCountConflict(signals) ==
    \/ signals # {} /\ \A s \in signals : s.round # "this"
    \/ Cardinality({s.t : s \in signals}) > 1

\* chooseTrigger: a final count first, the highest progress otherwise.
Triggers(signals) ==
    LET final == {s \in signals : s.p = s.t}
    IN IF final # {} THEN final ELSE {s \in signals : \A u \in signals : u.p <= s.p}

FinalCountCandidate(events, expected, total, signals) ==
    IF signals = {} THEN "waiting"
    ELSE IF /\ ~FinalCountConflict(signals)
            /\ \A s \in Triggers(signals) : s.p = s.t
            /\ CompletionPacket(events, expected, total) = "ready_for_finalizer"
         THEN "candidate" ELSE "blocked"

-----------------------------------------------------------------------------
(* terminal-brief-sidecar-integration-rehearsal *)

SpoolMarks == {"dryRunOnly", "unmarked", "providerSend", "terminalAck"}

\* No final-count signal at all is a blocker too.
Rehearsal(events, expected, total, signals, spool) ==
    LET candidate == FinalCountCandidate(events, expected, total, signals)
        blocked == candidate # "candidate" \/ spool \ {"dryRunOnly"} # {}
    IN [Packet("rehearsal", IF blocked THEN "blocked" ELSE candidate, blocked,
               IF spool \subseteq {"dryRunOnly"} THEN {"dryRunOnly"} ELSE {})
           EXCEPT !.unsafe = spool \cap {"providerSend", "terminalAck"}]

\* What a round that is over looks like, said without lanes or triggers.
RoundOver(events, expected, signals) ==
    LET done == {e \in events : e.round = "this"}
    IN /\ \A w \in expected : \E e \in done : e.worker = w
       /\ \A e \in done : e.status = "succeeded" /\ e.url
       /\ \E s \in signals : s.p = s.t

EventSets == UpTo(MaxEvents, Events)
SignalSets == UpTo(MaxEvents, Signals)

\* The rehearsals the inputs of a round lead to, each with the fact whether
\* the round was over.
Inputs == [events : EventSets, expected : SUBSET Workers, total : 0..2,
           signals : SignalSets, spool : UpTo(1, SpoolMarks)]
Observed(i) ==
    [Rehearsal(i.events, i.expected, i.total, i.signals, i.spool) EXCEPT
        !.facts = @ \cup IF RoundOver(i.events, i.expected, i.signals) THEN {"over"} ELSE {}]
Observations == {Observed(i) : i \in Inputs}

\* A round is observed before its packets are built, and again before the
\* sidecar's dry-run gate, which reads a rehearsal of its own.
Observe(r) ==
    /\ packet.at \in {None, "status"}
    /\ rehearsal' = r
    /\ UNCHANGED <<dispatch, packet, past>>

-----------------------------------------------------------------------------
(* terminal-brief-finalizer-handoff, -finalizer-workflow, -closeout-gate,  *)
(* -approval-request                                                       *)

HandoffDecision(r) == IF r.state = "candidate" THEN "ready" ELSE r.state

FinalizerHandoff(r) == Packet("handoff", HandoffDecision(r), r.blocked, {})

FinalizerWorkflow(h) == Packet("workflow", h.state, h.blocked, {})

\* buildActions: what the gate proposes once the workflow is ready.
ProposedActions(issue, pr) ==
    {"create_taskflow_record"}
    \cup (IF issue \/ pr THEN {"post_closeout_comment"} ELSE {})
    \cup (IF pr THEN {"merge_pull_request"} ELSE {})
    \cup (IF issue THEN {"close_issue"} ELSE {})

GateDecision(w) == IF w.state = "ready" THEN "ready_for_approval" ELSE w.state

CloseoutGate(w, issue, pr) ==
    Packet("closeout_gate", GateDecision(w), w.blocked,
           IF w.state = "ready" THEN ProposedActions(issue, pr) ELSE {})

\* decisionForGate
RequestDecision(g) ==
    IF g.state = "ready_for_approval" /\ g.facts # {} THEN "request_ready"
    ELSE IF g.state = "waiting" THEN "waiting" ELSE "blocked"

ApprovalRequest(g) ==
    Packet("approval_request", RequestDecision(g), RequestDecision(g) # "request_ready", g.facts)

HandOff ==
    /\ packet = NoPacket /\ rehearsal # NoPacket
    /\ packet' = FinalizerHandoff(rehearsal)
    /\ past' = rehearsal.facts \cap {"over"}
    /\ UNCHANGED <<rehearsal, dispatch>>

BuildWorkflow ==
    /\ packet.at = "handoff"
    /\ packet' = FinalizerWorkflow(packet)
    /\ UNCHANGED <<rehearsal, dispatch, past>>

BuildCloseoutGate(issue, pr) ==
    /\ packet.at = "workflow"
    /\ packet' = CloseoutGate(packet, issue, pr)
    /\ UNCHANGED <<rehearsal, dispatch, past>>

RequestApproval ==
    /\ packet.at = "closeout_gate"
    /\ packet' = ApprovalRequest(packet)
    /\ UNCHANGED <<rehearsal, dispatch, past>>

-----------------------------------------------------------------------------
(* terminal-brief-approval-executor and -approval-dispatch-adapter *)

\* findSelectedAction: the action, and the target it was requested for.
FoundAction(q, selected, target) == selected \in q.facts /\ target

ExecutorBlocked(q, selected, target) ==
    \/ q.blocked \/ q.state # "request_ready"
    \/ selected # None /\ ~FoundAction(q, selected, target)

\* stateForRequest: the executor shell never executes.
ApprovalExecutor(q, selected, target, attempt) ==
    Packet("executor",
           IF ExecutorBlocked(q, selected, target) THEN "blocked"
           ELSE IF selected = None THEN "dispatch_pending"
           ELSE IF attempt THEN "execute_blocked" ELSE "approval_granted_dry_run",
           ExecutorBlocked(q, selected, target),
           IF FoundAction(q, selected, target) THEN {selected} ELSE {})

\* supported: the adapter named is one of generic, openclaw, hermes, gongyung.
AdapterBlocked(x, supported) ==
    x.blocked \/ ~supported \/ x.state \in {"blocked", "execute_blocked"}

DispatchAdapter(x, supported) ==
    Packet("dispatch",
           IF AdapterBlocked(x, supported) THEN "dispatch_blocked"
           ELSE IF x.state = "approval_granted_dry_run" THEN "approval_receipt_draft_ready"
           ELSE "dispatch_draft_ready",
           AdapterBlocked(x, supported), x.facts)

RunExecutor(selected, target, attempt) ==
    /\ packet.at = "approval_request"
    /\ packet' = ApprovalExecutor(packet, selected, target, attempt)
    /\ UNCHANGED <<rehearsal, dispatch, past>>

Dispatch(supported) ==
    /\ packet.at = "executor"
    /\ packet' = DispatchAdapter(packet, supported)
    /\ dispatch' = packet'
    /\ UNCHANGED <<rehearsal, past>>

-----------------------------------------------------------------------------
(* Receipt evidence, as the three receipt ingestors read it.               *)

Visible == {"current_session_visible", "manual_operator_confirmation"}
Positive == Visible \cup {"provider_accepted", "approval_grant"}
EvidenceKinds == Positive \cup {"rejected", "expired", "conflict", "unknown"}

\* age: whether observedAt or expiresAt is past; undated has neither.
\* says: whether the action or target it names is the requested one.
Evidence == {e \in [kind : EvidenceKinds, age : {"fresh", "old", "undated"},
                    says : {"requested", "another", "nothing"}]
                : e.kind # "approval_grant" => e.says = "nothing"}

Stale(e) == e.kind = "expired" \/ e.age = "old"

\* A grant conflicts when it names something else than what was asked for.
Conflicts(e, asked) ==
    \/ e.kind = "conflict"
    \/ e.kind = "approval_grant" /\ asked /\ e.says = "another"

Fresh(records, asked) == {e \in records : ~Stale(e) /\ ~Conflicts(e, asked)}
Kinds(records) == {e.kind : e \in records}

-----------------------------------------------------------------------------
(* terminal-brief-approval-receipt-ingestor *)

IngestorBlocked(d, records) ==
    d.blocked \/ d.state = "dispatch_blocked" \/ "unknown" \in Kinds(records)

\* stateForClassification
ReceiptState(d, records) ==
    LET kinds == Kinds(Fresh(records, d.facts # {}))
        conflict == \/ \E e \in records : Conflicts(e, d.facts # {})
                    \/ kinds \cap Positive # {} /\ "rejected" \in kinds
    IN IF IngestorBlocked(d, records) THEN "blocked"
       ELSE IF conflict THEN "conflicting"
       ELSE IF records # {} /\ \A e \in records : Stale(e) THEN "stale"
       ELSE IF "rejected" \in kinds THEN "blocked"
       ELSE IF kinds \cap (Visible \cup {"approval_grant"}) # {} THEN "accepted"
       ELSE "insufficient"

ReceiptIngestor(d, records) ==
    Packet("receipt", ReceiptState(d, records), IngestorBlocked(d, records),
           Kinds(Fresh(records, d.facts # {})))

\* The ghost: which of these an operator's reading of the records finds.
Showed(records, asked) ==
    {f \in {"seen", "granted", "refused", "other_grant"} :
        \/ f = "seen" /\ \E e \in records : e.kind \in Visible /\ e.age # "old"
        \/ f = "granted" /\ \E e \in records : e.kind = "approval_grant" /\ e.age # "old"
        \/ f = "refused" /\ \E e \in records : e.kind = "rejected" /\ e.age # "old"
        \/ f = "other_grant" /\ asked
             /\ \E e \in records : e.kind = "approval_grant" /\ e.says = "another"}

IngestReceipts(records) ==
    /\ packet.at = "dispatch"
    /\ packet' = ReceiptIngestor(packet, records)
    /\ past' = past \cup Showed(records, packet.facts # {})
    /\ UNCHANGED <<rehearsal, dispatch>>

-----------------------------------------------------------------------------
(* terminal-brief-finalizer-approval-status: the dispatch packet, and the  *)
(* receipt packet where there is one.                                      *)

StatusBlocked(d, r) ==
    \/ d.blocked \/ d.state = "dispatch_blocked" \/ r = NoPacket
    \/ r.state # "accepted"
    \/ r.facts \cap Visible = {} \/ "approval_grant" \notin r.facts

SourceCriteriaMet(d, r) ==
    /\ d.state # "dispatch_blocked" /\ r.state = "accepted"
    /\ r.facts \cap Visible # {} /\ "approval_grant" \in r.facts

StatusFor(d, r) ==
    IF d.state = "dispatch_blocked" \/ r.state = "blocked" THEN "blocked"
    ELSE IF r.state \in {"conflicting", "stale"} THEN r.state
    ELSE IF r = NoPacket \/ r.state = "insufficient" THEN "waiting_for_receipt_evidence"
    ELSE IF r.facts \cap Visible = {} THEN "waiting_for_visibility_evidence"
    ELSE IF "approval_grant" \notin r.facts THEN "waiting_for_approval_evidence"
    ELSE IF StatusBlocked(d, r) THEN "blocked" ELSE "ready_for_finalizer_review"

ApprovalStatus(d, r) ==
    Packet("status", StatusFor(d, r), StatusBlocked(d, r),
           IF SourceCriteriaMet(d, r) THEN {"met"} ELSE {})

BuildStatus ==
    /\ packet.at \in {"dispatch", "receipt"}
    /\ packet' = ApprovalStatus(dispatch, IF packet.at = "receipt" THEN packet ELSE NoPacket)
    /\ dispatch' = NoPacket
    /\ UNCHANGED <<rehearsal, past>>

-----------------------------------------------------------------------------
CloseoutInit ==
    /\ rehearsal = NoPacket
    /\ dispatch = NoPacket
    /\ packet = NoPacket
    /\ past = {}

EvidenceSets == UpTo(MaxEvidence, Evidence)

CloseoutNext ==
    \/ \E r \in Observations : Observe(r)
    \/ HandOff \/ BuildWorkflow \/ RequestApproval \/ BuildStatus
    \/ \E issue, pr \in BOOLEAN : BuildCloseoutGate(issue, pr)
    \/ \E selected \in Actions \cup {None}, target, attempt \in BOOLEAN :
          RunExecutor(selected, target, attempt)
    \/ \E supported \in BOOLEAN : Dispatch(supported)
    \/ \E records \in EvidenceSets : IngestReceipts(records)

\* The packets of the closeout stages, with the decisions they declare.
CloseoutPackets(at, states, facts) ==
    [at : {at}, state : states, blocked : BOOLEAN, facts : SUBSET facts, unsafe : {{}}]

RehearsalPackets ==
    [at : {"rehearsal"}, state : {"candidate", "blocked", "waiting"}, blocked : BOOLEAN,
     facts : SUBSET {"dryRunOnly", "over"}, unsafe : SUBSET SpoolMarks]
HandoffPackets == CloseoutPackets("handoff", {"ready", "blocked", "waiting"}, {})
WorkflowPackets == CloseoutPackets("workflow", {"ready", "blocked", "waiting"}, {})
CloseoutGatePackets ==
    CloseoutPackets("closeout_gate", {"ready_for_approval", "blocked", "waiting"}, Actions)
RequestPackets ==
    CloseoutPackets("approval_request", {"request_ready", "blocked", "waiting"}, Actions)
ExecutorPackets ==
    CloseoutPackets("executor", {"dispatch_pending", "approval_granted_dry_run",
                                 "execute_blocked", "blocked"}, Actions)
DispatchPackets ==
    CloseoutPackets("dispatch", {"dispatch_draft_ready", "approval_receipt_draft_ready",
                                 "dispatch_blocked"}, Actions)
ReceiptPackets ==
    CloseoutPackets("receipt", {"accepted", "insufficient", "stale", "conflicting", "blocked"},
                    EvidenceKinds)
StatusPackets ==
    CloseoutPackets("status", {"ready_for_finalizer_review", "waiting_for_receipt_evidence",
                               "waiting_for_visibility_evidence",
                               "waiting_for_approval_evidence", "stale", "conflicting",
                               "blocked"}, {"met"})

\* Every stage of the closeout chain reports a state its packet type declares.
CloseoutTypeOK ==
    /\ rehearsal = NoPacket \/ rehearsal \in RehearsalPackets
    /\ dispatch = NoPacket \/ dispatch \in DispatchPackets
    /\ packet.at \in {"handoff", "workflow", "closeout_gate", "approval_request", "executor",
                     "dispatch", "receipt", "status"} =>
        \/ packet \in HandoffPackets \/ packet \in WorkflowPackets
        \/ packet \in CloseoutGatePackets \/ packet \in RequestPackets
        \/ packet \in ExecutorPackets \/ packet \in DispatchPackets
        \/ packet \in ReceiptPackets \/ packet \in StatusPackets

Proven == {"over", "seen", "granted"} \subseteq past /\ past \cap {"refused", "other_grant"} = {}

\* The status the finalizer reads is ready only for a round whose expected
\* workers all reported success with evidence and whose count was reached,
\* with a receipt an operator saw, a grant, no refusal and no grant for
\* something else: nothing between the first event and the last packet
\* loses one of these (terminal-brief-finalizer-approval-status).
FinalizerReadyIsProven ==
    packet.at = "status" /\ packet.state = "ready_for_finalizer_review" => Proven
=============================================================================
