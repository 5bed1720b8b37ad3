----------------------------- MODULE SidecarGates -----------------------------
(***************************************************************************)
(* The sidecar activation chain behind the closeout chain: from the        *)
(* dry-run gate to the sealed dispatch envelope, nineteen source-only      *)
(* stages (core/terminal-brief-sidecar-*.ts).  Every stage checks the      *)
(* packet it is given again, since a packet travels as a JSON file: Edit   *)
(* and Relabel change one on the way.                                      *)
(***************************************************************************)
EXTENDS CloseoutGates

-----------------------------------------------------------------------------
(* The no-live flags, by the consumers that refuse them.                   *)

Acts == {"performsProviderSend", "performsTerminalAck", "performsRuntimeRestartOrDeploy",
         "performsDbMutation", "movesSecretsOrCredentials", "executesAction"}
NoLive == Acts \cup {"performsHistoricalReplay", "performsReleaseOrPublish"}
Sends == {"executionPermitted", "providerSendPermitted", "terminalAckPermitted"}
Permits == Sends \cup {"sidecarStartPermitted", "defaultOnPermitted", "approvalGrantPermitted"}
Runs == {"startExecutorDispatchPermitted", "executorInvocationPermitted",
         "processSpawnPermitted", "dispatchesStartExecutor", "invokesExecutor",
         "spawnsProcess"}
Starts == {"startsSidecar", "enablesDefaultOn"}
Asks == {"approvalRequestDispatchPermitted", "sendsApprovalRequest", "grantsApproval"}

Flags == NoLive \cup Permits \cup Runs \cup Starts \cup Asks
         \cup {"alwaysOnDryRunStartPermitted", "liveActivationPermitted", "dispatchPermitted",
               "commandExecutionPermitted", "secretsIncluded", "dbMutationPermitted",
               "openclawMessageSendRequired", "collectsLiveEvidence", "probesGateway",
               "executesApprovalGrant", "approvalGrantExecutionPermitted",
               "secretValuesIncluded", "writesRuntimeState"}

Preflight == NoLive \cup Permits \cup Runs \cup Starts \cup Asks \cup {"dbMutationPermitted"}

-----------------------------------------------------------------------------
(* One stage.  up is the packet given; rules names the states passed on,   *)
(* the ready state asked for, the flags refused, what the stage says of a  *)
(* packet that is not ready and its own ready state.  "met" stands for the *)
(* readiness fields that are true only in the ready state.                 *)

Packets(at, states) ==
    [at : {at}, state : states, blocked : BOOLEAN, facts : SUBSET {"met"},
     unsafe : SUBSET Flags]

SourceBlocked(up, rules) ==
    \/ up.blocked \/ up.state # rules.ready \/ "met" \notin up.facts
    \/ up.unsafe \cap rules.flags # {}

Built(at, state, rules, blocked) ==
    Packet(at, state, blocked, IF state = rules.done THEN {"met"} ELSE {})

\* Mutant: the flags of the packet are not looked at again.
StateForTrusting(up, rules) ==
    IF up.state \in rules.through THEN up.state
    ELSE IF up.state = "blocked" THEN "blocked"
    ELSE IF up.state # rules.ready THEN rules.waiting
    ELSE IF up.blocked \/ "met" \notin up.facts THEN "blocked" ELSE rules.done

StateFor(up, rules) ==
    IF up.state \in rules.through THEN up.state
    ELSE IF up.state = "blocked" \/ up.unsafe \cap rules.flags # {} THEN "blocked"
    ELSE IF up.state # rules.ready THEN rules.waiting
    ELSE IF SourceBlocked(up, rules) THEN "blocked" ELSE rules.done

Gate(at, up, rules) == Built(at, StateFor(up, rules), rules, SourceBlocked(up, rules))

Refusals == {"stale", "conflicting", "rejected"}

-----------------------------------------------------------------------------
(* terminal-brief-sidecar-dry-run-gate: the rehearsal, the finalizer       *)
(* status, and operating evidence: the rows it makes ready, and its age.   *)

DryRunGatePackets ==
    Packets("dry_run_gate", {"ready_for_operator_approval", "waiting_for_finalizer_status",
                             "waiting_for_operating_evidence", "stale", "blocked"})

OperatingRows == {"cursor_polling", "gateway_load", "safety_boundary"}

SidecarReady(r) == /\ r.state = "candidate" /\ "dryRunOnly" \in r.facts
                   /\ r.unsafe = {} /\ ~r.blocked
FinalizerReady(s) == /\ s.state = "ready_for_finalizer_review"
                     /\ "met" \in s.facts /\ ~s.blocked

\* Stale evidence makes the gateway load row not ready.
RowsReady(r, s, rows, stale) ==
    SidecarReady(r) /\ FinalizerReady(s) /\ rows = OperatingRows /\ ~stale

DryRunGateState(r, s, rows, stale) ==
    IF r.state = "blocked" \/ s.state = "blocked" THEN "blocked"
    ELSE IF stale THEN "stale"
    ELSE IF s.state # "ready_for_finalizer_review" THEN "waiting_for_finalizer_status"
    ELSE IF ~RowsReady(r, s, rows, stale) THEN "waiting_for_operating_evidence"
    ELSE "ready_for_operator_approval"

DryRunGate(r, s, rows, stale) ==
    Built("dry_run_gate", DryRunGateState(r, s, rows, stale),
          [done |-> "ready_for_operator_approval"],
          r.blocked \/ s.blocked \/ ~RowsReady(r, s, rows, stale))

-----------------------------------------------------------------------------
(* The two approval requests and the receipt ingestors they share.         *)

ActivationApprovalPackets ==
    Packets("activation_approval",
            {"approval_request_draft_ready", "waiting_for_gate", "stale", "blocked"})

ActivationApprovalRules ==
    [through |-> {"stale"}, ready |-> "ready_for_operator_approval",
     flags |-> NoLive \cup Starts \cup {"grantsApproval", "defaultOnPermitted",
                   "alwaysOnDryRunStartPermitted", "liveActivationPermitted"},
     waiting |-> "waiting_for_gate", done |-> "approval_request_draft_ready"]

\* A gate that is ready without its source criteria is only waited for.
RequestDraft(at, up, rules) ==
    IF up.state = rules.ready /\ up.unsafe \cap rules.flags = {} /\ "met" \notin up.facts
    THEN Packet(at, rules.waiting, TRUE, {})
    ELSE Gate(at, up, rules)

ActivationApproval(g) == RequestDraft("activation_approval", g, ActivationApprovalRules)

ActivationReceiptPackets ==
    Packets("activation_receipt", Refusals \cup {"accepted", "insufficient", "blocked"})

ActivationReceiptRules ==
    [ready |-> "approval_request_draft_ready",
     flags |-> NoLive \cup Permits \cup Starts
                  \cup {"grantsApproval", "sendsApprovalRequest", "dispatchPermitted"},
     done |-> "accepted"]

\* stateForClassification: a visible receipt and a grant are both needed.
EvidenceState(records) ==
    LET kinds == Kinds(Fresh(records, TRUE))
        accepted == kinds \cap Visible # {} /\ "approval_grant" \in kinds
    IN IF "unknown" \in Kinds(records) THEN "blocked"
       ELSE IF \E e \in records : Conflicts(e, TRUE) THEN "conflicting"
       ELSE IF "rejected" \in kinds
            THEN IF kinds \cap Positive # {} THEN "conflicting" ELSE "rejected"
       ELSE IF records # {} /\ \A e \in records : Stale(e) THEN "stale"
       ELSE IF accepted THEN "accepted" ELSE "insufficient"

\* Mutant: a grant needs no receipt that anybody saw.
ReceiptFromGrantAlone(at, up, rules, records) ==
    LET blocked == SourceBlocked(up, rules)
        grant == "approval_grant" \in Kinds(Fresh(records, TRUE))
    IN Built(at, IF blocked THEN "blocked" ELSE IF grant THEN "accepted" ELSE "insufficient",
             rules, blocked)

Receipt(at, up, rules, records) ==
    LET blocked == SourceBlocked(up, rules)
    IN Built(at, IF blocked THEN "blocked" ELSE EvidenceState(records),
             rules, blocked \/ "unknown" \in Kinds(records))

ActivationReceipt(a, records) ==
    Receipt("activation_receipt", a, ActivationReceiptRules, records)

StartReceiptPackets ==
    Packets("start_receipt", Refusals \cup {"accepted", "insufficient", "blocked"})

StartReceiptFlags == Preflight

\* The start request dressed as an activation approval: its flags are left
\* false, since buildSourceBlockers has looked at them.
AsActivationApproval(q, records) ==
    Receipt("start_receipt", q, [ActivationReceiptRules EXCEPT !.flags = {}], records)

\* stateFor: its own source blockers, then the states of a request that is
\* not ready, then the shared ingestor.
StartReceipt(q, records) ==
    LET packet1 == AsActivationApproval(q, records)
        notReady == IF q.state \in {"stale", "conflicting"} THEN q.state
                    ELSE IF q.state = "degraded" THEN "blocked" ELSE "insufficient"
    IN IF q.blocked \/ q.state = "blocked" \/ q.unsafe \cap StartReceiptFlags # {}
       THEN Packet("start_receipt", "blocked", TRUE, {})
       ELSE IF q.state # "approval_request_draft_ready"
       THEN [packet1 EXCEPT !.state = notReady, !.facts = {}]
       ELSE packet1

-----------------------------------------------------------------------------
(* Start gate, rehearsal, canary plan, preflight.                          *)

StartGatePackets ==
    Packets("start_gate", Refusals \cup {"ready_for_start_executor_review",
                                         "waiting_for_accepted_evidence", "blocked"})

StartGateRules ==
    [through |-> Refusals, ready |-> "accepted",
     flags |-> NoLive \cup Permits \cup Runs \cup Starts \cup {"grantsApproval"},
     waiting |-> "waiting_for_accepted_evidence", done |-> "ready_for_start_executor_review"]

StartExecutorGate(r) == Gate("start_gate", r, StartGateRules)

InvocationPackets ==
    Packets("invocation_rehearsal",
            Refusals \cup {"ready_for_executor_invocation_rehearsal",
                           "waiting_for_start_executor_review", "blocked"})

InvocationRules ==
    [through |-> Refusals, ready |-> "ready_for_start_executor_review",
     flags |-> NoLive \cup Permits \cup Starts
                  \cup {"startExecutorDispatchPermitted", "dispatchesStartExecutor",
                        "commandExecutionPermitted", "secretsIncluded"},
     waiting |-> "waiting_for_start_executor_review",
     done |-> "ready_for_executor_invocation_rehearsal"]

InvocationRehearsal(g) == Gate("invocation_rehearsal", g, InvocationRules)

CanaryPlanPackets ==
    Packets("canary_plan", Refusals \cup {"ready_for_dry_run_start_approval_request",
                              "waiting_for_executor_invocation_rehearsal", "blocked"})

CanaryPlanRules ==
    [through |-> Refusals, ready |-> "ready_for_executor_invocation_rehearsal",
     flags |-> NoLive \cup Permits \cup Runs \cup Starts
                  \cup {"commandExecutionPermitted", "secretsIncluded"},
     waiting |-> "waiting_for_executor_invocation_rehearsal",
     done |-> "ready_for_dry_run_start_approval_request"]

CanaryPlan(r) == Gate("canary_plan", r, CanaryPlanRules)

CollectorPackets ==
    Packets("preflight_collector", {"ready_for_supervised_dry_run_preflight_review",
               "waiting_for_preflight_evidence", "stale", "degraded", "conflicting", "blocked"})

\* What may be wrong with the supplied preflight evidence: it is too old, a
\* live action was observed, the gateway, event loop, telegram or queue is
\* degraded, a row is missing or out of its limits.
PreflightFaults == {"stale", "unsafe", "degraded", "missing"}

CollectorRules ==
    [ready |-> "ready_for_dry_run_start_approval_request",
     flags |-> NoLive \cup Permits \cup Runs \cup Starts \cup Asks
                  \cup {"liveActivationPermitted", "dispatchPermitted"},
     done |-> "ready_for_supervised_dry_run_preflight_review"]

\* buildRows: every required row is ready.
CollectorRows(c, faults) == ~SourceBlocked(c, CollectorRules) /\ faults = {}

CollectorState(c, faults) ==
    IF c.state \in {"stale", "conflicting"} THEN c.state
    ELSE IF c.state = "blocked" \/ c.unsafe \cap CollectorRules.flags # {} THEN "blocked"
    ELSE IF "stale" \in faults THEN "stale"
    ELSE IF "unsafe" \in faults THEN "blocked"
    ELSE IF "degraded" \in faults THEN "degraded"
    ELSE IF ~CollectorRows(c, faults) THEN "waiting_for_preflight_evidence"
    ELSE CollectorRules.done

PreflightCollector(c, faults) ==
    Built("preflight_collector", CollectorState(c, faults), CollectorRules,
          ~CollectorRows(c, faults))

ChainReviewPackets ==
    Packets("chain_review", {"ready_for_supervised_dry_run_chain_review",
               "waiting_for_preflight_review", "stale", "degraded", "conflicting", "blocked"})

ChainReviewRules ==
    [ready |-> "ready_for_supervised_dry_run_preflight_review",
     flags |-> Preflight \cup {"liveActivationPermitted"},
     done |-> "ready_for_supervised_dry_run_chain_review"]

\* Every required row: the collector is ready, complete and harness-neutral.
ChainRows(c) ==
    /\ ~SourceBlocked(c, ChainReviewRules)
    /\ c.unsafe \cap {"openclawMessageSendRequired", "collectsLiveEvidence",
                      "probesGateway"} = {}

ChainReviewState(c) ==
    IF c.state \in {"stale", "degraded", "conflicting"} THEN c.state
    ELSE IF c.state = "blocked" \/ c.unsafe \cap ChainReviewRules.flags # {} THEN "blocked"
    ELSE IF ~ChainRows(c) THEN "waiting_for_preflight_review" ELSE ChainReviewRules.done

ChainReview(c) == Built("chain_review", ChainReviewState(c), ChainReviewRules, ~ChainRows(c))

StartRequestPackets ==
    Packets("start_request", {"approval_request_draft_ready", "waiting_for_chain_review",
                              "stale", "degraded", "conflicting", "blocked"})

StartRequestRules ==
    [through |-> {"stale", "degraded", "conflicting"},
     ready |-> "ready_for_supervised_dry_run_chain_review",
     flags |-> Preflight \cup {"liveActivationPermitted"},
     waiting |-> "waiting_for_chain_review", done |-> "approval_request_draft_ready"]

StartApprovalRequest(c) == RequestDraft("start_request", c, StartRequestRules)

-----------------------------------------------------------------------------
(* Approval packet, handoff, review table.                                 *)

RuntimePreflightPackets ==
    Packets("runtime_preflight", Refusals \cup {"approval_packet_ready",
                                     "waiting_for_invocation_rehearsal", "blocked"})

RuntimePreflightRules ==
    [through |-> Refusals, ready |-> "ready_for_executor_invocation_rehearsal",
     flags |-> NoLive \cup Sends \cup {"sidecarStartPermitted", "startsSidecar"}
                  \cup (Runs \ {"dispatchesStartExecutor"}),
     waiting |-> "waiting_for_invocation_rehearsal", done |-> "approval_packet_ready"]

RuntimePreflightApproval(r) == Gate("runtime_preflight", r, RuntimePreflightRules)

HandoffApprovalPackets ==
    Packets("adapter_handoff", Refusals \cup {"handoff_packet_ready",
                                   "waiting_for_runtime_preflight_approval", "blocked"})

HandoffRules ==
    [through |-> Refusals, ready |-> "approval_packet_ready",
     flags |-> RuntimePreflightRules.flags \cup Asks
                  \cup {"approvalGrantPermitted", "dbMutationPermitted"},
     waiting |-> "waiting_for_runtime_preflight_approval", done |-> "handoff_packet_ready"]

AdapterHandoff(a) == Gate("adapter_handoff", a, HandoffRules)

ReviewTablePackets ==
    Packets("review_table", Refusals \cup {"review_table_ready",
                                           "waiting_for_adapter_handoff", "blocked"})

ReviewTableRules ==
    [through |-> Refusals, ready |-> "handoff_packet_ready",
     flags |-> HandoffRules.flags \cup {"secretsIncluded"},
     waiting |-> "waiting_for_adapter_handoff", done |-> "review_table_ready"]

OperatorReviewTable(h) == Gate("review_table", h, ReviewTableRules)

-----------------------------------------------------------------------------
(* Decision and grant evidence: yes, no, more, and what is none of them.   *)

DecisionTypes == {"approve", "reject", "request_more_evidence", "provider_accepted",
                  "conflict", "expired"}

\* fits: names no other target and the review reference asked for; visible:
\* operatorVisibleConfirmation; finalizer: finalizerId.
Decisions == {d \in [type : DecisionTypes, old : BOOLEAN, fits : BOOLEAN, visible : BOOLEAN,
                     finalizer : BOOLEAN]
                 : d.type # "approve" => ~d.visible /\ ~d.finalizer}

\* isExpired of the two ingestors.
Expired(d) == d.type = "expired" \/ d.old

ClassifyDecision(d) ==
    CASE d.type = "conflict" -> "conflict"
      [] d.type # "conflict" /\ Expired(d) -> "expired"
      [] ~Expired(d) /\ d.type = "reject" /\ d.fits -> "rejected"
      [] ~Expired(d) /\ d.type = "request_more_evidence" /\ d.fits -> "more_evidence"
      [] ~Expired(d) /\ d.type = "approve" /\ d.fits /\ d.visible -> "accepted"
      [] OTHER -> "insufficient"

\* A grant needs a finalizer too.
ClassifyGrant(d) ==
    IF ClassifyDecision(d) = "accepted" /\ ~d.finalizer THEN "insufficient"
    ELSE ClassifyDecision(d)

\* One contrary answer outweighs every approval.
Verdict(said, no, yes) ==
    IF "conflict" \in said THEN "conflicting"
    ELSE IF "expired" \in said THEN "expired"
    ELSE IF "rejected" \in said THEN no
    ELSE IF "more_evidence" \in said THEN "more_evidence_requested"
    ELSE IF "accepted" \in said THEN yes ELSE "insufficient"

ReviewDecisionPackets ==
    Packets("review_decision", Refusals \cup {"approved_evidence", "more_evidence_requested",
               "insufficient", "expired", "waiting_for_operator_review_table", "blocked"})

ReviewDecisionRules ==
    [ready |-> "review_table_ready",
     flags |-> Acts \cup Sends \cup Asks \cup {"approvalGrantPermitted"},
     done |-> "approved_evidence"]

ReviewDecisionState(t, records) ==
    IF t.state \in Refusals \cup {"blocked"} THEN t.state
    ELSE IF t.state # "review_table_ready" THEN "waiting_for_operator_review_table"
    ELSE IF SourceBlocked(t, ReviewDecisionRules) THEN "blocked"
    ELSE Verdict({ClassifyDecision(d) : d \in records}, "rejected", "approved_evidence")

ReviewDecision(t, records) ==
    Built("review_decision", ReviewDecisionState(t, records), ReviewDecisionRules,
          SourceBlocked(t, ReviewDecisionRules))

GrantProposalPackets ==
    Packets("grant_proposal", Refusals \cup {"ready_for_grant_proposal_review",
               "waiting_for_review_decision", "more_evidence_requested", "blocked"})

GrantProposalRules ==
    [ready |-> "approved_evidence",
     flags |-> Acts \cup Sends
                  \cup {"sendsApprovalRequest", "grantsApproval", "approvalGrantPermitted"},
     done |-> "ready_for_grant_proposal_review"]

GrantProposalState(d) ==
    IF d.state \in {"stale", "expired"} THEN "stale"
    ELSE IF d.state \in {"conflicting", "rejected", "more_evidence_requested"} THEN d.state
    ELSE IF d.state # "approved_evidence" THEN "waiting_for_review_decision"
    ELSE IF SourceBlocked(d, GrantProposalRules) THEN "blocked" ELSE GrantProposalRules.done

GrantProposal(d) ==
    Built("grant_proposal", GrantProposalState(d), GrantProposalRules,
          SourceBlocked(d, GrantProposalRules))

GrantEvidencePackets ==
    Packets("grant_evidence", {"grant_evidence_accepted", "grant_rejected", "insufficient",
               "more_evidence_requested", "conflicting", "expired",
               "waiting_for_grant_proposal", "blocked"})

GrantEvidenceRules ==
    [ready |-> "ready_for_grant_proposal_review",
     flags |-> Acts \cup Sends \cup {"grantsApproval", "approvalGrantPermitted",
                  "executesApprovalGrant", "approvalGrantExecutionPermitted"},
     done |-> "grant_evidence_accepted"]

GrantEvidenceState(p, records) ==
    IF p.state # "ready_for_grant_proposal_review" THEN "waiting_for_grant_proposal"
    ELSE IF SourceBlocked(p, GrantEvidenceRules) THEN "blocked"
    ELSE Verdict({ClassifyGrant(d) : d \in records}, "grant_rejected", "grant_evidence_accepted")

GrantEvidence(p, records) ==
    Built("grant_evidence", GrantEvidenceState(p, records), GrantEvidenceRules,
          SourceBlocked(p, GrantEvidenceRules))

FinalReviewPackets ==
    Packets("final_review", {"ready_for_execution_gate_final_review", "grant_rejected",
               "waiting_for_grant_evidence", "more_evidence_requested", "stale",
               "conflicting", "blocked"})

FinalReviewRules ==
    [ready |-> "grant_evidence_accepted",
     flags |-> Acts \cup Sends \cup Runs \cup {"startsSidecar", "sidecarStartPermitted",
                  "approvalGrantExecutionPermitted"},
     done |-> "ready_for_execution_gate_final_review"]

FinalReviewState(g) ==
    IF g.state = "expired" THEN "stale"
    ELSE IF g.state \in {"conflicting", "grant_rejected", "more_evidence_requested"}
    THEN g.state
    ELSE IF g.state # "grant_evidence_accepted" THEN "waiting_for_grant_evidence"
    ELSE IF SourceBlocked(g, FinalReviewRules) THEN "blocked" ELSE FinalReviewRules.done

ExecutionGateFinalReview(g) ==
    Built("final_review", FinalReviewState(g), FinalReviewRules,
          SourceBlocked(g, FinalReviewRules))

DispatchDraftPackets ==
    Packets("dispatch_draft", {"dispatch_request_draft_ready", "final_review_blocked",
               "waiting_for_execution_gate_final_review", "stale", "conflicting", "blocked"})

DispatchDraftRules ==
    [ready |-> "ready_for_execution_gate_final_review",
     flags |-> Acts \cup Sends \cup Runs \cup {"startsSidecar", "sidecarStartPermitted",
                  "dbMutationPermitted", "defaultOnPermitted"},
     done |-> "dispatch_request_draft_ready"]

DispatchDraftState(f) ==
    IF f.state \in {"stale", "conflicting"} THEN f.state
    ELSE IF f.state = "blocked" THEN "final_review_blocked"
    ELSE IF f.state # "ready_for_execution_gate_final_review"
    THEN "waiting_for_execution_gate_final_review"
    ELSE IF SourceBlocked(f, DispatchDraftRules) THEN "blocked" ELSE DispatchDraftRules.done

DispatchRequestDraft(f) ==
    Built("dispatch_draft", DispatchDraftState(f), DispatchDraftRules,
          SourceBlocked(f, DispatchDraftRules))

SealPackets ==
    Packets("seal", {"dispatcher_preflight_seal_ready", "waiting_for_dispatch_request_draft",
               "runtime_evidence_missing", "runtime_evidence_stale", "integrity_failed",
               "blocked"})

SealRules ==
    [ready |-> "dispatch_request_draft_ready",
     flags |-> (DispatchDraftRules.flags \ {"defaultOnPermitted"})
                  \cup {"secretValuesIncluded", "writesRuntimeState"},
     done |-> "dispatcher_preflight_seal_ready"]

\* buildRuntimeRows, the worst of the rows.
RuntimeEvidence == {"missing", "stale", "bad", "ready"}

\* intact: the envelope hash supplied, if any, is the one computed.
SealState(d, runtime, intact) ==
    IF d.state # "dispatch_request_draft_ready" THEN "waiting_for_dispatch_request_draft"
    ELSE IF ~intact THEN "integrity_failed"
    ELSE IF runtime = "missing" THEN "runtime_evidence_missing"
    ELSE IF runtime = "stale" THEN "runtime_evidence_stale"
    ELSE IF SourceBlocked(d, SealRules) \/ runtime = "bad" THEN "blocked" ELSE SealRules.done

PreflightSeal(d, runtime, intact) ==
    Built("seal", SealState(d, runtime, intact), SealRules,
          SourceBlocked(d, SealRules) \/ runtime # "ready" \/ ~intact)

-----------------------------------------------------------------------------
(* The stages as actions: each reads the packet of the stage before.       *)

Critical == Acts \cup Sends
\* The dry-run gate's packet has none of the permission fields of the later ones.
FlagsOf(p) == IF p.at = "dry_run_gate" THEN ActivationApprovalRules.flags ELSE Flags

\* The ready state of each stage.
DoneState == [dry_run_gate |-> "ready_for_operator_approval",
    activation_approval |-> "approval_request_draft_ready",
    activation_receipt |-> "accepted", start_receipt |-> "accepted",
    start_gate |-> "ready_for_start_executor_review",
    invocation_rehearsal |-> "ready_for_executor_invocation_rehearsal",
    canary_plan |-> "ready_for_dry_run_start_approval_request",
    preflight_collector |-> "ready_for_supervised_dry_run_preflight_review",
    chain_review |-> "ready_for_supervised_dry_run_chain_review",
    start_request |-> "approval_request_draft_ready",
    runtime_preflight |-> "approval_packet_ready",
    adapter_handoff |-> "handoff_packet_ready", review_table |-> "review_table_ready",
    review_decision |-> "approved_evidence",
    grant_proposal |-> "ready_for_grant_proposal_review",
    grant_evidence |-> "grant_evidence_accepted",
    final_review |-> "ready_for_execution_gate_final_review",
    dispatch_draft |-> "dispatch_request_draft_ready",
    seal |-> "dispatcher_preflight_seal_ready"]

\* The ghost: the packet handed on permits something, or says it is ready
\* when its readiness fields and blockers do not.
Forged(p) ==
    \/ p.unsafe \cap Critical # {}
    \/ p.state = DoneState[p.at] /\ "met" \notin p.facts

\* Once a forged packet was handed on, nothing else of the lineage matters.
Next1(at, built, shown) ==
    /\ packet.at = at
    /\ packet' = built
    /\ past' = IF Forged(packet) \/ "forged" \in past THEN {"forged"} ELSE past \cup shown
    /\ UNCHANGED <<rehearsal, dispatch>>

BuildDryRunGate(rows, stale) ==
    /\ packet.at = "status" /\ rehearsal # NoPacket
    /\ packet' = DryRunGate(rehearsal, packet, rows, stale)
    /\ past' = IF Proven /\ "over" \in rehearsal.facts THEN {"proven"} ELSE {}
    /\ rehearsal' = NoPacket
    /\ UNCHANGED dispatch

RequestActivation == Next1("dry_run_gate", ActivationApproval(packet), {})

\* What the records supplied show, an operator's reading again.
StartShowed(records) ==
    (IF {"seen", "granted"} \subseteq Showed(records, TRUE) THEN {"start_approved"} ELSE {})
    \cup (IF Showed(records, TRUE) \cap {"refused", "other_grant"} # {}
          THEN {"contrary"} ELSE {})

IngestActivationReceipt(records) ==
    Next1("activation_approval", ActivationReceipt(packet, records), StartShowed(records))
IngestStartReceipt(records) ==
    Next1("start_request", StartReceipt(packet, records), StartShowed(records))

BuildStartGate == \/ Next1("activation_receipt", StartExecutorGate(packet), {})
                  \/ Next1("start_receipt", StartExecutorGate(packet), {})
RehearseInvocation == Next1("start_gate", InvocationRehearsal(packet), {})
PlanCanary == Next1("invocation_rehearsal", CanaryPlan(packet), {})
CollectPreflight(faults) == Next1("canary_plan", PreflightCollector(packet, faults), {})
ReviewChain == Next1("preflight_collector", ChainReview(packet), {})
RequestStart == Next1("chain_review", StartApprovalRequest(packet), {})
ApproveRuntimePreflight ==
    Next1("invocation_rehearsal", RuntimePreflightApproval(packet), {})
HandToAdapter == Next1("runtime_preflight", AdapterHandoff(packet), {})
TabulateReview == Next1("adapter_handoff", OperatorReviewTable(packet), {})

\* Answers that fit and are not old: a yes an operator saw, a contrary one.
Answered(records, yes) ==
    (IF \E d \in records : d.type = "approve" /\ d.fits /\ d.visible /\ ~d.old
     THEN {yes} ELSE {})
    \cup (IF \E d \in records : d.type \in {"reject", "request_more_evidence"} /\ d.fits /\ ~d.old
          THEN {"contrary"} ELSE {})

IngestReviewDecision(records) ==
    Next1("review_table", ReviewDecision(packet, records),
          Answered(records, "review_approved"))
ProposeGrant == Next1("review_decision", GrantProposal(packet), {})
IngestGrantEvidence(records) ==
    Next1("grant_proposal", GrantEvidence(packet, records),
          Answered(records, "grant_approved"))
ReviewExecutionGate == Next1("grant_evidence", ExecutionGateFinalReview(packet), {})
DraftDispatch == Next1("final_review", DispatchRequestDraft(packet), {})
Seal(runtime, intact) == Next1("dispatch_draft", PreflightSeal(packet, runtime, intact), {})

\* Between two stages a packet is a file: one of its flags may be set...
Edit(f) ==
    /\ packet.at \in DOMAIN DoneState \ {"seal"}
    /\ packet.unsafe = {}
    /\ packet' = [packet EXCEPT !.unsafe = {f}]
    /\ UNCHANGED <<rehearsal, dispatch, past>>

\* ...or its state overwritten.
Relabel ==
    /\ packet.at \in DOMAIN DoneState \ {"seal"}
    /\ packet' = [packet EXCEPT !.state = DoneState[packet.at]]
    /\ packet' # packet
    /\ UNCHANGED <<rehearsal, dispatch, past>>

DecisionSets == UpTo(MaxEvidence, Decisions)

Init == CloseoutInit

Next ==
    \/ CloseoutNext
    \/ \E rows \in SUBSET OperatingRows, stale \in BOOLEAN : BuildDryRunGate(rows, stale)
    \/ \E records \in EvidenceSets :
          IngestActivationReceipt(records) \/ IngestStartReceipt(records)
    \/ \E faults \in SUBSET PreflightFaults : CollectPreflight(faults)
    \/ \E records \in DecisionSets :
          IngestReviewDecision(records) \/ IngestGrantEvidence(records)
    \/ \E runtime \in RuntimeEvidence, intact \in BOOLEAN :
          Seal(runtime, intact)
    \/ RequestActivation \/ BuildStartGate \/ RehearseInvocation \/ PlanCanary
    \/ ReviewChain \/ RequestStart \/ ApproveRuntimePreflight \/ HandToAdapter
    \/ TabulateReview \/ ProposeGrant \/ ReviewExecutionGate \/ DraftDispatch
    \/ Relabel \/ \E f \in FlagsOf(packet) : Edit(f)

Spec == Init /\ [][Next]_closeoutVars

Chain == {"over", "seen", "granted", "refused", "other_grant", "proven", "forged",
          "contrary", "start_approved", "review_approved", "grant_approved"}

\* Every stage reports one of the states its packet type declares; the
\* union types of the stages overlap, and a state handed on must be in both.
TypeOK ==
    /\ past \subseteq Chain
    /\ CloseoutTypeOK
    /\ packet.at \in DOMAIN DoneState =>
        \/ packet \in DryRunGatePackets \/ packet \in ActivationApprovalPackets
        \/ packet \in ActivationReceiptPackets \/ packet \in StartReceiptPackets
        \/ packet \in StartGatePackets \/ packet \in InvocationPackets
        \/ packet \in CanaryPlanPackets \/ packet \in CollectorPackets
        \/ packet \in ChainReviewPackets \/ packet \in StartRequestPackets
        \/ packet \in RuntimePreflightPackets \/ packet \in HandoffApprovalPackets
        \/ packet \in ReviewTablePackets \/ packet \in ReviewDecisionPackets
        \/ packet \in GrantProposalPackets \/ packet \in GrantEvidencePackets
        \/ packet \in FinalReviewPackets \/ packet \in DispatchDraftPackets
        \/ packet \in SealPackets

\* A packet edited to permit an execution, a send or an acknowledgement, or
\* relabelled as ready, never has a ready descendant: whichever of the
\* nineteen stages reads it refuses it, and nothing later revives it.
ForgedNeverReady == "forged" \in past => "met" \notin packet.facts

\* A sealed envelope stands for the whole chain behind it: a round that is
\* over and proven to the finalizer, a start approval that was seen and
\* granted, a review and a grant an operator approved visibly, and no
\* contrary answer at any of them.
SealIsApproved ==
    packet.at = "seal" /\ "met" \in packet.facts =>
        /\ {"proven", "start_approved", "review_approved", "grant_approved"} \subseteq past
        /\ "contrary" \notin past

\* Ready stands for real evidence at both ends of the chains: at the status the
\* finalizer reads and at the sealed envelope.
ReadyIsProven == TypeOK /\ FinalizerReadyIsProven /\ SealIsApproved
=============================================================================
