------------------------- MODULE SidecarGatesProofs -------------------------
(***************************************************************************)
(* Proofs about the closeout and sidecar chains (CloseoutGates,            *)
(* SidecarGates): what ready stands for, for any number of workers, events *)
(* and records.                                                            *)
(***************************************************************************)
EXTENDS SidecarGates, FiniteSetTheorems, TLAPS

-----------------------------------------------------------------------------
(* The rehearsal: a candidate is of a round that is over.                  *)

LEMMA UpToFinite ==
    ASSUME NEW n \in Nat, NEW S, NEW T \in UpTo(n, S)
    PROVE  IsFiniteSet(T) /\ T \subseteq S
  <1>1. CASE T = {}
    BY <1>1, FS_EmptySet
  <1>2. ASSUME NEW f \in [1..n -> S], T = {f[i] : i \in 1..n}
        PROVE  IsFiniteSet(T) /\ T \subseteq S
    <2>1. IsFiniteSet(1..n)
      BY FS_Interval
    <2>2. f \in Surjection(1..n, T)
      BY <1>2 DEF Surjection
    <2> QED BY <1>2, <2>1, <2>2, FS_Surjection
  <1> QED BY <1>1, <1>2 DEF UpTo

(* buildLane: a lane is ready when all its worker's events agree on a      *)
(* success with evidence.                                                  *)
LEMMA ReadyLane ==
    ASSUME NEW events, IsFiniteSet(events), NEW w, Lane(w, events) = "ready"
    PROVE  /\ \E e \in events : e.worker = w
           /\ \A e \in events : e.worker = w => e.status = "succeeded" /\ e.url
  <1> DEFINE mine == {e \in events : e.worker = w}
             x == CHOOSE e \in mine : TRUE
  <1>1. IsFiniteSet(mine) /\ Cardinality(mine) \in Nat
    BY FS_Subset, FS_CardinalityType
  <1>2. /\ mine # {} /\ ~(Cardinality(mine) > 1)
        /\ x.status = "succeeded" /\ x.url
    BY DEF Lane
  <1>3. x \in mine
    BY <1>2
  <1>4. Cardinality(mine) = 1
    BY <1>1, <1>2, FS_EmptySet
  <1>5. \A e \in mine : e = x
    <2>1. \E y : mine = {y}
      BY <1>1, <1>4, FS_Singleton
    <2> QED BY <1>3, <2>1
  <1> HIDE DEF x
  <1> QED BY <1>2, <1>3, <1>5

LEMMA CandidateIsOver ==
    ASSUME NEW i \in Inputs, FinalCountCandidate(i.events, i.expected, i.total, i.signals) = "candidate"
    PROVE  RoundOver(i.events, i.expected, i.signals)
  <1> DEFINE done == {e \in i.events : e.round = "this"}
             lanes == i.expected \cup {e.worker : e \in done}
             final == {s \in i.signals : s.p = s.t}
  <1>1. /\ IsFiniteSet(i.events) /\ i.signals \subseteq Signals
    BY UpToFinite, GateBounds DEF Inputs, EventSets, SignalSets
  <1>2. IsFiniteSet(done)
    BY <1>1, FS_Subset
  <1>3. /\ i.signals # {} /\ \A s \in Triggers(i.signals) : s.p = s.t
        /\ CompletionPacket(i.events, i.expected, i.total) = "ready_for_finalizer"
    BY DEF FinalCountCandidate
  <1>4. lanes = {w \in lanes : Lane(w, done) = "ready"}
    BY <1>3 DEF CompletionPacket
  <1>5. \A w \in lanes : Lane(w, done) = "ready"
    BY <1>4
  <1> HIDE DEF done
  <1>6. \A w \in i.expected : \E e \in done : e.worker = w
    BY <1>2, <1>5, ReadyLane
  <1>7. \A e \in done : e.status = "succeeded" /\ e.url
    BY <1>2, <1>5, ReadyLane
  <1>8. final # {}
    <2> SUFFICES ASSUME final = {} PROVE FALSE
      OBVIOUS
    <2>1. Triggers(i.signals) = {s \in i.signals : \A u \in i.signals : u.p <= s.p}
      BY DEF Triggers
    <2>2. \A s \in i.signals : s.p \in {1, 2}
      BY <1>1 DEF Signals
    <2>3. \E s \in i.signals : \A u \in i.signals : u.p <= s.p
      <3>1. CASE \E s \in i.signals : s.p = 2
        BY <2>2, <3>1
      <3>2. CASE \A s \in i.signals : s.p = 1
        BY <1>3, <3>2
      <3> QED BY <2>2, <3>1, <3>2
    <2> QED BY <1>3, <2>1, <2>3
  <1> QED BY <1>6, <1>7, <1>8 DEF RoundOver, done

RehearsalOK(r) == r \in RehearsalPackets /\ (r.state = "candidate" => "over" \in r.facts)

LEMMA ObservationOK ==
    ASSUME NEW r \in Observations
    PROVE  RehearsalOK(r)
  <1>1. PICK i \in Inputs : r = Observed(i)
    BY DEF Observations
  <1> DEFINE candidate == FinalCountCandidate(i.events, i.expected, i.total, i.signals)
             blocked == candidate # "candidate" \/ i.spool \ {"dryRunOnly"} # {}
             facts == IF i.spool \subseteq {"dryRunOnly"} THEN {"dryRunOnly"} ELSE {}
             over == IF RoundOver(i.events, i.expected, i.signals) THEN {"over"} ELSE {}
             unsafe == i.spool \cap {"providerSend", "terminalAck"}
             state == IF blocked THEN "blocked" ELSE candidate
  <1>2. r = [at |-> "rehearsal", state |-> state, blocked |-> blocked, facts |-> facts \cup over,
             unsafe |-> unsafe]
    <2> DEFINE p == [at |-> "rehearsal", state |-> state, blocked |-> blocked, facts |-> facts,
                     unsafe |-> {}]
    <2>1. Rehearsal(i.events, i.expected, i.total, i.signals, i.spool) =
             [p EXCEPT !.unsafe = unsafe]
      BY Zenon DEF Rehearsal, Packet
    <2>2. r = [[p EXCEPT !.unsafe = unsafe] EXCEPT !.facts = @ \cup over]
      BY <1>1, <2>1, Zenon DEF Observed
    <2> HIDE DEF facts, unsafe, state, blocked, over
    <2> QED BY <2>2
  <1>3. state \in {"candidate", "blocked", "waiting"} /\ (state = "candidate" => candidate = "candidate")
    BY DEF FinalCountCandidate
  <1>4. candidate = "candidate" => over = {"over"}
    BY CandidateIsOver
  <1>5. blocked \in BOOLEAN
    OBVIOUS
  <1>6. unsafe \in SUBSET SpoolMarks /\ facts \cup over \in SUBSET {"dryRunOnly", "over"}
    BY DEF SpoolMarks
  <1> HIDE DEF candidate, blocked, facts, over, unsafe, state
  <1>7. r \in RehearsalPackets
    BY <1>2, <1>3, <1>5, <1>6 DEF RehearsalPackets
  <1> QED BY <1>2, <1>3, <1>4, <1>7 DEF RehearsalOK

-----------------------------------------------------------------------------
(* The closeout chain.                                                     *)

CloseoutStages == {"handoff", "workflow", "closeout_gate", "approval_request", "executor",
                   "dispatch", "receipt", "status"}
SidecarStages == {"dry_run_gate", "activation_approval", "activation_receipt", "start_receipt",
                  "start_gate", "invocation_rehearsal", "canary_plan", "preflight_collector",
                  "chain_review", "start_request", "runtime_preflight", "adapter_handoff",
                  "review_table", "review_decision", "grant_proposal", "grant_evidence",
                  "final_review", "dispatch_draft", "seal"}

CloseoutDeclared(p) ==
    /\ p.at = "handoff" => p \in HandoffPackets
    /\ p.at = "workflow" => p \in WorkflowPackets
    /\ p.at = "closeout_gate" => p \in CloseoutGatePackets
    /\ p.at = "approval_request" => p \in RequestPackets
    /\ p.at = "executor" => p \in ExecutorPackets
    /\ p.at = "dispatch" => p \in DispatchPackets
    /\ p.at = "receipt" => p \in ReceiptPackets
    /\ p.at = "status" => p \in StatusPackets

\* What a packet of the closeout chain stands for, given what was really shown.
OverMeant(p, shown) ==
    /\ p.at \in {"handoff", "workflow"} /\ p.state = "ready" => "over" \in shown
    /\ p.at = "closeout_gate" /\ p.state = "ready_for_approval" => "over" \in shown
    /\ p.at = "approval_request" /\ p.state = "request_ready" => "over" \in shown
    /\ p.at = "executor" /\ ~p.blocked => "over" \in shown
    /\ p.at \in CloseoutStages \ {"receipt", "status"} => shown \subseteq {"over"}

ReceiptMeant(p, shown) ==
    p.at = "receipt" =>
        /\ p.state = "accepted" => shown \cap {"refused", "other_grant"} = {}
        /\ p.facts \cap Visible # {} => "seen" \in shown
        /\ "approval_grant" \in p.facts => "granted" \in shown

CloseoutInv ==
    /\ packet = NoPacket \/ packet.at \in CloseoutStages \cup SidecarStages
    /\ rehearsal = NoPacket \/ RehearsalOK(rehearsal)
    /\ dispatch = NoPacket \/ dispatch \in DispatchPackets
    /\ CloseoutDeclared(packet)
    /\ packet.at \notin SidecarStages =>
         past \subseteq {"over", "seen", "granted", "refused", "other_grant"}
    /\ OverMeant(packet, past)
    /\ packet.at \in {"dispatch", "receipt"} =>
         dispatch \in DispatchPackets /\ (dispatch.state # "dispatch_blocked" => "over" \in past)
    /\ packet.at = "dispatch" => packet = dispatch
    /\ ReceiptMeant(packet, past)
    /\ FinalizerReadyIsProven

LEMMA CloseoutInitially == CloseoutInit => CloseoutInv
  BY DEF CloseoutInit, CloseoutInv, NoPacket, Packet, None, CloseoutDeclared, OverMeant,
         ReceiptMeant, FinalizerReadyIsProven, CloseoutStages, SidecarStages

LEMMA CloseoutPacketFields ==
    ASSUME NEW at, NEW states, NEW fs, NEW state \in states, NEW blocked \in BOOLEAN,
           NEW facts \in SUBSET fs
    PROVE  LET p == Packet(at, state, blocked, facts)
           IN /\ p \in CloseoutPackets(at, states, fs)
              /\ p.at = at /\ p.state = state /\ p.blocked = blocked /\ p.facts = facts
              /\ p # NoPacket \/ at = None
  BY DEF Packet, CloseoutPackets, NoPacket

(* A stage before the receipts: the packet it builds is declared and means *)
(* what the one before it meant; the rest of the state is as it was.       *)
LEMMA EarlyStage ==
    ASSUME CloseoutInv, UNCHANGED <<rehearsal, dispatch, past>>,
           packet.at \in {"handoff", "workflow", "closeout_gate", "approval_request"},
           packet'.at \in {"workflow", "closeout_gate", "approval_request", "executor"},
           CloseoutDeclared(packet'), OverMeant(packet', past)
    PROVE  CloseoutInv'
  BY DEF CloseoutInv, OverMeant, ReceiptMeant, FinalizerReadyIsProven, CloseoutStages,
         SidecarStages

LEMMA ObserveKeeps ==
    ASSUME CloseoutInv, NEW r \in Observations, Observe(r)
    PROVE  CloseoutInv'
  <1>1. RehearsalOK(r)
    BY ObservationOK
  <1> HIDE DEF Observations
  <1> QED BY <1>1 DEF CloseoutInv, Observe, FinalizerReadyIsProven, Proven

LEMMA HandOffKeeps ==
    ASSUME CloseoutInv, HandOff
    PROVE  CloseoutInv'
  <1> DEFINE p == FinalizerHandoff(rehearsal)
  <1>1. rehearsal \in RehearsalPackets /\ (rehearsal.state = "candidate" => "over" \in rehearsal.facts)
    BY DEF CloseoutInv, HandOff, RehearsalOK
  <1>2. HandoffDecision(rehearsal) \in {"ready", "blocked", "waiting"} /\ rehearsal.blocked \in BOOLEAN
    BY <1>1 DEF HandoffDecision, RehearsalPackets
  <1>3. p \in HandoffPackets /\ p.at = "handoff" /\ p.state = HandoffDecision(rehearsal)
    BY <1>2, CloseoutPacketFields DEF FinalizerHandoff, HandoffPackets
  <1>4. p.state = "ready" => "over" \in rehearsal.facts
    BY <1>1, <1>3 DEF HandoffDecision, RehearsalPackets
  <1> HIDE DEF p
  <1>5. packet' = p /\ past' = rehearsal.facts \cap {"over"} /\ UNCHANGED <<rehearsal, dispatch>>
    BY DEF HandOff, p
  <1>6. CloseoutDeclared(packet')
    BY <1>3, <1>5 DEF CloseoutDeclared
  <1>7. OverMeant(packet', past')
    BY <1>3, <1>4, <1>5 DEF OverMeant
  <1> QED BY <1>3, <1>5, <1>6, <1>7
          DEF CloseoutInv, ReceiptMeant, FinalizerReadyIsProven, CloseoutStages, SidecarStages

LEMMA WorkflowKeeps ==
    ASSUME CloseoutInv, BuildWorkflow
    PROVE  CloseoutInv'
  <1> DEFINE p == FinalizerWorkflow(packet)
  <1>1. packet.at = "handoff" /\ packet' = p /\ UNCHANGED <<rehearsal, dispatch, past>>
    BY DEF BuildWorkflow
  <1>2. packet.state \in {"ready", "blocked", "waiting"} /\ packet.blocked \in BOOLEAN
    BY <1>1 DEF CloseoutInv, CloseoutDeclared, HandoffPackets, CloseoutPackets
  <1>3. p \in WorkflowPackets /\ p.at = "workflow" /\ p.state = packet.state
    BY <1>2, CloseoutPacketFields DEF FinalizerWorkflow, WorkflowPackets
  <1> HIDE DEF p
  <1>4. CloseoutDeclared(packet')
    BY <1>1, <1>3 DEF CloseoutDeclared
  <1>5. OverMeant(packet', past)
    BY <1>1, <1>3 DEF CloseoutInv, OverMeant, CloseoutStages
  <1> QED BY <1>1, <1>3, <1>4, <1>5, EarlyStage

LEMMA CloseoutGateKeeps ==
    ASSUME CloseoutInv, NEW issue \in BOOLEAN, NEW pr \in BOOLEAN, BuildCloseoutGate(issue, pr)
    PROVE  CloseoutInv'
  <1> DEFINE p == CloseoutGate(packet, issue, pr)
  <1>1. packet.at = "workflow" /\ packet' = p /\ UNCHANGED <<rehearsal, dispatch, past>>
    BY DEF BuildCloseoutGate
  <1>2. packet.state \in {"ready", "blocked", "waiting"} /\ packet.blocked \in BOOLEAN
    BY <1>1 DEF CloseoutInv, CloseoutDeclared, WorkflowPackets, CloseoutPackets
  <1>3. ProposedActions(issue, pr) \subseteq Actions
    BY DEF ProposedActions, Actions
  <1>4. GateDecision(packet) \in {"ready_for_approval", "blocked", "waiting"}
    BY <1>2 DEF GateDecision
  <1>5. p \in CloseoutGatePackets /\ p.at = "closeout_gate" /\ p.state = GateDecision(packet)
    BY <1>2, <1>3, <1>4, CloseoutPacketFields DEF CloseoutGate, CloseoutGatePackets
  <1> HIDE DEF p
  <1>6. CloseoutDeclared(packet')
    BY <1>1, <1>5 DEF CloseoutDeclared
  <1>7. OverMeant(packet', past)
    BY <1>1, <1>2, <1>5 DEF CloseoutInv, OverMeant, CloseoutStages, GateDecision
  <1> QED BY <1>1, <1>5, <1>6, <1>7, EarlyStage

LEMMA RequestKeeps ==
    ASSUME CloseoutInv, RequestApproval
    PROVE  CloseoutInv'
  <1> DEFINE p == ApprovalRequest(packet)
  <1>1. packet.at = "closeout_gate" /\ packet' = p /\ UNCHANGED <<rehearsal, dispatch, past>>
    BY DEF RequestApproval
  <1>2. packet.facts \in SUBSET Actions
    BY <1>1 DEF CloseoutInv, CloseoutDeclared, CloseoutGatePackets, CloseoutPackets
  <1>3. /\ RequestDecision(packet) \in {"request_ready", "blocked", "waiting"}
        /\ RequestDecision(packet) = "request_ready" => packet.state = "ready_for_approval"
    BY DEF RequestDecision
  <1>4. p \in RequestPackets /\ p.at = "approval_request" /\ p.state = RequestDecision(packet)
    <2> DEFINE b == RequestDecision(packet) # "request_ready"
    <2>1. b \in BOOLEAN
      OBVIOUS
    <2>2. p = Packet("approval_request", RequestDecision(packet), b, packet.facts)
      BY Zenon DEF ApprovalRequest
    <2>3. PICK d : d = RequestDecision(packet)
      OBVIOUS
    <2> HIDE DEF p, b
    <2>4. /\ d \in {"request_ready", "blocked", "waiting"}
          /\ p = Packet("approval_request", d, b, packet.facts)
      BY <1>3, <2>2, <2>3
    <2> QED BY ONLY <1>2, <2>1, <2>3, <2>4, CloseoutPacketFields DEF RequestPackets
  <1> HIDE DEF p
  <1>5. CloseoutDeclared(packet')
    BY <1>1, <1>4 DEF CloseoutDeclared
  <1>6. OverMeant(packet', past)
    BY <1>1, <1>3, <1>4 DEF CloseoutInv, OverMeant, CloseoutStages
  <1> QED BY <1>1, <1>4, <1>5, <1>6, EarlyStage

LEMMA ExecutorKeeps ==
    ASSUME CloseoutInv, NEW selected \in Actions \cup {None}, NEW target \in BOOLEAN,
           NEW attempt \in BOOLEAN, RunExecutor(selected, target, attempt)
    PROVE  CloseoutInv'
  <1> DEFINE p == ApprovalExecutor(packet, selected, target, attempt)
             b == ExecutorBlocked(packet, selected, target)
             st == IF b THEN "blocked"
                   ELSE IF selected = None THEN "dispatch_pending"
                   ELSE IF attempt THEN "execute_blocked" ELSE "approval_granted_dry_run"
             fs == IF FoundAction(packet, selected, target) THEN {selected} ELSE {}
  <1>1. packet.at = "approval_request" /\ packet' = p /\ UNCHANGED <<rehearsal, dispatch, past>>
    BY DEF RunExecutor
  <1>2. packet.facts \in SUBSET Actions /\ packet.blocked \in BOOLEAN
    BY <1>1 DEF CloseoutInv, CloseoutDeclared, RequestPackets, CloseoutPackets
  <1>3. /\ b \in BOOLEAN /\ (~b => packet.state = "request_ready")
        /\ st \in {"dispatch_pending", "approval_granted_dry_run", "execute_blocked", "blocked"}
        /\ fs \in SUBSET Actions
    BY <1>2 DEF ExecutorBlocked, FoundAction
  <1>4. p = Packet("executor", st, b, fs)
    BY Zenon DEF ApprovalExecutor
  <1> HIDE DEF p, st, b, fs
  <1>5. p \in ExecutorPackets /\ p.at = "executor" /\ p.blocked = b
    BY <1>3, <1>4, CloseoutPacketFields DEF ExecutorPackets
  <1>6. CloseoutDeclared(packet')
    BY <1>1, <1>5 DEF CloseoutDeclared
  <1>7. OverMeant(packet', past)
    BY <1>1, <1>3, <1>5 DEF CloseoutInv, OverMeant, CloseoutStages
  <1> QED BY <1>1, <1>5, <1>6, <1>7, EarlyStage

LEMMA DispatchKeeps ==
    ASSUME CloseoutInv, NEW supported \in BOOLEAN, Dispatch(supported)
    PROVE  CloseoutInv'
  <1> DEFINE p == DispatchAdapter(packet, supported)
             b == AdapterBlocked(packet, supported)
             st == IF b THEN "dispatch_blocked"
                   ELSE IF packet.state = "approval_granted_dry_run"
                   THEN "approval_receipt_draft_ready" ELSE "dispatch_draft_ready"
  <1>1. packet.at = "executor" /\ packet' = p /\ dispatch' = p /\ UNCHANGED <<rehearsal, past>>
    BY DEF Dispatch
  <1>2. packet.facts \in SUBSET Actions /\ packet.blocked \in BOOLEAN
    BY <1>1 DEF CloseoutInv, CloseoutDeclared, ExecutorPackets, CloseoutPackets
  <1>3. /\ b \in BOOLEAN /\ (~b => ~packet.blocked) /\ (st # "dispatch_blocked" => ~b)
        /\ st \in {"dispatch_draft_ready", "approval_receipt_draft_ready", "dispatch_blocked"}
    BY <1>2 DEF AdapterBlocked
  <1>4. p = Packet("dispatch", st, b, packet.facts)
    BY Zenon DEF DispatchAdapter
  <1> HIDE DEF p, st, b
  <1>5. p \in DispatchPackets /\ p.at = "dispatch" /\ p.state = st
    BY <1>2, <1>3, <1>4, CloseoutPacketFields DEF DispatchPackets
  <1>6. CloseoutDeclared(packet')
    BY <1>1, <1>5 DEF CloseoutDeclared
  <1>7. OverMeant(packet', past') /\ (dispatch'.state # "dispatch_blocked" => "over" \in past')
    BY <1>1, <1>3, <1>5 DEF CloseoutInv, OverMeant, CloseoutStages
  <1> QED BY <1>1, <1>5, <1>6, <1>7
          DEF CloseoutInv, ReceiptMeant, FinalizerReadyIsProven, CloseoutStages, SidecarStages

-----------------------------------------------------------------------------
(* What the receipts show an operator, and what the ingestors make of it.  *)

LEMMA EvidenceKind ==
    ASSUME NEW records \in EvidenceSets, NEW asked
    PROVE  /\ \A e \in records : e.kind \in EvidenceKinds
           /\ Kinds(records) \subseteq EvidenceKinds
           /\ Kinds(Fresh(records, asked)) \subseteq EvidenceKinds
  <1>1. records \subseteq Evidence
    BY UpToFinite, GateBounds DEF EvidenceSets
  <1>2. \A e \in records : e.kind \in EvidenceKinds
    BY <1>1 DEF Evidence
  <1> QED BY <1>2 DEF Kinds, Fresh

LEMMA ShownTypes ==
    ASSUME NEW records, NEW asked
    PROVE  Showed(records, asked) \subseteq {"seen", "granted", "refused", "other_grant"}
  BY DEF Showed

LEMMA FreshIsShown ==
    ASSUME NEW records, NEW asked \in BOOLEAN
    PROVE  LET kinds == Kinds(Fresh(records, asked))
           IN /\ kinds \cap Visible # {} => "seen" \in Showed(records, asked)
              /\ "approval_grant" \in kinds => "granted" \in Showed(records, asked)
              /\ "refused" \in Showed(records, asked) => "rejected" \in kinds
              /\ "other_grant" \in Showed(records, asked) =>
                    \E e \in records : Conflicts(e, asked)
  <1>1. \A e \in Fresh(records, asked) : e \in records /\ e.age # "old"
    BY DEF Fresh, Stale
  <1>2. ASSUME Kinds(Fresh(records, asked)) \cap Visible # {}
        PROVE  "seen" \in Showed(records, asked)
    <2>1. \E e \in Fresh(records, asked) : e.kind \in Visible
      BY <1>2 DEF Kinds
    <2> QED BY <1>1, <2>1 DEF Showed
  <1>3. ASSUME "approval_grant" \in Kinds(Fresh(records, asked))
        PROVE  "granted" \in Showed(records, asked)
    <2>1. \E e \in Fresh(records, asked) : e.kind = "approval_grant"
      BY <1>3 DEF Kinds
    <2> QED BY <1>1, <2>1 DEF Showed
  <1>4. ASSUME "refused" \in Showed(records, asked)
        PROVE  "rejected" \in Kinds(Fresh(records, asked))
    <2>1. PICK e \in records : e.kind = "rejected" /\ e.age # "old"
      BY <1>4 DEF Showed
    <2>2. e \in Fresh(records, asked)
      BY <2>1 DEF Fresh, Stale, Conflicts
    <2> QED BY <2>1, <2>2 DEF Kinds
  <1>5. ASSUME "other_grant" \in Showed(records, asked)
        PROVE  \E e \in records : Conflicts(e, asked)
    BY <1>5 DEF Showed, Conflicts
  <1> QED BY <1>2, <1>3, <1>4, <1>5

LEMMA ReceiptKeeps ==
    ASSUME CloseoutInv, NEW records \in EvidenceSets, IngestReceipts(records)
    PROVE  CloseoutInv'
  <1> DEFINE asked == packet.facts # {}
             p == ReceiptIngestor(packet, records)
             st == ReceiptState(packet, records)
             b == IngestorBlocked(packet, records)
             kinds == Kinds(Fresh(records, asked))
             shown == Showed(records, asked)
  <1>1. /\ packet.at = "dispatch" /\ packet' = p /\ past' = past \cup shown
        /\ UNCHANGED <<rehearsal, dispatch>>
    BY DEF IngestReceipts
  <1>2. packet \in DispatchPackets /\ packet.blocked \in BOOLEAN /\ dispatch = packet
    BY <1>1 DEF CloseoutInv, CloseoutDeclared, DispatchPackets, CloseoutPackets
  <1>3. asked \in BOOLEAN
    OBVIOUS
  <1>4. b \in BOOLEAN
    BY <1>2 DEF IngestorBlocked
  <1>5. kinds \in SUBSET EvidenceKinds
    BY EvidenceKind
  <1>6. /\ st \in {"accepted", "insufficient", "stale", "conflicting", "blocked"}
        /\ st = "accepted" => "rejected" \notin kinds /\ ~\E e \in records : Conflicts(e, asked)
    BY DEF ReceiptState
  <1>7. shown \subseteq {"seen", "granted", "refused", "other_grant"}
    BY ShownTypes
  <1>8. /\ kinds \cap Visible # {} => "seen" \in shown
        /\ "approval_grant" \in kinds => "granted" \in shown
        /\ "refused" \in shown => "rejected" \in kinds
        /\ "other_grant" \in shown => \E e \in records : Conflicts(e, asked)
    <2> HIDE DEF asked
    <2> QED BY <1>3, FreshIsShown
  <1>9. p = Packet("receipt", st, b, kinds)
    BY Zenon DEF ReceiptIngestor
  <1> HIDE DEF p, st, b, kinds, shown, asked
  <1>10. p \in ReceiptPackets /\ p.at = "receipt" /\ p.state = st /\ p.facts = kinds
    BY <1>4, <1>5, <1>6, <1>9, CloseoutPacketFields DEF ReceiptPackets
  <1>11. past \subseteq {"over"}
    BY <1>1 DEF CloseoutInv, OverMeant, CloseoutStages
  <1>12. ReceiptMeant(packet', past')
    BY <1>1, <1>6, <1>8, <1>10, <1>11 DEF ReceiptMeant
  <1>13. CloseoutDeclared(packet') /\ OverMeant(packet', past')
    BY <1>1, <1>10 DEF CloseoutDeclared, OverMeant
  <1>14. past' \subseteq {"over", "seen", "granted", "refused", "other_grant"}
    BY <1>1, <1>7, <1>11
  <1>15. dispatch \in DispatchPackets /\ (dispatch.state # "dispatch_blocked" => "over" \in past)
    BY <1>1 DEF CloseoutInv
  <1> QED BY <1>1, <1>10, <1>12, <1>13, <1>14, <1>15
          DEF CloseoutInv, FinalizerReadyIsProven, CloseoutStages, SidecarStages

LEMMA StatusKeeps ==
    ASSUME CloseoutInv, BuildStatus
    PROVE  CloseoutInv'
  <1>1. PICK r : r = IF packet.at = "receipt" THEN packet ELSE NoPacket
    OBVIOUS
  <1> DEFINE p == ApprovalStatus(dispatch, r)
             st == StatusFor(dispatch, r)
             b == StatusBlocked(dispatch, r)
             fs == IF SourceCriteriaMet(dispatch, r) THEN {"met"} ELSE {}
  <1>2. /\ packet.at \in {"dispatch", "receipt"} /\ packet' = p
        /\ dispatch' = NoPacket /\ UNCHANGED <<rehearsal, past>>
    BY <1>1 DEF BuildStatus
  <1>3. dispatch.blocked \in BOOLEAN /\ (dispatch.state # "dispatch_blocked" => "over" \in past)
    BY <1>2 DEF CloseoutInv, DispatchPackets, CloseoutPackets
  <1>4. b \in BOOLEAN /\ fs \in SUBSET {"met"}
    BY <1>3 DEF StatusBlocked
  <1>5. /\ st \in {"ready_for_finalizer_review", "waiting_for_receipt_evidence",
                   "waiting_for_visibility_evidence", "waiting_for_approval_evidence", "stale",
                   "conflicting", "blocked"}
        /\ st = "ready_for_finalizer_review" =>
              /\ dispatch.state # "dispatch_blocked" /\ ~b
              /\ r.facts \cap Visible # {} /\ "approval_grant" \in r.facts
    BY DEF StatusFor
  <1>6. ASSUME st = "ready_for_finalizer_review" PROVE Proven
    <2>1. r # NoPacket /\ r.state = "accepted"
      BY <1>5, <1>6 DEF StatusBlocked
    <2>2. packet.at = "receipt" /\ r = packet
      BY <1>1, <2>1
    <2> QED BY <1>3, <1>5, <1>6, <2>1, <2>2 DEF CloseoutInv, ReceiptMeant, Proven
  <1>7. p = Packet("status", st, b, fs)
    BY Zenon DEF ApprovalStatus
  <1> HIDE DEF p, st, b, fs
  <1>8. p \in StatusPackets /\ p.at = "status" /\ p.state = st
    <2> DEFINE all == {"ready_for_finalizer_review", "waiting_for_receipt_evidence",
                       "waiting_for_visibility_evidence", "waiting_for_approval_evidence",
                       "stale", "conflicting", "blocked"}
                 met == {"met"}
    <2>1. st \in all /\ fs \in SUBSET met
      BY <1>4, <1>5
    <2>2. StatusPackets = CloseoutPackets("status", all, met)
      BY Zenon DEF StatusPackets
    <2> HIDE DEF all, met
    <2> QED BY ONLY <1>4, <1>7, <2>1, <2>2 DEF Packet, CloseoutPackets
  <1>9. FinalizerReadyIsProven'
    <2>1. Proven => Proven'
      BY <1>2 DEF Proven
    <2> QED BY <1>2, <1>6, <1>8, <2>1 DEF FinalizerReadyIsProven
  <1>10. CloseoutDeclared(packet') /\ OverMeant(packet', past') /\ ReceiptMeant(packet', past')
    BY <1>2, <1>8 DEF CloseoutDeclared, OverMeant, ReceiptMeant
  <1>11. past \subseteq {"over", "seen", "granted", "refused", "other_grant"}
    BY <1>2 DEF CloseoutInv, SidecarStages
  <1> QED BY <1>2, <1>8, <1>9, <1>10, <1>11 DEF CloseoutInv, CloseoutStages, SidecarStages

-----------------------------------------------------------------------------
(* The sidecar chain.                                                      *)

PacketsOf ==
    [dry_run_gate |-> DryRunGatePackets, activation_approval |-> ActivationApprovalPackets,
     activation_receipt |-> ActivationReceiptPackets, start_receipt |-> StartReceiptPackets,
     start_gate |-> StartGatePackets, invocation_rehearsal |-> InvocationPackets,
     canary_plan |-> CanaryPlanPackets, preflight_collector |-> CollectorPackets,
     chain_review |-> ChainReviewPackets, start_request |-> StartRequestPackets,
     runtime_preflight |-> RuntimePreflightPackets, adapter_handoff |-> HandoffApprovalPackets,
     review_table |-> ReviewTablePackets, review_decision |-> ReviewDecisionPackets,
     grant_proposal |-> GrantProposalPackets, grant_evidence |-> GrantEvidencePackets,
     final_review |-> FinalReviewPackets, dispatch_draft |-> DispatchDraftPackets,
     seal |-> SealPackets]

\* What must have been shown before the packet of a stage may say it is ready.
Needed(at) ==
    {"proven"}
    \cup (IF at \in {"dry_run_gate", "activation_approval"} THEN {} ELSE {"start_approved"})
    \cup (IF at \in {"review_decision", "grant_proposal", "grant_evidence", "final_review",
                     "dispatch_draft", "seal"} THEN {"review_approved"} ELSE {})
    \cup (IF at \in {"grant_evidence", "final_review", "dispatch_draft", "seal"}
          THEN {"grant_approved"} ELSE {})

SidecarPast == {"proven", "forged", "contrary", "start_approved", "review_approved",
                "grant_approved"}

\* The packet of a stage is of its declared type, was met only on what it
\* needs, and never descends from a forged one.
SidecarInv ==
    packet.at \in SidecarStages =>
        /\ packet \in PacketsOf[packet.at]
        /\ packet.at = "dry_run_gate" => packet.unsafe \subseteq ActivationApprovalRules.flags
        /\ past \subseteq SidecarPast
        /\ "met" \in packet.facts =>
              /\ Needed(packet.at) \subseteq past
              /\ past \cap {"contrary", "forged"} = {}

\* What the packet a stage builds owes to the packet it was given.
StageOK(up, built, shown) ==
    /\ built.at \in SidecarStages /\ built \in PacketsOf[built.at] /\ built.unsafe = {}
    /\ shown \subseteq SidecarPast \ {"forged"}
    /\ "met" \in built.facts =>
          /\ "met" \in up.facts /\ up.unsafe \cap Critical = {}
          /\ "contrary" \notin shown
          /\ Needed(built.at) \subseteq Needed(up.at) \cup shown

LEMMA StageDomain == DOMAIN DoneState = SidecarStages
  BY DEF DoneState, SidecarStages

LEMMA StageKeeps ==
    ASSUME SidecarInv, NEW at \in SidecarStages, NEW built, NEW shown,
           Next1(at, built, shown), StageOK(packet, built, shown)
    PROVE  SidecarInv' /\ packet'.at \in SidecarStages /\ UNCHANGED <<rehearsal, dispatch>>
  <1>1. /\ packet.at = at /\ packet' = built /\ UNCHANGED <<rehearsal, dispatch>>
        /\ past' = IF Forged(packet) \/ "forged" \in past THEN {"forged"} ELSE past \cup shown
    BY DEF Next1
  <1>2. past' \subseteq SidecarPast
    BY <1>1 DEF SidecarInv, StageOK, SidecarPast
  <1>3. ASSUME "met" \in built.facts
        PROVE  Needed(built.at) \subseteq past' /\ past' \cap {"contrary", "forged"} = {}
    <2>1. "met" \in packet.facts /\ ~Forged(packet)
      BY <1>3 DEF StageOK, Forged
    <2>2. Needed(packet.at) \subseteq past /\ past \cap {"contrary", "forged"} = {}
      BY <1>1, <2>1 DEF SidecarInv
    <2>3. past' = past \cup shown
      BY <1>1, <2>1, <2>2
    <2> QED BY <1>3, <2>2, <2>3 DEF StageOK
  <1>4. built.unsafe = {} /\ built.at \in SidecarStages /\ built \in PacketsOf[built.at]
    BY DEF StageOK
  <1> QED BY <1>1, <1>2, <1>3, <1>4 DEF SidecarInv

LEMMA BuiltFields ==
    ASSUME NEW at, NEW states, NEW state \in states, NEW rules, NEW blocked \in BOOLEAN
    PROVE  LET p == Built(at, state, rules, blocked)
           IN /\ p \in Packets(at, states) /\ p.at = at /\ p.unsafe = {}
              /\ "met" \in p.facts => state = rules.done
  <1> DEFINE fs == IF state = rules.done THEN {"met"} ELSE {}
  <1>1. fs \in SUBSET {"met"} /\ ("met" \in fs => state = rules.done)
    OBVIOUS
  <1>2. Built(at, state, rules, blocked) =
          [at |-> at, state |-> state, blocked |-> blocked, facts |-> fs, unsafe |-> {}]
    BY Zenon DEF Built, Packet
  <1> HIDE DEF fs
  <1> QED BY <1>1, <1>2 DEF Packets

LEMMA CriticalRefused ==
    /\ Critical \subseteq ActivationReceiptRules.flags
    /\ Critical \subseteq StartReceiptFlags
    /\ Critical \subseteq StartGateRules.flags
    /\ Critical \subseteq InvocationRules.flags
    /\ Critical \subseteq CanaryPlanRules.flags
    /\ Critical \subseteq CollectorRules.flags
    /\ Critical \subseteq ChainReviewRules.flags
    /\ Critical \subseteq StartRequestRules.flags
    /\ Critical \subseteq RuntimePreflightRules.flags
    /\ Critical \subseteq HandoffRules.flags
    /\ Critical \subseteq ReviewTableRules.flags
    /\ Critical \subseteq ReviewDecisionRules.flags
    /\ Critical \subseteq GrantProposalRules.flags
    /\ Critical \subseteq GrantEvidenceRules.flags
    /\ Critical \subseteq FinalReviewRules.flags
    /\ Critical \subseteq DispatchDraftRules.flags
    /\ Critical \subseteq SealRules.flags
    /\ ActivationApprovalRules.flags \subseteq Flags
  <1>1. /\ Acts \subseteq NoLive /\ Sends \subseteq Permits
        /\ "defaultOnPermitted" \notin Acts \cup Sends
    BY DEF Acts, NoLive, Sends, Permits
  <1>2. /\ Critical \subseteq ActivationReceiptRules.flags
        /\ Critical \subseteq StartGateRules.flags /\ Critical \subseteq InvocationRules.flags
        /\ Critical \subseteq CanaryPlanRules.flags /\ Critical \subseteq CollectorRules.flags
    BY <1>1 DEF Critical, ActivationReceiptRules, StartGateRules, InvocationRules,
                CanaryPlanRules, CollectorRules
  <1>3. /\ Critical \subseteq StartReceiptFlags
        /\ Critical \subseteq ChainReviewRules.flags /\ Critical \subseteq StartRequestRules.flags
    BY <1>1 DEF Critical, StartReceiptFlags, Preflight, ChainReviewRules, StartRequestRules
  <1>4. Critical \subseteq RuntimePreflightRules.flags
    BY <1>1 DEF Critical, RuntimePreflightRules
  <1>5. Critical \subseteq HandoffRules.flags
    BY <1>4 DEF HandoffRules
  <1>6. Critical \subseteq ReviewTableRules.flags
    BY <1>5 DEF ReviewTableRules
  <1>7. /\ Critical \subseteq ReviewDecisionRules.flags
        /\ Critical \subseteq GrantProposalRules.flags
        /\ Critical \subseteq GrantEvidenceRules.flags
        /\ Critical \subseteq FinalReviewRules.flags
    BY DEF Critical, ReviewDecisionRules, GrantProposalRules, GrantEvidenceRules,
           FinalReviewRules
  <1>8. Critical \subseteq DispatchDraftRules.flags
    BY DEF Critical, DispatchDraftRules
  <1>9. Critical \subseteq SealRules.flags
    BY <1>1, <1>8 DEF Critical, SealRules
  <1>10. ActivationApprovalRules.flags \subseteq Flags
    BY DEF ActivationApprovalRules, Flags, Asks, Permits, Starts
  <1> QED BY <1>2, <1>3, <1>4, <1>5, <1>6, <1>7, <1>8, <1>9, <1>10

(* A stage that reports itself ready only where it found nothing to block. *)
LEMMA StageBuilt ==
    ASSUME NEW up, NEW at \in SidecarStages, NEW states, PacketsOf[at] = Packets(at, states),
           NEW state \in states, NEW rules, NEW blocked \in BOOLEAN,
           Critical \subseteq rules.flags,
           state = rules.done => ~SourceBlocked(up, rules),
           Needed(at) \subseteq Needed(up.at)
    PROVE  StageOK(up, Built(at, state, rules, blocked), {})
  <1>1. PICK p : p = Built(at, state, rules, blocked)
    OBVIOUS
  <1>2. /\ p \in Packets(at, states) /\ p.at = at /\ p.unsafe = {}
        /\ "met" \in p.facts => state = rules.done
    BY <1>1, BuiltFields
  <1>3. "met" \in p.facts => "met" \in up.facts /\ up.unsafe \cap Critical = {}
    BY <1>2 DEF SourceBlocked
  <1> QED BY <1>1, <1>2, <1>3 DEF StageOK

LEMMA StartGateStage ==
    ASSUME NEW up \in ActivationReceiptPackets \cup StartReceiptPackets
    PROVE  StageOK(up, StartExecutorGate(up), {})
  <1> DEFINE st == StateFor(up, StartGateRules)
             b == SourceBlocked(up, StartGateRules)
             states == Refusals \cup {"ready_for_start_executor_review",
                 "waiting_for_accepted_evidence", "blocked"}
  <1>1. /\ up.at \in {"activation_receipt", "start_receipt"} /\ up.blocked \in BOOLEAN
        /\ up.state \in Refusals \cup {"accepted", "insufficient", "blocked"}
    BY DEF ActivationReceiptPackets, StartReceiptPackets, Packets
  <1>2. st \in states /\ (st = StartGateRules.done => ~SourceBlocked(up, StartGateRules))
    BY <1>1 DEF StateFor, StartGateRules, Refusals
  <1>3. b \in BOOLEAN
    BY <1>1 DEF SourceBlocked
  <1>4. PacketsOf["start_gate"] = Packets("start_gate", states)
    BY Zenon DEF PacketsOf, StartGatePackets
  <1>5. StartExecutorGate(up) = Built("start_gate", st, StartGateRules, b)
    BY Zenon DEF StartExecutorGate, Gate
  <1>6. Needed("start_gate") \subseteq Needed(up.at)
    BY <1>1 DEF Needed
  <1> HIDE DEF st, b, states
  <1> QED BY <1>1, <1>2, <1>3, <1>4, <1>5, <1>6, StageBuilt, CriticalRefused DEF SidecarStages

LEMMA InvocationStage ==
    ASSUME NEW up \in StartGatePackets
    PROVE  StageOK(up, InvocationRehearsal(up), {})
  <1> DEFINE st == StateFor(up, InvocationRules)
             b == SourceBlocked(up, InvocationRules)
             states == Refusals \cup {"ready_for_executor_invocation_rehearsal",
                 "waiting_for_start_executor_review", "blocked"}
  <1>1. /\ up.at = "start_gate" /\ up.blocked \in BOOLEAN
        /\ up.state \in Refusals \cup {"ready_for_start_executor_review",
                            "waiting_for_accepted_evidence", "blocked"}
    BY DEF StartGatePackets, Packets
  <1>2. st \in states /\ (st = InvocationRules.done => ~SourceBlocked(up, InvocationRules))
    BY <1>1 DEF StateFor, InvocationRules, Refusals
  <1>3. b \in BOOLEAN
    BY <1>1 DEF SourceBlocked
  <1>4. PacketsOf["invocation_rehearsal"] = Packets("invocation_rehearsal", states)
    BY Zenon DEF PacketsOf, InvocationPackets
  <1>5. InvocationRehearsal(up) = Built("invocation_rehearsal", st, InvocationRules, b)
    BY Zenon DEF InvocationRehearsal, Gate
  <1>6. Needed("invocation_rehearsal") \subseteq Needed(up.at)
    BY <1>1 DEF Needed
  <1> HIDE DEF st, b, states
  <1> QED BY <1>1, <1>2, <1>3, <1>4, <1>5, <1>6, StageBuilt, CriticalRefused DEF SidecarStages

LEMMA CanaryStage ==
    ASSUME NEW up \in InvocationPackets
    PROVE  StageOK(up, CanaryPlan(up), {})
  <1> DEFINE st == StateFor(up, CanaryPlanRules)
             b == SourceBlocked(up, CanaryPlanRules)
             states == Refusals \cup {"ready_for_dry_run_start_approval_request",
                 "waiting_for_executor_invocation_rehearsal", "blocked"}
  <1>1. /\ up.at = "invocation_rehearsal" /\ up.blocked \in BOOLEAN
        /\ up.state \in Refusals \cup {"ready_for_executor_invocation_rehearsal",
                            "waiting_for_start_executor_review", "blocked"}
    BY DEF InvocationPackets, Packets
  <1>2. st \in states /\ (st = CanaryPlanRules.done => ~SourceBlocked(up, CanaryPlanRules))
    BY <1>1 DEF StateFor, CanaryPlanRules, Refusals
  <1>3. b \in BOOLEAN
    BY <1>1 DEF SourceBlocked
  <1>4. PacketsOf["canary_plan"] = Packets("canary_plan", states)
    BY Zenon DEF PacketsOf, CanaryPlanPackets
  <1>5. CanaryPlan(up) = Built("canary_plan", st, CanaryPlanRules, b)
    BY Zenon DEF CanaryPlan, Gate
  <1>6. Needed("canary_plan") \subseteq Needed(up.at)
    BY <1>1 DEF Needed
  <1> HIDE DEF st, b, states
  <1> QED BY <1>1, <1>2, <1>3, <1>4, <1>5, <1>6, StageBuilt, CriticalRefused DEF SidecarStages

LEMMA RuntimePreflightStage ==
    ASSUME NEW up \in InvocationPackets
    PROVE  StageOK(up, RuntimePreflightApproval(up), {})
  <1> DEFINE st == StateFor(up, RuntimePreflightRules)
             b == SourceBlocked(up, RuntimePreflightRules)
             states == Refusals \cup {"approval_packet_ready",
                 "waiting_for_invocation_rehearsal", "blocked"}
  <1>1. /\ up.at = "invocation_rehearsal" /\ up.blocked \in BOOLEAN
        /\ up.state \in Refusals \cup {"ready_for_executor_invocation_rehearsal",
                            "waiting_for_start_executor_review", "blocked"}
    BY DEF InvocationPackets, Packets
  <1>2. st \in states /\ (st = RuntimePreflightRules.done => ~SourceBlocked(up, RuntimePreflightRules))
    BY <1>1 DEF StateFor, RuntimePreflightRules, Refusals
  <1>3. b \in BOOLEAN
    BY <1>1 DEF SourceBlocked
  <1>4. PacketsOf["runtime_preflight"] = Packets("runtime_preflight", states)
    BY Zenon DEF PacketsOf, RuntimePreflightPackets
  <1>5. RuntimePreflightApproval(up) = Built("runtime_preflight", st, RuntimePreflightRules, b)
    BY Zenon DEF RuntimePreflightApproval, Gate
  <1>6. Needed("runtime_preflight") \subseteq Needed(up.at)
    BY <1>1 DEF Needed
  <1> HIDE DEF st, b, states
  <1> QED BY <1>1, <1>2, <1>3, <1>4, <1>5, <1>6, StageBuilt, CriticalRefused DEF SidecarStages

LEMMA AdapterHandoffStage ==
    ASSUME NEW up \in RuntimePreflightPackets
    PROVE  StageOK(up, AdapterHandoff(up), {})
  <1> DEFINE st == StateFor(up, HandoffRules)
             b == SourceBlocked(up, HandoffRules)
             states == Refusals \cup {"handoff_packet_ready",
                 "waiting_for_runtime_preflight_approval", "blocked"}
  <1>1. /\ up.at = "runtime_preflight" /\ up.blocked \in BOOLEAN
        /\ up.state \in Refusals \cup {"approval_packet_ready",
                            "waiting_for_invocation_rehearsal", "blocked"}
    BY DEF RuntimePreflightPackets, Packets
  <1>2. st \in states /\ (st = HandoffRules.done => ~SourceBlocked(up, HandoffRules))
    BY <1>1 DEF StateFor, HandoffRules, Refusals
  <1>3. b \in BOOLEAN
    BY <1>1 DEF SourceBlocked
  <1>4. PacketsOf["adapter_handoff"] = Packets("adapter_handoff", states)
    BY Zenon DEF PacketsOf, HandoffApprovalPackets
  <1>5. AdapterHandoff(up) = Built("adapter_handoff", st, HandoffRules, b)
    BY Zenon DEF AdapterHandoff, Gate
  <1>6. Needed("adapter_handoff") \subseteq Needed(up.at)
    BY <1>1 DEF Needed
  <1> HIDE DEF st, b, states
  <1> QED BY <1>1, <1>2, <1>3, <1>4, <1>5, <1>6, StageBuilt, CriticalRefused DEF SidecarStages

LEMMA ReviewTableStage ==
    ASSUME NEW up \in HandoffApprovalPackets
    PROVE  StageOK(up, OperatorReviewTable(up), {})
  <1> DEFINE st == StateFor(up, ReviewTableRules)
             b == SourceBlocked(up, ReviewTableRules)
             states == Refusals \cup {"review_table_ready", "waiting_for_adapter_handoff",
                 "blocked"}
  <1>1. /\ up.at = "adapter_handoff" /\ up.blocked \in BOOLEAN
        /\ up.state \in Refusals \cup {"handoff_packet_ready",
                            "waiting_for_runtime_preflight_approval", "blocked"}
    BY DEF HandoffApprovalPackets, Packets
  <1>2. st \in states /\ (st = ReviewTableRules.done => ~SourceBlocked(up, ReviewTableRules))
    BY <1>1 DEF StateFor, ReviewTableRules, Refusals
  <1>3. b \in BOOLEAN
    BY <1>1 DEF SourceBlocked
  <1>4. PacketsOf["review_table"] = Packets("review_table", states)
    BY Zenon DEF PacketsOf, ReviewTablePackets
  <1>5. OperatorReviewTable(up) = Built("review_table", st, ReviewTableRules, b)
    BY Zenon DEF OperatorReviewTable, Gate
  <1>6. Needed("review_table") \subseteq Needed(up.at)
    BY <1>1 DEF Needed
  <1> HIDE DEF st, b, states
  <1> QED BY <1>1, <1>2, <1>3, <1>4, <1>5, <1>6, StageBuilt, CriticalRefused DEF SidecarStages

LEMMA CollectorStage ==
    ASSUME NEW up \in CanaryPlanPackets, NEW faults \in SUBSET PreflightFaults
    PROVE  StageOK(up, PreflightCollector(up, faults), {})
  <1> DEFINE st == CollectorState(up, faults)
             b == ~CollectorRows(up, faults)
             states == {"ready_for_supervised_dry_run_preflight_review",
                 "waiting_for_preflight_evidence", "stale", "degraded", "conflicting",
                 "blocked"}
  <1>1. /\ up.at = "canary_plan" /\ up.blocked \in BOOLEAN
        /\ up.state \in Refusals \cup {"ready_for_dry_run_start_approval_request",
                            "waiting_for_executor_invocation_rehearsal", "blocked"}
    BY DEF CanaryPlanPackets, Packets
  <1>2. st \in states /\ (st = CollectorRules.done => ~SourceBlocked(up, CollectorRules))
    BY <1>1 DEF CollectorState, CollectorRows, CollectorRules, Refusals
  <1>3. b \in BOOLEAN
    BY <1>1 DEF SourceBlocked, CollectorRows
  <1>4. PacketsOf["preflight_collector"] = Packets("preflight_collector", states)
    BY Zenon DEF PacketsOf, CollectorPackets
  <1>5. PreflightCollector(up, faults) = Built("preflight_collector", st, CollectorRules, b)
    BY Zenon DEF PreflightCollector
  <1>6. Needed("preflight_collector") \subseteq Needed(up.at)
    BY <1>1 DEF Needed
  <1> HIDE DEF st, b, states
  <1> QED BY <1>1, <1>2, <1>3, <1>4, <1>5, <1>6, StageBuilt, CriticalRefused DEF SidecarStages

LEMMA ChainReviewStage ==
    ASSUME NEW up \in CollectorPackets
    PROVE  StageOK(up, ChainReview(up), {})
  <1> DEFINE st == ChainReviewState(up)
             b == ~ChainRows(up)
             states == {"ready_for_supervised_dry_run_chain_review",
                 "waiting_for_preflight_review", "stale", "degraded", "conflicting",
                 "blocked"}
  <1>1. /\ up.at = "preflight_collector" /\ up.blocked \in BOOLEAN
        /\ up.state \in {"ready_for_supervised_dry_run_preflight_review",
                            "waiting_for_preflight_evidence", "stale", "degraded",
                            "conflicting", "blocked"}
    BY DEF CollectorPackets, Packets
  <1>2. st \in states /\ (st = ChainReviewRules.done => ~SourceBlocked(up, ChainReviewRules))
    BY <1>1 DEF ChainReviewState, ChainRows, ChainReviewRules, Refusals
  <1>3. b \in BOOLEAN
    BY <1>1 DEF SourceBlocked, ChainRows
  <1>4. PacketsOf["chain_review"] = Packets("chain_review", states)
    BY Zenon DEF PacketsOf, ChainReviewPackets
  <1>5. ChainReview(up) = Built("chain_review", st, ChainReviewRules, b)
    BY Zenon DEF ChainReview
  <1>6. Needed("chain_review") \subseteq Needed(up.at)
    BY <1>1 DEF Needed
  <1> HIDE DEF st, b, states
  <1> QED BY <1>1, <1>2, <1>3, <1>4, <1>5, <1>6, StageBuilt, CriticalRefused DEF SidecarStages

LEMMA GrantProposalStage ==
    ASSUME NEW up \in ReviewDecisionPackets
    PROVE  StageOK(up, GrantProposal(up), {})
  <1> DEFINE st == GrantProposalState(up)
             b == SourceBlocked(up, GrantProposalRules)
             states == Refusals \cup {"ready_for_grant_proposal_review",
                 "waiting_for_review_decision", "more_evidence_requested", "blocked"}
  <1>1. /\ up.at = "review_decision" /\ up.blocked \in BOOLEAN
        /\ up.state \in Refusals \cup {"approved_evidence", "more_evidence_requested",
                            "insufficient", "expired", "waiting_for_operator_review_table",
                            "blocked"}
    BY DEF ReviewDecisionPackets, Packets
  <1>2. st \in states /\ (st = GrantProposalRules.done => ~SourceBlocked(up, GrantProposalRules))
    BY <1>1 DEF GrantProposalState, GrantProposalRules, Refusals
  <1>3. b \in BOOLEAN
    BY <1>1 DEF SourceBlocked
  <1>4. PacketsOf["grant_proposal"] = Packets("grant_proposal", states)
    BY Zenon DEF PacketsOf, GrantProposalPackets
  <1>5. GrantProposal(up) = Built("grant_proposal", st, GrantProposalRules, b)
    BY Zenon DEF GrantProposal
  <1>6. Needed("grant_proposal") \subseteq Needed(up.at)
    BY <1>1 DEF Needed
  <1> HIDE DEF st, b, states
  <1> QED BY <1>1, <1>2, <1>3, <1>4, <1>5, <1>6, StageBuilt, CriticalRefused DEF SidecarStages

LEMMA FinalReviewStage ==
    ASSUME NEW up \in GrantEvidencePackets
    PROVE  StageOK(up, ExecutionGateFinalReview(up), {})
  <1> DEFINE st == FinalReviewState(up)
             b == SourceBlocked(up, FinalReviewRules)
             states == {"ready_for_execution_gate_final_review", "grant_rejected",
                 "waiting_for_grant_evidence", "more_evidence_requested", "stale",
                 "conflicting", "blocked"}
  <1>1. /\ up.at = "grant_evidence" /\ up.blocked \in BOOLEAN
        /\ up.state \in {"grant_evidence_accepted", "grant_rejected", "insufficient",
                            "more_evidence_requested", "conflicting", "expired",
                            "waiting_for_grant_proposal", "blocked"}
    BY DEF GrantEvidencePackets, Packets
  <1>2. st \in states /\ (st = FinalReviewRules.done => ~SourceBlocked(up, FinalReviewRules))
    BY <1>1 DEF FinalReviewState, FinalReviewRules, Refusals
  <1>3. b \in BOOLEAN
    BY <1>1 DEF SourceBlocked
  <1>4. PacketsOf["final_review"] = Packets("final_review", states)
    BY Zenon DEF PacketsOf, FinalReviewPackets
  <1>5. ExecutionGateFinalReview(up) = Built("final_review", st, FinalReviewRules, b)
    BY Zenon DEF ExecutionGateFinalReview
  <1>6. Needed("final_review") \subseteq Needed(up.at)
    BY <1>1 DEF Needed
  <1> HIDE DEF st, b, states
  <1> QED BY <1>1, <1>2, <1>3, <1>4, <1>5, <1>6, StageBuilt, CriticalRefused DEF SidecarStages

LEMMA DispatchDraftStage ==
    ASSUME NEW up \in FinalReviewPackets
    PROVE  StageOK(up, DispatchRequestDraft(up), {})
  <1> DEFINE st == DispatchDraftState(up)
             b == SourceBlocked(up, DispatchDraftRules)
             states == {"dispatch_request_draft_ready", "final_review_blocked",
                 "waiting_for_execution_gate_final_review", "stale", "conflicting",
                 "blocked"}
  <1>1. /\ up.at = "final_review" /\ up.blocked \in BOOLEAN
        /\ up.state \in {"ready_for_execution_gate_final_review", "grant_rejected",
                            "waiting_for_grant_evidence", "more_evidence_requested",
                            "stale", "conflicting", "blocked"}
    BY DEF FinalReviewPackets, Packets
  <1>2. st \in states /\ (st = DispatchDraftRules.done => ~SourceBlocked(up, DispatchDraftRules))
    BY <1>1 DEF DispatchDraftState, DispatchDraftRules, Refusals
  <1>3. b \in BOOLEAN
    BY <1>1 DEF SourceBlocked
  <1>4. PacketsOf["dispatch_draft"] = Packets("dispatch_draft", states)
    BY Zenon DEF PacketsOf, DispatchDraftPackets
  <1>5. DispatchRequestDraft(up) = Built("dispatch_draft", st, DispatchDraftRules, b)
    BY Zenon DEF DispatchRequestDraft
  <1>6. Needed("dispatch_draft") \subseteq Needed(up.at)
    BY <1>1 DEF Needed
  <1> HIDE DEF st, b, states
  <1> QED BY <1>1, <1>2, <1>3, <1>4, <1>5, <1>6, StageBuilt, CriticalRefused DEF SidecarStages

LEMMA SealStage ==
    ASSUME NEW up \in DispatchDraftPackets, NEW runtime \in RuntimeEvidence, NEW intact \in BOOLEAN
    PROVE  StageOK(up, PreflightSeal(up, runtime, intact), {})
  <1> DEFINE st == SealState(up, runtime, intact)
             b == SourceBlocked(up, SealRules) \/ runtime # "ready" \/ ~intact
             states == {"dispatcher_preflight_seal_ready",
                 "waiting_for_dispatch_request_draft", "runtime_evidence_missing",
                 "runtime_evidence_stale", "integrity_failed", "blocked"}
  <1>1. /\ up.at = "dispatch_draft" /\ up.blocked \in BOOLEAN
        /\ up.state \in {"dispatch_request_draft_ready", "final_review_blocked",
                            "waiting_for_execution_gate_final_review", "stale",
                            "conflicting", "blocked"}
    BY DEF DispatchDraftPackets, Packets
  <1>2. st \in states /\ (st = SealRules.done => ~SourceBlocked(up, SealRules))
    BY <1>1 DEF SealState, SealRules, Refusals
  <1>3. b \in BOOLEAN
    BY <1>1 DEF SourceBlocked
  <1>4. PacketsOf["seal"] = Packets("seal", states)
    BY Zenon DEF PacketsOf, SealPackets
  <1>5. PreflightSeal(up, runtime, intact) = Built("seal", st, SealRules, b)
    BY Zenon DEF PreflightSeal
  <1>6. Needed("seal") \subseteq Needed(up.at)
    BY <1>1 DEF Needed
  <1> HIDE DEF st, b, states
  <1> QED BY <1>1, <1>2, <1>3, <1>4, <1>5, <1>6, StageBuilt, CriticalRefused DEF SidecarStages

(* The same for a stage that reads records of its own: shown is what they  *)
(* show an operator.                                                       *)
LEMMA StageShown ==
    ASSUME NEW up, NEW at \in SidecarStages, NEW states, PacketsOf[at] = Packets(at, states),
           NEW state \in states, NEW rules, NEW blocked \in BOOLEAN,
           NEW shown, shown \subseteq SidecarPast \ {"forged"},
           state = rules.done =>
               /\ "met" \in up.facts /\ up.unsafe \cap Critical = {}
               /\ "contrary" \notin shown
               /\ Needed(at) \subseteq Needed(up.at) \cup shown
    PROVE  StageOK(up, Built(at, state, rules, blocked), shown)
  <1>1. PICK p : p = Built(at, state, rules, blocked)
    OBVIOUS
  <1>2. /\ p \in Packets(at, states) /\ p.at = at /\ p.unsafe = {}
        /\ "met" \in p.facts => state = rules.done
    BY <1>1, BuiltFields
  <1> QED BY <1>1, <1>2 DEF StageOK

(* stateForClassification: accepted takes a receipt that was seen and a    *)
(* grant, and stands against no contrary record.                           *)
LEMMA AcceptedEvidence ==
    ASSUME NEW records
    PROVE  /\ EvidenceState(records) \in
                 Refusals \cup {"accepted", "insufficient", "blocked"}
           /\ EvidenceState(records) = "accepted" =>
                 "start_approved" \in StartShowed(records) /\ "contrary" \notin StartShowed(records)
           /\ StartShowed(records) \subseteq SidecarPast \ {"forged"}
  <1>1. PICK kinds : kinds = Kinds(Fresh(records, TRUE))
    OBVIOUS
  <1>2. EvidenceState(records) \in Refusals \cup {"accepted", "insufficient", "blocked"}
    BY DEF EvidenceState, Refusals
  <1>3. ASSUME EvidenceState(records) = "accepted"
        PROVE  /\ kinds \cap Visible # {} /\ "approval_grant" \in kinds /\ "rejected" \notin kinds
               /\ ~\E e \in records : Conflicts(e, TRUE)
    BY <1>1, <1>3 DEF EvidenceState
  <1>4. /\ kinds \cap Visible # {} => "seen" \in Showed(records, TRUE)
        /\ "approval_grant" \in kinds => "granted" \in Showed(records, TRUE)
        /\ "refused" \in Showed(records, TRUE) => "rejected" \in kinds
        /\ "other_grant" \in Showed(records, TRUE) => \E e \in records : Conflicts(e, TRUE)
    BY <1>1, FreshIsShown
  <1>5. PICK s : s = Showed(records, TRUE)
    OBVIOUS
  <1>6. StartShowed(records) =
           (IF {"seen", "granted"} \subseteq s THEN {"start_approved"} ELSE {})
           \cup (IF s \cap {"refused", "other_grant"} # {} THEN {"contrary"} ELSE {})
    BY <1>5, Zenon DEF StartShowed
  <1>7. StartShowed(records) \subseteq SidecarPast \ {"forged"}
    BY <1>6 DEF SidecarPast
  <1>8. ASSUME EvidenceState(records) = "accepted"
        PROVE  {"seen", "granted"} \subseteq s /\ s \cap {"refused", "other_grant"} = {}
    BY <1>3, <1>4, <1>5, <1>8
  <1>9. EvidenceState(records) = "accepted" =>
           "start_approved" \in StartShowed(records) /\ "contrary" \notin StartShowed(records)
    BY <1>6, <1>8
  <1> QED BY <1>2, <1>7, <1>9

LEMMA ActivationReceiptStage ==
    ASSUME NEW up \in ActivationApprovalPackets, NEW records
    PROVE  StageOK(up, ActivationReceipt(up, records), StartShowed(records))
  <1> DEFINE b == SourceBlocked(up, ActivationReceiptRules)
             st == IF b THEN "blocked" ELSE EvidenceState(records)
             bb == b \/ "unknown" \in Kinds(records)
             shown == StartShowed(records)
             states == Refusals \cup {"accepted", "insufficient", "blocked"}
  <1>1. up.at = "activation_approval" /\ up.blocked \in BOOLEAN
    BY DEF ActivationApprovalPackets, Packets
  <1>2. st \in states /\ bb \in BOOLEAN
    BY <1>1, AcceptedEvidence DEF SourceBlocked
  <1>3. shown \subseteq SidecarPast \ {"forged"}
    BY AcceptedEvidence
  <1>4. ASSUME st = ActivationReceiptRules.done
        PROVE  /\ "met" \in up.facts /\ up.unsafe \cap Critical = {}
               /\ "contrary" \notin shown /\ "start_approved" \in shown
    <2>1. ~b /\ EvidenceState(records) = "accepted"
      BY <1>4 DEF ActivationReceiptRules
    <2>2. "met" \in up.facts /\ up.unsafe \cap ActivationReceiptRules.flags = {}
      BY <2>1 DEF SourceBlocked
    <2> QED BY <2>1, <2>2, AcceptedEvidence, CriticalRefused
  <1>5. Needed("activation_receipt") \subseteq Needed(up.at) \cup {"start_approved"}
    BY <1>1 DEF Needed
  <1>6. PacketsOf["activation_receipt"] = Packets("activation_receipt", states)
    BY Zenon DEF PacketsOf, ActivationReceiptPackets
  <1>7. ActivationReceipt(up, records) =
          Built("activation_receipt", st, ActivationReceiptRules, bb)
    BY Zenon DEF ActivationReceipt, Receipt
  <1> HIDE DEF st, b, bb, states, shown
  <1>8. st = ActivationReceiptRules.done =>
          /\ "met" \in up.facts /\ up.unsafe \cap Critical = {}
          /\ "contrary" \notin shown
          /\ Needed("activation_receipt") \subseteq Needed(up.at) \cup shown
    BY <1>4, <1>5
  <1>9. "activation_receipt" \in SidecarStages
    BY DEF SidecarStages
  <1>10. StageOK(up, Built("activation_receipt", st, ActivationReceiptRules, bb), shown)
    BY ONLY <1>2, <1>3, <1>6, <1>8, <1>9, StageShown
  <1> QED BY <1>7, <1>10 DEF shown

LEMMA StartReceiptStage ==
    ASSUME NEW up \in StartRequestPackets, NEW records
    PROVE  StageOK(up, StartReceipt(up, records), StartShowed(records))
  <1> DEFINE rules == [ActivationReceiptRules EXCEPT !.flags = {}]
             b == SourceBlocked(up, rules)
             st == IF b THEN "blocked" ELSE EvidenceState(records)
             bb == b \/ "unknown" \in Kinds(records)
             shown == StartShowed(records)
             states == Refusals \cup {"accepted", "insufficient", "blocked"}
             notReady == IF up.state \in {"stale", "conflicting"} THEN up.state
                         ELSE IF up.state = "degraded" THEN "blocked" ELSE "insufficient"
  <1>1. up.at = "start_request" /\ up.blocked \in BOOLEAN
    BY DEF StartRequestPackets, Packets
  <1>2. rules.done = "accepted"
    BY DEF ActivationReceiptRules
  <1> HIDE DEF rules
  <1>3. PICK made : made = Built("start_receipt", st, rules, bb)
    OBVIOUS
  <1>4. AsActivationApproval(up, records) = made
    BY <1>3, Zenon DEF AsActivationApproval, Receipt, rules
  <1>5. st \in states /\ bb \in BOOLEAN
    BY <1>1, AcceptedEvidence DEF SourceBlocked
  <1>6. shown \subseteq SidecarPast \ {"forged"}
    BY AcceptedEvidence
  <1>7. /\ made \in Packets("start_receipt", states) /\ made.at = "start_receipt"
        /\ made.unsafe = {} /\ ("met" \in made.facts => st = rules.done)
    <2> HIDE DEF st, bb, states
    <2> QED BY <1>3, <1>5, BuiltFields
  <1>8. ASSUME "met" \in made.facts
        PROVE  /\ "met" \in up.facts /\ "contrary" \notin shown
    <2>1. ~b /\ EvidenceState(records) = "accepted"
      BY <1>2, <1>7, <1>8
    <2> QED BY <2>1, AcceptedEvidence DEF SourceBlocked
  <1>9. Needed("start_receipt") \subseteq Needed(up.at)
    BY <1>1 DEF Needed
  <1>10. PacketsOf["start_receipt"] = Packets("start_receipt", states)
    BY Zenon DEF PacketsOf, StartReceiptPackets
  <1>11. notReady \in states /\ "blocked" \in states
    BY DEF Refusals
  <1> DEFINE refused == up.blocked \/ up.state = "blocked" \/ up.unsafe \cap StartReceiptFlags # {}
             waits == up.state # "approval_request_draft_ready"
  <1>12. StartReceipt(up, records) =
           IF refused THEN Packet("start_receipt", "blocked", TRUE, {})
           ELSE IF waits THEN [made EXCEPT !.state = notReady, !.facts = {}] ELSE made
    BY <1>4, Zenon DEF StartReceipt
  <1>13. ~refused => up.unsafe \cap Critical = {}
    BY CriticalRefused
  <1>14. "start_receipt" \in SidecarStages
    BY DEF SidecarStages
  <1> HIDE DEF st, b, bb, states, shown, notReady, refused, waits
  <1>15. CASE refused
    <2>1. PICK p : p = Packet("start_receipt", "blocked", TRUE, {})
      OBVIOUS
    <2>2. p \in Packets("start_receipt", states) /\ p.at = "start_receipt" /\ p.unsafe = {} /\ p.facts = {}
      BY <1>11, <2>1 DEF Packet, Packets
    <2>3. StartReceipt(up, records) = p
      BY <1>12, <1>15, <2>1
    <2> QED BY <1>6, <1>10, <1>14, <2>2, <2>3 DEF StageOK, shown
  <1>16. CASE ~refused /\ waits
    <2>1. PICK p : p = [made EXCEPT !.state = notReady, !.facts = {}]
      OBVIOUS
    <2>2. p \in Packets("start_receipt", states) /\ p.at = "start_receipt" /\ p.unsafe = {} /\ p.facts = {}
      BY <1>7, <1>11, <2>1 DEF Packets
    <2>3. StartReceipt(up, records) = p
      BY <1>12, <1>16, <2>1
    <2> QED BY <1>6, <1>10, <1>14, <2>2, <2>3 DEF StageOK, shown
  <1>17. CASE ~refused /\ ~waits
    <2>1. StartReceipt(up, records) = made
      BY <1>12, <1>17
    <2> QED BY <1>6, <1>7, <1>8, <1>9, <1>10, <1>13, <1>14, <1>17, <2>1 DEF StageOK, shown
  <1> QED BY <1>15, <1>16, <1>17

(* The two approval requests: a source that is ready but not met is only   *)
(* waited for.                                                             *)
LEMMA RequestDraftStage ==
    ASSUME NEW up, NEW at \in SidecarStages, NEW states, PacketsOf[at] = Packets(at, states),
           NEW rules, StateFor(up, rules) \in states, rules.waiting \in states,
           StateFor(up, rules) = rules.done => ~SourceBlocked(up, rules),
           up.blocked \in BOOLEAN, Needed(at) \subseteq Needed(up.at),
           up.unsafe \cap rules.flags = {} => up.unsafe \cap Critical = {}
    PROVE  StageOK(up, RequestDraft(at, up, rules), {})
  <1>1. PICK waits : waits = Packet(at, rules.waiting, TRUE, {})
    OBVIOUS
  <1>2. /\ waits \in Packets(at, states) /\ waits.at = at /\ waits.unsafe = {}
        /\ waits.facts = {}
    BY <1>1 DEF Packet, Packets
  <1>3. SourceBlocked(up, rules) \in BOOLEAN
    BY DEF SourceBlocked
  <1>4. PICK gate : gate = Gate(at, up, rules)
    OBVIOUS
  <1>5. /\ gate \in Packets(at, states) /\ gate.at = at /\ gate.unsafe = {}
        /\ "met" \in gate.facts => StateFor(up, rules) = rules.done
    BY <1>3, <1>4, BuiltFields DEF Gate
  <1>6. "met" \in gate.facts => "met" \in up.facts /\ up.unsafe \cap Critical = {}
    BY <1>5 DEF SourceBlocked
  <1>7. RequestDraft(at, up, rules) = waits \/ RequestDraft(at, up, rules) = gate
    BY <1>1, <1>4 DEF RequestDraft
  <1>8. StageOK(up, waits, {})
    BY <1>2 DEF StageOK
  <1>9. StageOK(up, gate, {})
    BY <1>5, <1>6 DEF StageOK
  <1> QED BY <1>7, <1>8, <1>9

LEMMA ActivationApprovalStage ==
    ASSUME NEW up \in DryRunGatePackets, up.unsafe \subseteq ActivationApprovalRules.flags
    PROVE  StageOK(up, ActivationApproval(up), {})
  <1> DEFINE st == StateFor(up, ActivationApprovalRules)
             states == {"approval_request_draft_ready", "waiting_for_gate", "stale", "blocked"}
  <1>1. /\ up.at = "dry_run_gate" /\ up.blocked \in BOOLEAN
        /\ up.state \in {"ready_for_operator_approval", "waiting_for_finalizer_status",
                         "waiting_for_operating_evidence", "stale", "blocked"}
    BY DEF DryRunGatePackets, Packets
  <1>2. /\ st \in states /\ ActivationApprovalRules.waiting \in states
        /\ st = ActivationApprovalRules.done => ~SourceBlocked(up, ActivationApprovalRules)
    BY <1>1 DEF StateFor, ActivationApprovalRules
  <1>3. PacketsOf["activation_approval"] = Packets("activation_approval", states)
    BY Zenon DEF PacketsOf, ActivationApprovalPackets
  <1>4. Needed("activation_approval") \subseteq Needed(up.at)
    BY <1>1 DEF Needed
  <1>5. up.unsafe \cap ActivationApprovalRules.flags = {} => up.unsafe \cap Critical = {}
    OBVIOUS
  <1>6. "activation_approval" \in SidecarStages
    BY DEF SidecarStages
  <1> HIDE DEF states
  <1> QED BY <1>1, <1>2, <1>3, <1>4, <1>5, <1>6, RequestDraftStage DEF ActivationApproval

LEMMA StartRequestStage ==
    ASSUME NEW up \in ChainReviewPackets
    PROVE  StageOK(up, StartApprovalRequest(up), {})
  <1> DEFINE st == StateFor(up, StartRequestRules)
             states == {"approval_request_draft_ready", "waiting_for_chain_review", "stale",
                        "degraded", "conflicting", "blocked"}
  <1>1. /\ up.at = "chain_review" /\ up.blocked \in BOOLEAN
        /\ up.state \in {"ready_for_supervised_dry_run_chain_review",
                         "waiting_for_preflight_review", "stale", "degraded", "conflicting",
                         "blocked"}
    BY DEF ChainReviewPackets, Packets
  <1>2. /\ st \in states /\ StartRequestRules.waiting \in states
        /\ st = StartRequestRules.done => ~SourceBlocked(up, StartRequestRules)
    BY <1>1 DEF StateFor, StartRequestRules
  <1>3. PacketsOf["start_request"] = Packets("start_request", states)
    BY Zenon DEF PacketsOf, StartRequestPackets
  <1>4. Needed("start_request") \subseteq Needed(up.at)
    BY <1>1 DEF Needed
  <1>5. up.unsafe \cap StartRequestRules.flags = {} => up.unsafe \cap Critical = {}
    BY CriticalRefused
  <1>6. "start_request" \in SidecarStages
    BY DEF SidecarStages
  <1> HIDE DEF states
  <1> QED BY <1>1, <1>2, <1>3, <1>4, <1>5, <1>6, RequestDraftStage DEF StartApprovalRequest

-----------------------------------------------------------------------------
(* Decisions and grants: what an answer counts as.                         *)

LEMMA Classified ==
    ASSUME NEW d \in Decisions
    PROVE  /\ ClassifyDecision(d) = "accepted" =>
                 d.type = "approve" /\ d.fits /\ d.visible /\ ~d.old
           /\ d.type = "reject" /\ d.fits /\ ~d.old => ClassifyDecision(d) = "rejected"
           /\ d.type = "request_more_evidence" /\ d.fits /\ ~d.old =>
                 ClassifyDecision(d) = "more_evidence"
  <1>1. d.type \in DecisionTypes /\ d.old \in BOOLEAN /\ d.fits \in BOOLEAN /\ d.visible \in BOOLEAN
    BY DEF Decisions
  <1>2. CASE d.type = "conflict"
    BY <1>2 DEF ClassifyDecision, Expired
  <1>3. CASE d.type # "conflict" /\ Expired(d)
    BY <1>1, <1>3 DEF ClassifyDecision, Expired
  <1>4. CASE d.type = "reject" /\ ~Expired(d)
    <2>1. CASE d.fits
      BY <1>4, <2>1 DEF ClassifyDecision
    <2>2. CASE ~d.fits
      BY <1>4, <2>2 DEF ClassifyDecision
    <2> QED BY <2>1, <2>2
  <1>5. CASE d.type = "request_more_evidence" /\ ~Expired(d)
    <2>1. CASE d.fits
      BY <1>5, <2>1 DEF ClassifyDecision
    <2>2. CASE ~d.fits
      BY <1>5, <2>2 DEF ClassifyDecision
    <2> QED BY <2>1, <2>2
  <1>6. CASE d.type = "approve" /\ ~Expired(d)
    <2>1. CASE d.fits /\ d.visible
      BY <1>1, <1>6, <2>1 DEF Expired
    <2>2. CASE ~(d.fits /\ d.visible)
      BY <1>6, <2>2 DEF ClassifyDecision
    <2> QED BY <2>1, <2>2
  <1>7. CASE d.type \in {"provider_accepted", "expired"} /\ ~Expired(d)
    BY <1>7 DEF ClassifyDecision
  <1> QED BY <1>1, <1>2, <1>3, <1>4, <1>5, <1>6, <1>7 DEF DecisionTypes

(* One contrary answer outweighs every approval, for either classifier.    *)
LEMMA YesIsShown ==
    ASSUME NEW records \in DecisionSets, NEW yes \in {"review_approved", "grant_approved"},
           NEW said, NEW no, NEW state, NEW done,
           no # done, done \notin {"conflicting", "expired", "more_evidence_requested", "insufficient"},
           state = Verdict(said, no, done), state = done,
           \A c \in {"rejected", "more_evidence"} :
               (\E d \in records : ClassifyDecision(d) = c) => c \in said,
           "accepted" \in said => \E d \in records : ClassifyDecision(d) = "accepted"
    PROVE  yes \in Answered(records, yes) /\ "contrary" \notin Answered(records, yes)
  <1>1. \A d \in records : d \in Decisions
    BY UpToFinite, GateBounds DEF DecisionSets
  <1>2. "accepted" \in said /\ "rejected" \notin said /\ "more_evidence" \notin said
    BY DEF Verdict
  <1>3. \E d \in records : d.type = "approve" /\ d.fits /\ d.visible /\ ~d.old
    BY <1>1, <1>2, Classified
  <1>4. ~\E d \in records : d.type \in {"reject", "request_more_evidence"} /\ d.fits /\ ~d.old
    BY <1>1, <1>2, Classified
  <1> QED BY <1>3, <1>4 DEF Answered

LEMMA AnsweredTypes ==
    ASSUME NEW records, NEW yes \in {"review_approved", "grant_approved"}
    PROVE  Answered(records, yes) \subseteq SidecarPast \ {"forged"}
  BY DEF Answered, SidecarPast

LEMMA ReviewDecisionStage ==
    ASSUME NEW up \in ReviewTablePackets, NEW records \in DecisionSets
    PROVE  StageOK(up, ReviewDecision(up, records), Answered(records, "review_approved"))
  <1> DEFINE said == {ClassifyDecision(d) : d \in records}
             st == ReviewDecisionState(up, records)
             b == SourceBlocked(up, ReviewDecisionRules)
             shown == Answered(records, "review_approved")
             states == Refusals \cup {"approved_evidence", "more_evidence_requested",
                 "insufficient", "expired", "waiting_for_operator_review_table", "blocked"}
  <1>1. up.at = "review_table" /\ up.blocked \in BOOLEAN
    BY DEF ReviewTablePackets, Packets
  <1>2. b \in BOOLEAN
    BY <1>1 DEF SourceBlocked
  <1>3. st \in states
    BY DEF ReviewDecisionState, Verdict, Refusals
  <1>4. ASSUME st = "approved_evidence"
        PROVE  ~b /\ st = Verdict(said, "rejected", "approved_evidence")
    BY <1>4 DEF ReviewDecisionState, Refusals
  <1>5. ASSUME st = "approved_evidence"
        PROVE  /\ "met" \in up.facts /\ up.unsafe \cap Critical = {}
               /\ "contrary" \notin shown
               /\ Needed("review_decision") \subseteq Needed(up.at) \cup shown
    <2>1. "met" \in up.facts /\ up.unsafe \cap Critical = {}
      BY <1>4, <1>5, CriticalRefused DEF SourceBlocked
    <2>2. /\ \A c \in {"rejected", "more_evidence"} :
                (\E d \in records : ClassifyDecision(d) = c) => c \in said
          /\ "accepted" \in said => \E d \in records : ClassifyDecision(d) = "accepted"
      OBVIOUS
    <2> HIDE DEF said, st
    <2>3. "review_approved" \in shown /\ "contrary" \notin shown
      BY <1>4, <1>5, <2>2, YesIsShown
    <2>4. Needed("review_decision") \subseteq Needed(up.at) \cup {"review_approved"}
      BY <1>1 DEF Needed
    <2> HIDE DEF shown
    <2> QED BY <2>1, <2>3, <2>4
  <1>6. PacketsOf["review_decision"] = Packets("review_decision", states)
    BY Zenon DEF PacketsOf, ReviewDecisionPackets
  <1>7. ReviewDecision(up, records) = Built("review_decision", st, ReviewDecisionRules, b)
    BY Zenon DEF ReviewDecision
  <1>8. shown \subseteq SidecarPast \ {"forged"}
    BY AnsweredTypes
  <1>9. "review_decision" \in SidecarStages /\ ReviewDecisionRules.done = "approved_evidence"
    BY DEF SidecarStages, ReviewDecisionRules
  <1> HIDE DEF said, st, b, shown, states
  <1>10. StageOK(up, Built("review_decision", st, ReviewDecisionRules, b), shown)
    BY ONLY <1>2, <1>3, <1>5, <1>6, <1>8, <1>9, StageShown
  <1> QED BY <1>7, <1>10 DEF shown

LEMMA GrantEvidenceStage ==
    ASSUME NEW up \in GrantProposalPackets, NEW records \in DecisionSets
    PROVE  StageOK(up, GrantEvidence(up, records), Answered(records, "grant_approved"))
  <1> DEFINE said == {ClassifyGrant(d) : d \in records}
             st == GrantEvidenceState(up, records)
             b == SourceBlocked(up, GrantEvidenceRules)
             shown == Answered(records, "grant_approved")
             states == {"grant_evidence_accepted", "grant_rejected", "insufficient",
                 "more_evidence_requested", "conflicting", "expired",
                 "waiting_for_grant_proposal", "blocked"}
  <1>1. up.at = "grant_proposal" /\ up.blocked \in BOOLEAN
    BY DEF GrantProposalPackets, Packets
  <1>2. b \in BOOLEAN
    BY <1>1 DEF SourceBlocked
  <1>3. st \in states
    BY DEF GrantEvidenceState, Verdict
  <1>4. ASSUME st = "grant_evidence_accepted"
        PROVE  ~b /\ st = Verdict(said, "grant_rejected", "grant_evidence_accepted")
    BY <1>4 DEF GrantEvidenceState
  <1>5. ASSUME st = "grant_evidence_accepted"
        PROVE  /\ "met" \in up.facts /\ up.unsafe \cap Critical = {}
               /\ "contrary" \notin shown
               /\ Needed("grant_evidence") \subseteq Needed(up.at) \cup shown
    <2>1. "met" \in up.facts /\ up.unsafe \cap Critical = {}
      BY <1>4, <1>5, CriticalRefused DEF SourceBlocked
    <2>2. \A d \in records : /\ ClassifyGrant(d) \in {ClassifyDecision(d), "insufficient"}
                             /\ ClassifyDecision(d) # "accepted" =>
                                   ClassifyGrant(d) = ClassifyDecision(d)
      BY DEF ClassifyGrant
    <2>3. /\ \A c \in {"rejected", "more_evidence"} :
                (\E d \in records : ClassifyDecision(d) = c) => c \in said
          /\ "accepted" \in said => \E d \in records : ClassifyDecision(d) = "accepted"
      BY <2>2
    <2> HIDE DEF said, st
    <2>4. "grant_approved" \in shown /\ "contrary" \notin shown
      BY <1>4, <1>5, <2>3, YesIsShown
    <2>5. Needed("grant_evidence") \subseteq Needed(up.at) \cup {"grant_approved"}
      BY <1>1 DEF Needed
    <2> HIDE DEF shown
    <2> QED BY <2>1, <2>4, <2>5
  <1>6. PacketsOf["grant_evidence"] = Packets("grant_evidence", states)
    BY Zenon DEF PacketsOf, GrantEvidencePackets
  <1>7. GrantEvidence(up, records) = Built("grant_evidence", st, GrantEvidenceRules, b)
    BY Zenon DEF GrantEvidence
  <1>8. shown \subseteq SidecarPast \ {"forged"}
    BY AnsweredTypes
  <1>9. "grant_evidence" \in SidecarStages /\ GrantEvidenceRules.done = "grant_evidence_accepted"
    BY DEF SidecarStages, GrantEvidenceRules
  <1> HIDE DEF said, st, b, shown, states
  <1>10. StageOK(up, Built("grant_evidence", st, GrantEvidenceRules, b), shown)
    BY ONLY <1>2, <1>3, <1>5, <1>6, <1>8, <1>9, StageShown
  <1> QED BY <1>7, <1>10 DEF shown

-----------------------------------------------------------------------------
(* The dry-run gate joins the chains; between two stages a packet may be   *)
(* edited or relabelled.                                                   *)

LEMMA DryRunGateKeeps ==
    ASSUME CloseoutInv, NEW rows \in SUBSET OperatingRows, NEW stale \in BOOLEAN,
           BuildDryRunGate(rows, stale)
    PROVE  SidecarInv' /\ packet'.at \in SidecarStages
  <1> DEFINE st == DryRunGateState(rehearsal, packet, rows, stale)
             rules == [done |-> "ready_for_operator_approval"]
             b == rehearsal.blocked \/ packet.blocked \/ ~RowsReady(rehearsal, packet, rows, stale)
             states == {"ready_for_operator_approval", "waiting_for_finalizer_status",
                        "waiting_for_operating_evidence", "stale", "blocked"}
  <1>1. /\ packet.at = "status" /\ rehearsal # NoPacket
        /\ packet' = Built("dry_run_gate", st, rules, b)
        /\ past' = IF Proven /\ "over" \in rehearsal.facts THEN {"proven"} ELSE {}
    BY Zenon DEF BuildDryRunGate, DryRunGate
  <1>2. RehearsalOK(rehearsal) /\ FinalizerReadyIsProven /\ packet \in StatusPackets
    BY <1>1 DEF CloseoutInv, CloseoutDeclared
  <1>3. rehearsal.blocked \in BOOLEAN /\ packet.blocked \in BOOLEAN
    BY <1>2 DEF RehearsalOK, RehearsalPackets, StatusPackets, CloseoutPackets
  <1>4. b \in BOOLEAN /\ st \in states /\ rules.done = "ready_for_operator_approval"
    BY <1>3 DEF DryRunGateState
  <1>5. ASSUME st = "ready_for_operator_approval" PROVE past' = {"proven"}
    <2>1. RowsReady(rehearsal, packet, rows, stale)
      BY <1>5 DEF DryRunGateState
    <2>2. "over" \in rehearsal.facts /\ Proven
      BY <1>1, <1>2, <2>1 DEF RowsReady, SidecarReady, FinalizerReady, RehearsalOK,
                              FinalizerReadyIsProven
    <2> QED BY <1>1, <2>2
  <1>6. PacketsOf["dry_run_gate"] = Packets("dry_run_gate", states)
    BY Zenon DEF PacketsOf, DryRunGatePackets
  <1> HIDE DEF st, rules, b, states
  <1>7. PICK p : p = Built("dry_run_gate", st, rules, b)
    OBVIOUS
  <1>8. /\ p \in Packets("dry_run_gate", states) /\ p.at = "dry_run_gate" /\ p.unsafe = {}
        /\ "met" \in p.facts => st = rules.done
    BY ONLY <1>4, <1>7, BuiltFields
  <1>9. packet' = p /\ past' \subseteq {"proven"}
    BY <1>1, <1>7
  <1>10. Needed("dry_run_gate") = {"proven"}
    BY DEF Needed
  <1> QED BY <1>4, <1>5, <1>6, <1>8, <1>9, <1>10 DEF SidecarInv, SidecarStages, SidecarPast

LEMMA DoneDeclared ==
    ASSUME NEW at \in SidecarStages
    PROVE  \E states : PacketsOf[at] = Packets(at, states) /\ DoneState[at] \in states
  <1>1. CASE at = "dry_run_gate"
    BY <1>1 DEF PacketsOf, DryRunGatePackets, DoneState
  <1>2. CASE at = "activation_approval"
    BY <1>2 DEF PacketsOf, ActivationApprovalPackets, DoneState
  <1>3. CASE at = "activation_receipt"
    BY <1>3 DEF PacketsOf, ActivationReceiptPackets, DoneState
  <1>4. CASE at = "start_receipt"
    BY <1>4 DEF PacketsOf, StartReceiptPackets, DoneState
  <1>5. CASE at = "start_gate"
    BY <1>5 DEF PacketsOf, StartGatePackets, DoneState
  <1>6. CASE at = "invocation_rehearsal"
    BY <1>6 DEF PacketsOf, InvocationPackets, DoneState
  <1>7. CASE at = "canary_plan"
    BY <1>7 DEF PacketsOf, CanaryPlanPackets, DoneState
  <1>8. CASE at = "preflight_collector"
    BY <1>8 DEF PacketsOf, CollectorPackets, DoneState
  <1>9. CASE at = "chain_review"
    BY <1>9 DEF PacketsOf, ChainReviewPackets, DoneState
  <1>10. CASE at = "start_request"
    BY <1>10 DEF PacketsOf, StartRequestPackets, DoneState
  <1>11. CASE at = "runtime_preflight"
    BY <1>11 DEF PacketsOf, RuntimePreflightPackets, DoneState
  <1>12. CASE at = "adapter_handoff"
    BY <1>12 DEF PacketsOf, HandoffApprovalPackets, DoneState
  <1>13. CASE at = "review_table"
    BY <1>13 DEF PacketsOf, ReviewTablePackets, DoneState
  <1>14. CASE at = "review_decision"
    BY <1>14 DEF PacketsOf, ReviewDecisionPackets, DoneState
  <1>15. CASE at = "grant_proposal"
    BY <1>15 DEF PacketsOf, GrantProposalPackets, DoneState
  <1>16. CASE at = "grant_evidence"
    BY <1>16 DEF PacketsOf, GrantEvidencePackets, DoneState
  <1>17. CASE at = "final_review"
    BY <1>17 DEF PacketsOf, FinalReviewPackets, DoneState
  <1>18. CASE at = "dispatch_draft"
    BY <1>18 DEF PacketsOf, DispatchDraftPackets, DoneState
  <1>19. CASE at = "seal"
    BY <1>19 DEF PacketsOf, SealPackets, DoneState
  <1> QED BY <1>1, <1>2, <1>3, <1>4, <1>5, <1>6, <1>7, <1>8, <1>9, <1>10,
             <1>11, <1>12, <1>13, <1>14, <1>15, <1>16, <1>17, <1>18, <1>19 DEF SidecarStages

LEMMA EditKeeps ==
    ASSUME SidecarInv, NEW f \in FlagsOf(packet), Edit(f)
    PROVE  SidecarInv' /\ packet'.at \in SidecarStages /\ UNCHANGED <<rehearsal, dispatch>>
  <1>1. /\ packet.at \in SidecarStages /\ packet' = [packet EXCEPT !.unsafe = {f}]
        /\ UNCHANGED <<rehearsal, dispatch, past>>
    BY StageDomain DEF Edit
  <1>2. PICK states : PacketsOf[packet.at] = Packets(packet.at, states)
    BY <1>1, DoneDeclared
  <1>3. f \in Flags /\ (packet.at = "dry_run_gate" => f \in ActivationApprovalRules.flags)
    BY CriticalRefused DEF FlagsOf
  <1>4. packet \in Packets(packet.at, states)
    BY <1>1, <1>2 DEF SidecarInv
  <1>5. /\ packet' \in Packets(packet.at, states) /\ packet'.at = packet.at
        /\ packet'.facts = packet.facts /\ packet'.unsafe = {f}
    BY <1>1, <1>3, <1>4 DEF Packets
  <1> QED BY <1>1, <1>2, <1>3, <1>5 DEF SidecarInv

LEMMA RelabelKeeps ==
    ASSUME SidecarInv, Relabel
    PROVE  SidecarInv' /\ packet'.at \in SidecarStages /\ UNCHANGED <<rehearsal, dispatch>>
  <1>1. /\ packet.at \in SidecarStages /\ packet' = [packet EXCEPT !.state = DoneState[packet.at]]
        /\ UNCHANGED <<rehearsal, dispatch, past>>
    BY StageDomain DEF Relabel
  <1>2. PICK states : PacketsOf[packet.at] = Packets(packet.at, states) /\ DoneState[packet.at] \in states
    BY <1>1, DoneDeclared
  <1>3. packet \in Packets(packet.at, states)
    BY <1>1, <1>2 DEF SidecarInv
  <1>4. /\ packet' \in Packets(packet.at, states) /\ packet'.at = packet.at
        /\ packet'.facts = packet.facts /\ packet'.unsafe = packet.unsafe
    BY <1>1, <1>2, <1>3 DEF Packets
  <1> QED BY <1>1, <1>2, <1>4 DEF SidecarInv

-----------------------------------------------------------------------------
(* The invariant of both chains and what it says of a ready packet.        *)

GatesInv == CloseoutInv /\ SidecarInv

LEMMA SidecarStepKeeps ==
    ASSUME GatesInv, SidecarInv', packet'.at \in SidecarStages, UNCHANGED dispatch,
           rehearsal' \in {rehearsal, NoPacket}
    PROVE  GatesInv'
  <1>1. packet'.at \notin CloseoutStages
    BY DEF SidecarStages, CloseoutStages
  <1>2. CloseoutDeclared(packet') /\ OverMeant(packet', past') /\ ReceiptMeant(packet', past')
        /\ FinalizerReadyIsProven'
    BY <1>1 DEF CloseoutStages, CloseoutDeclared, OverMeant, ReceiptMeant, FinalizerReadyIsProven
  <1> QED BY <1>1, <1>2 DEF GatesInv, CloseoutInv, CloseoutStages

LEMMA CloseoutNextKeeps ==
    ASSUME GatesInv, CloseoutNext
    PROVE  GatesInv'
  <1>1. CloseoutInv
    BY DEF GatesInv
  <1>2. ASSUME NEW r \in Observations, Observe(r) PROVE GatesInv'
    <2>1. CloseoutInv'
      BY <1>1, <1>2, ObserveKeeps
    <2>2. SidecarInv'
      BY <1>2 DEF Observe, GatesInv, SidecarInv
    <2> QED BY <2>1, <2>2 DEF GatesInv
  <1>3. ASSUME CloseoutInv', packet'.at \in CloseoutStages PROVE GatesInv'
    BY <1>3 DEF GatesInv, SidecarInv, CloseoutStages, SidecarStages
  <1>4. CASE HandOff
    <2>1. packet'.at = "handoff"
      BY <1>4 DEF HandOff, FinalizerHandoff, Packet
    <2> QED BY <1>1, <1>3, <1>4, <2>1, HandOffKeeps DEF CloseoutStages
  <1>5. CASE BuildWorkflow
    <2>1. packet'.at = "workflow"
      BY <1>5 DEF BuildWorkflow, FinalizerWorkflow, Packet
    <2> QED BY <1>1, <1>3, <1>5, <2>1, WorkflowKeeps DEF CloseoutStages
  <1>6. CASE RequestApproval
    <2>1. packet'.at = "approval_request"
      BY <1>6 DEF RequestApproval, ApprovalRequest, Packet
    <2> QED BY <1>1, <1>3, <1>6, <2>1, RequestKeeps DEF CloseoutStages
  <1>7. CASE BuildStatus
    <2>1. packet'.at = "status"
      BY <1>7 DEF BuildStatus, ApprovalStatus, Packet
    <2> QED BY <1>1, <1>3, <1>7, <2>1, StatusKeeps DEF CloseoutStages
  <1>8. ASSUME NEW issue \in BOOLEAN, NEW pr \in BOOLEAN, BuildCloseoutGate(issue, pr)
        PROVE  GatesInv'
    <2>1. packet'.at = "closeout_gate"
      BY <1>8 DEF BuildCloseoutGate, CloseoutGate, Packet
    <2> QED BY <1>1, <1>3, <1>8, <2>1, CloseoutGateKeeps DEF CloseoutStages
  <1>9. ASSUME NEW selected \in Actions \cup {None}, NEW target \in BOOLEAN,
               NEW attempt \in BOOLEAN, RunExecutor(selected, target, attempt)
        PROVE  GatesInv'
    <2>1. packet'.at = "executor"
      BY <1>9 DEF RunExecutor, ApprovalExecutor, Packet
    <2> QED BY <1>1, <1>3, <1>9, <2>1, ExecutorKeeps DEF CloseoutStages
  <1>10. ASSUME NEW supported \in BOOLEAN, Dispatch(supported) PROVE GatesInv'
    <2>1. packet'.at = "dispatch"
      BY <1>10 DEF Dispatch, DispatchAdapter, Packet
    <2> QED BY <1>1, <1>3, <1>10, <2>1, DispatchKeeps DEF CloseoutStages
  <1>11. ASSUME NEW records \in EvidenceSets, IngestReceipts(records) PROVE GatesInv'
    <2>1. packet'.at = "receipt"
      BY <1>11 DEF IngestReceipts, ReceiptIngestor, Packet
    <2> QED BY <1>1, <1>3, <1>11, <2>1, ReceiptKeeps DEF CloseoutStages
  <1> QED BY <1>2, <1>4, <1>5, <1>6, <1>7, <1>8, <1>9, <1>10, <1>11 DEF CloseoutNext

(* The packet a stage is given is of the type that stage expects.          *)
LEMMA GivenDeclared ==
    ASSUME SidecarInv, NEW at \in SidecarStages, packet.at = at
    PROVE  packet \in PacketsOf[at]
  BY DEF SidecarInv

(* One step per stage: the packet it is given is declared, and what it     *)
(* builds is owed to that packet.                                          *)
LEMMA StagesKeep ==
    ASSUME GatesInv, Next
    PROVE  GatesInv'
  <1>1. CloseoutInv /\ SidecarInv
    BY DEF GatesInv
  <1>2. ASSUME NEW at \in SidecarStages, NEW built, NEW shown, Next1(at, built, shown),
               StageOK(packet, built, shown)
        PROVE  GatesInv'
    BY <1>1, <1>2, StageKeeps, SidecarStepKeeps
  <1>3. ASSUME NEW rows \in SUBSET OperatingRows, NEW stale \in BOOLEAN,
               BuildDryRunGate(rows, stale)
        PROVE  GatesInv'
    <2>1. UNCHANGED dispatch /\ rehearsal' = NoPacket
      BY <1>3 DEF BuildDryRunGate
    <2> QED BY <1>1, <1>3, <2>1, DryRunGateKeeps, SidecarStepKeeps
  <1>4. CASE RequestActivation
    <2>1. packet.at = "dry_run_gate" /\ Next1("dry_run_gate", ActivationApproval(packet), {})
      BY <1>4 DEF RequestActivation, Next1
    <2>2. packet \in DryRunGatePackets /\ "dry_run_gate" \in SidecarStages
      BY <1>1, <2>1, GivenDeclared DEF PacketsOf, SidecarStages
    <2>3. packet.unsafe \subseteq ActivationApprovalRules.flags
      BY <1>1, <2>1, <2>2 DEF SidecarInv
    <2>4. StageOK(packet, ActivationApproval(packet), {})
      BY <2>2, <2>3, ActivationApprovalStage
    <2> QED BY <1>2, <2>1, <2>2, <2>4
  <1>5. ASSUME NEW records \in EvidenceSets, IngestActivationReceipt(records)
        PROVE  GatesInv'
    <2>1. packet.at = "activation_approval" /\ Next1("activation_approval", ActivationReceipt(packet, records), StartShowed(records))
      BY <1>5 DEF IngestActivationReceipt, Next1
    <2>2. packet \in ActivationApprovalPackets /\ "activation_approval" \in SidecarStages
      BY <1>1, <2>1, GivenDeclared DEF PacketsOf, SidecarStages
    <2>3. StageOK(packet, ActivationReceipt(packet, records), StartShowed(records))
      BY <1>5, <2>2, ActivationReceiptStage
    <2> QED BY <1>2, <2>1, <2>2, <2>3
  <1>6. ASSUME NEW records \in EvidenceSets, IngestStartReceipt(records)
        PROVE  GatesInv'
    <2>1. packet.at = "start_request" /\ Next1("start_request", StartReceipt(packet, records), StartShowed(records))
      BY <1>6 DEF IngestStartReceipt, Next1
    <2>2. packet \in StartRequestPackets /\ "start_request" \in SidecarStages
      BY <1>1, <2>1, GivenDeclared DEF PacketsOf, SidecarStages
    <2>3. StageOK(packet, StartReceipt(packet, records), StartShowed(records))
      BY <1>6, <2>2, StartReceiptStage
    <2> QED BY <1>2, <2>1, <2>2, <2>3
  <1>7. CASE BuildStartGate
    <2>1. ASSUME NEW at \in {"activation_receipt", "start_receipt"},
                 Next1(at, StartExecutorGate(packet), {})
          PROVE  GatesInv'
      <3>1. packet.at = at /\ at \in SidecarStages
        BY <2>1 DEF Next1, SidecarStages
      <3>2. packet \in ActivationReceiptPackets \cup StartReceiptPackets
        BY <1>1, <2>1, <3>1, GivenDeclared DEF PacketsOf
      <3>3. StageOK(packet, StartExecutorGate(packet), {})
        BY <3>2, StartGateStage
      <3> QED BY <1>2, <2>1, <3>1, <3>3
    <2> QED BY <1>7, <2>1 DEF BuildStartGate
  <1>8. CASE RehearseInvocation
    <2>1. packet.at = "start_gate" /\ Next1("start_gate", InvocationRehearsal(packet), {})
      BY <1>8 DEF RehearseInvocation, Next1
    <2>2. packet \in StartGatePackets /\ "start_gate" \in SidecarStages
      BY <1>1, <2>1, GivenDeclared DEF PacketsOf, SidecarStages
    <2>3. StageOK(packet, InvocationRehearsal(packet), {})
      BY <2>2, InvocationStage
    <2> QED BY <1>2, <2>1, <2>2, <2>3
  <1>9. CASE PlanCanary
    <2>1. packet.at = "invocation_rehearsal" /\ Next1("invocation_rehearsal", CanaryPlan(packet), {})
      BY <1>9 DEF PlanCanary, Next1
    <2>2. packet \in InvocationPackets /\ "invocation_rehearsal" \in SidecarStages
      BY <1>1, <2>1, GivenDeclared DEF PacketsOf, SidecarStages
    <2>3. StageOK(packet, CanaryPlan(packet), {})
      BY <2>2, CanaryStage
    <2> QED BY <1>2, <2>1, <2>2, <2>3
  <1>10. ASSUME NEW faults \in SUBSET PreflightFaults, CollectPreflight(faults)
        PROVE  GatesInv'
    <2>1. packet.at = "canary_plan" /\ Next1("canary_plan", PreflightCollector(packet, faults), {})
      BY <1>10 DEF CollectPreflight, Next1
    <2>2. packet \in CanaryPlanPackets /\ "canary_plan" \in SidecarStages
      BY <1>1, <2>1, GivenDeclared DEF PacketsOf, SidecarStages
    <2>3. StageOK(packet, PreflightCollector(packet, faults), {})
      BY <1>10, <2>2, CollectorStage
    <2> QED BY <1>2, <2>1, <2>2, <2>3
  <1>11. CASE ReviewChain
    <2>1. packet.at = "preflight_collector" /\ Next1("preflight_collector", ChainReview(packet), {})
      BY <1>11 DEF ReviewChain, Next1
    <2>2. packet \in CollectorPackets /\ "preflight_collector" \in SidecarStages
      BY <1>1, <2>1, GivenDeclared DEF PacketsOf, SidecarStages
    <2>3. StageOK(packet, ChainReview(packet), {})
      BY <2>2, ChainReviewStage
    <2> QED BY <1>2, <2>1, <2>2, <2>3
  <1>12. CASE RequestStart
    <2>1. packet.at = "chain_review" /\ Next1("chain_review", StartApprovalRequest(packet), {})
      BY <1>12 DEF RequestStart, Next1
    <2>2. packet \in ChainReviewPackets /\ "chain_review" \in SidecarStages
      BY <1>1, <2>1, GivenDeclared DEF PacketsOf, SidecarStages
    <2>3. StageOK(packet, StartApprovalRequest(packet), {})
      BY <2>2, StartRequestStage
    <2> QED BY <1>2, <2>1, <2>2, <2>3
  <1>13. CASE ApproveRuntimePreflight
    <2>1. packet.at = "invocation_rehearsal" /\ Next1("invocation_rehearsal", RuntimePreflightApproval(packet), {})
      BY <1>13 DEF ApproveRuntimePreflight, Next1
    <2>2. packet \in InvocationPackets /\ "invocation_rehearsal" \in SidecarStages
      BY <1>1, <2>1, GivenDeclared DEF PacketsOf, SidecarStages
    <2>3. StageOK(packet, RuntimePreflightApproval(packet), {})
      BY <2>2, RuntimePreflightStage
    <2> QED BY <1>2, <2>1, <2>2, <2>3
  <1>14. CASE HandToAdapter
    <2>1. packet.at = "runtime_preflight" /\ Next1("runtime_preflight", AdapterHandoff(packet), {})
      BY <1>14 DEF HandToAdapter, Next1
    <2>2. packet \in RuntimePreflightPackets /\ "runtime_preflight" \in SidecarStages
      BY <1>1, <2>1, GivenDeclared DEF PacketsOf, SidecarStages
    <2>3. StageOK(packet, AdapterHandoff(packet), {})
      BY <2>2, AdapterHandoffStage
    <2> QED BY <1>2, <2>1, <2>2, <2>3
  <1>15. CASE TabulateReview
    <2>1. packet.at = "adapter_handoff" /\ Next1("adapter_handoff", OperatorReviewTable(packet), {})
      BY <1>15 DEF TabulateReview, Next1
    <2>2. packet \in HandoffApprovalPackets /\ "adapter_handoff" \in SidecarStages
      BY <1>1, <2>1, GivenDeclared DEF PacketsOf, SidecarStages
    <2>3. StageOK(packet, OperatorReviewTable(packet), {})
      BY <2>2, ReviewTableStage
    <2> QED BY <1>2, <2>1, <2>2, <2>3
  <1>16. ASSUME NEW records \in DecisionSets, IngestReviewDecision(records)
        PROVE  GatesInv'
    <2>1. packet.at = "review_table" /\ Next1("review_table", ReviewDecision(packet, records), Answered(records, "review_approved"))
      BY <1>16 DEF IngestReviewDecision, Next1
    <2>2. packet \in ReviewTablePackets /\ "review_table" \in SidecarStages
      BY <1>1, <2>1, GivenDeclared DEF PacketsOf, SidecarStages
    <2>3. StageOK(packet, ReviewDecision(packet, records), Answered(records, "review_approved"))
      BY <1>16, <2>2, ReviewDecisionStage
    <2> QED BY <1>2, <2>1, <2>2, <2>3
  <1>17. CASE ProposeGrant
    <2>1. packet.at = "review_decision" /\ Next1("review_decision", GrantProposal(packet), {})
      BY <1>17 DEF ProposeGrant, Next1
    <2>2. packet \in ReviewDecisionPackets /\ "review_decision" \in SidecarStages
      BY <1>1, <2>1, GivenDeclared DEF PacketsOf, SidecarStages
    <2>3. StageOK(packet, GrantProposal(packet), {})
      BY <2>2, GrantProposalStage
    <2> QED BY <1>2, <2>1, <2>2, <2>3
  <1>18. ASSUME NEW records \in DecisionSets, IngestGrantEvidence(records)
        PROVE  GatesInv'
    <2>1. packet.at = "grant_proposal" /\ Next1("grant_proposal", GrantEvidence(packet, records), Answered(records, "grant_approved"))
      BY <1>18 DEF IngestGrantEvidence, Next1
    <2>2. packet \in GrantProposalPackets /\ "grant_proposal" \in SidecarStages
      BY <1>1, <2>1, GivenDeclared DEF PacketsOf, SidecarStages
    <2>3. StageOK(packet, GrantEvidence(packet, records), Answered(records, "grant_approved"))
      BY <1>18, <2>2, GrantEvidenceStage
    <2> QED BY <1>2, <2>1, <2>2, <2>3
  <1>19. CASE ReviewExecutionGate
    <2>1. packet.at = "grant_evidence" /\ Next1("grant_evidence", ExecutionGateFinalReview(packet), {})
      BY <1>19 DEF ReviewExecutionGate, Next1
    <2>2. packet \in GrantEvidencePackets /\ "grant_evidence" \in SidecarStages
      BY <1>1, <2>1, GivenDeclared DEF PacketsOf, SidecarStages
    <2>3. StageOK(packet, ExecutionGateFinalReview(packet), {})
      BY <2>2, FinalReviewStage
    <2> QED BY <1>2, <2>1, <2>2, <2>3
  <1>20. CASE DraftDispatch
    <2>1. packet.at = "final_review" /\ Next1("final_review", DispatchRequestDraft(packet), {})
      BY <1>20 DEF DraftDispatch, Next1
    <2>2. packet \in FinalReviewPackets /\ "final_review" \in SidecarStages
      BY <1>1, <2>1, GivenDeclared DEF PacketsOf, SidecarStages
    <2>3. StageOK(packet, DispatchRequestDraft(packet), {})
      BY <2>2, DispatchDraftStage
    <2> QED BY <1>2, <2>1, <2>2, <2>3
  <1>21. ASSUME NEW runtime \in RuntimeEvidence, NEW intact \in BOOLEAN, Seal(runtime, intact)
        PROVE  GatesInv'
    <2>1. packet.at = "dispatch_draft" /\ Next1("dispatch_draft", PreflightSeal(packet, runtime, intact), {})
      BY <1>21 DEF Seal, Next1
    <2>2. packet \in DispatchDraftPackets /\ "dispatch_draft" \in SidecarStages
      BY <1>1, <2>1, GivenDeclared DEF PacketsOf, SidecarStages
    <2>3. StageOK(packet, PreflightSeal(packet, runtime, intact), {})
      BY <1>21, <2>2, SealStage
    <2> QED BY <1>2, <2>1, <2>2, <2>3
  <1>22. CASE Relabel
    BY <1>1, <1>22, RelabelKeeps, SidecarStepKeeps
  <1>23. ASSUME NEW f \in FlagsOf(packet), Edit(f) PROVE GatesInv'
    BY <1>1, <1>23, EditKeeps, SidecarStepKeeps
  <1> QED
    BY <1>3, <1>4, <1>5, <1>6, <1>7, <1>8, <1>9, <1>10, <1>11, <1>12, <1>13,
       <1>14, <1>15, <1>16, <1>17, <1>18, <1>19, <1>20, <1>21, <1>22, <1>23,
       CloseoutNextKeeps DEF Next

(* What the invariant says in the terms of the runs.                       *)
LEMMA GatesInvImplies == GatesInv => ReadyIsProven /\ ForgedNeverReady
  <1> SUFFICES ASSUME GatesInv PROVE ReadyIsProven /\ ForgedNeverReady
    OBVIOUS
  <1>1. past \subseteq Chain
    BY DEF GatesInv, CloseoutInv, SidecarInv, SidecarPast, Chain
  <1>2. CloseoutTypeOK
    BY DEF GatesInv, CloseoutInv, CloseoutTypeOK, CloseoutDeclared, RehearsalOK
  <1>3. ASSUME packet.at \in DOMAIN DoneState
        PROVE  \/ packet \in DryRunGatePackets \/ packet \in ActivationApprovalPackets
               \/ packet \in ActivationReceiptPackets \/ packet \in StartReceiptPackets
               \/ packet \in StartGatePackets \/ packet \in InvocationPackets
               \/ packet \in CanaryPlanPackets \/ packet \in CollectorPackets
               \/ packet \in ChainReviewPackets \/ packet \in StartRequestPackets
               \/ packet \in RuntimePreflightPackets \/ packet \in HandoffApprovalPackets
               \/ packet \in ReviewTablePackets \/ packet \in ReviewDecisionPackets
               \/ packet \in GrantProposalPackets \/ packet \in GrantEvidencePackets
               \/ packet \in FinalReviewPackets \/ packet \in DispatchDraftPackets
               \/ packet \in SealPackets
    <2>1. packet.at \in SidecarStages /\ packet \in PacketsOf[packet.at]
      BY <1>3, StageDomain DEF GatesInv, SidecarInv
    <2> QED BY <2>1 DEF SidecarStages, PacketsOf
  <1>4. TypeOK
    BY <1>1, <1>2, <1>3 DEF TypeOK
  <1>5. SealIsApproved
    BY DEF GatesInv, SidecarInv, SidecarStages, SealIsApproved, Needed
  <1>6. ForgedNeverReady
    BY DEF GatesInv, CloseoutInv, SidecarInv, ForgedNeverReady
  <1> QED BY <1>4, <1>5, <1>6 DEF ReadyIsProven, GatesInv, CloseoutInv

\* Both chains keep the invariant: what a packet says of itself, what it was
\* built from and what was really shown agree at every stage.
THEOREM GatesInvHolds == Spec => []GatesInv
  <1>1. Init => GatesInv
    <2> SUFFICES ASSUME Init PROVE GatesInv
      OBVIOUS
    <2>1. CloseoutInv /\ packet = NoPacket
      BY CloseoutInitially DEF Init, CloseoutInit
    <2> QED BY <2>1 DEF GatesInv, SidecarInv, NoPacket, Packet, None, SidecarStages
  <1>2. GatesInv /\ [Next]_closeoutVars => GatesInv'
    <2>1. ASSUME GatesInv, UNCHANGED closeoutVars PROVE GatesInv'
      BY <2>1 DEF closeoutVars, GatesInv, CloseoutInv, SidecarInv, FinalizerReadyIsProven, Proven
    <2> QED BY <2>1, StagesKeep
  <1> QED BY <1>1, <1>2, PTL DEF Spec

\* Whatever the workers, the events of a round and the records supplied: both
\* chains report only states their packets declare, a packet handed on says
\* ready only on what it needs, and a ready status or a sealed envelope
\* stands for a round that is over, seen, granted and contradicted by no one
\* (terminal-brief-finalizer-approval-status, -sidecar-*).
THEOREM ReadyIsProvenHolds == Spec => []ReadyIsProven
  BY GatesInvHolds, GatesInvImplies, PTL

\* A packet edited to permit an execution, a send or an acknowledgement, or
\* relabelled as ready, has no ready descendant, at any stage and after any
\* number of further steps (buildSourceBlockers of every stage).
THEOREM ForgedNeverReadyHolds == Spec => []ForgedNeverReady
  BY GatesInvHolds, GatesInvImplies, PTL
=============================================================================
