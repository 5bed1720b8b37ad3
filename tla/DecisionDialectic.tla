------------------------- MODULE DecisionDialectic -------------------------
(***************************************************************************)
(* A decision.dialectic round (decision-dialectic/execution.ts and its     *)
(* routes in server.ts): the payload of a broker task holds the round;     *)
(* "advance" asks the agent of the next missing phase by a child task that *)
(* carries a copy of the round, "patch" appends one phase at the revision  *)
(* its author saw.  A route handler runs to its end once the body is read. *)
(***************************************************************************)
EXTENDS Naturals, FiniteSets

CONSTANTS ThesisAgent, AntithesisAgent, SynthAgent,
          RebuttalAgent   \* roles.rebuttalAgent, or NoAgent

NoAgent == "nobody"
Verdicts == {"PROCEED", "PROCEED_WITH_GUARDRAILS", "WAIT", "ABSTAIN", "VETO"}
Phases == <<"thesis", "antithesis", "rebuttal", "synthesis", "outcome">>
Agents == {ThesisAgent, AntithesisAgent, SynthAgent, RebuttalAgent} \ {NoAgent}

VARIABLES ddRound,   \* the contract: phases submitted, revision, state, phase, ...
          ddKids,    \* phase -> expectedRevision of its child task, or NoChild
          ddDraft,   \* a patch its author still has to send, or send again
          ddSaw      \* history: phase -> the phases its author had before him

ddVars == <<ddRound, ddKids, ddDraft, ddSaw>>

PhaseSet == {Phases[i] : i \in DOMAIN Phases}
NoChild == 9
NoDraft == [op |-> "none"]

\* nextDecisionDialecticPhase over the phases submitted.
NextPhase(filled) ==
  IF filled = PhaseSet THEN "none"
  ELSE Phases[CHOOSE i \in DOMAIN Phases :
                /\ Phases[i] \notin filled
                /\ \A j \in 1..(i - 1) : Phases[j] \in filled]

\* phaseAgent, and the author a patch must have; an outcome has no assertAuthor.
PhaseAgent(phase) ==
  CASE phase = "thesis"     -> ThesisAgent
    [] phase = "antithesis" -> AntithesisAgent
    [] phase = "rebuttal"   -> IF RebuttalAgent = NoAgent THEN ThesisAgent ELSE RebuttalAgent
    [] OTHER                -> SynthAgent

StateForVerdict(verdict) ==
  CASE verdict = "WAIT"    -> "WAITING"
    [] verdict = "ABSTAIN" -> "ABSTAINED"
    [] verdict = "VETO"    -> "VETOED"
    [] OTHER               -> "DECISION_ROUTED"

StateAfter(p) ==
  CASE p.op = "thesis"     -> "THESIS_SUBMITTED"
    [] p.op = "antithesis" -> "ANTITHESIS_SUBMITTED"
    [] p.op = "rebuttal"   -> "REBUTTAL_SUBMITTED"
    [] p.op = "synthesis"  -> StateForVerdict(p.action)
    [] p.op = "outcome"    -> "SETTLED"

TerminalDecisionStates == {"DECISION_ROUTED", "ABSTAINED", "VETOED", "SETTLED"}

\* The phases a patch of this op needs (assertPresent).
Prerequisites(op) ==
  CASE op = "thesis"     -> {}
    [] op = "antithesis" -> {"thesis"}
    [] op = "rebuttal"   -> {"antithesis"}
    [] op = "synthesis"  -> {"thesis", "antithesis", "rebuttal"}
    [] op = "outcome"    -> {"synthesis"}

AssertHardVetoPolicy(p) ==
  ddRound.blocker => p.action = "VETO" /\ p.hardVeto

\* Mutant: the revision the author saw is not compared.
PatchAllowedAtAnyRevision(p) ==
  /\ ddRound.state \in TerminalDecisionStates => p.op = "outcome"
  /\ p.op # "outcome" => p.author = PhaseAgent(p.op)
  /\ Prerequisites(p.op) \subseteq ddRound.filled
  /\ p.op \notin ddRound.filled
  /\ p.op = "synthesis" => p.verdict = p.action /\ AssertHardVetoPolicy(p)

\* The early returns of applyDecisionDialecticPatch.
PatchAllowed(p) ==
  /\ p.expectedRevision = ddRound.revision
  /\ ddRound.state \in TerminalDecisionStates => p.op = "outcome"
  /\ p.op # "outcome" => p.author = PhaseAgent(p.op)
  /\ Prerequisites(p.op) \subseteq ddRound.filled
  /\ p.op \notin ddRound.filled
  /\ p.op = "synthesis" =>
       /\ p.verdict = p.action
       /\ p.basis = ddRound.revision
       /\ AssertHardVetoPolicy(p)
  /\ p.op = "outcome" => p.basis = ddRound.revision

\* The round after the patch, and the contract the route stores with it.
ApplyPatch(p) ==
  LET filled == ddRound.filled \cup {p.op}
  IN [ddRound EXCEPT !.filled = filled, !.revision = @ + 1, !.state = StateAfter(p),
                     !.blocker = @ \/ p.blocker,
                     !.decision = IF p.op = "synthesis" THEN <<p.action, p.hardVeto>> ELSE @,
                     !.phase = IF NextPhase(filled) = "none" THEN @ ELSE NextPhase(filled)]

\* projectDecisionDialecticReadModel: what the read route and a patch answer.
Stages == [p \in PhaseSet |-> p \in ddRound.filled]
DecisionCard == [present |-> ddRound.decision # <<>>, decision |-> ddRound.decision]
ReadModel == [revision |-> ddRound.revision, state |-> ddRound.state, phase |-> ddRound.phase,
              stages |-> Stages, card |-> DecisionCard]

----------------------------------------------------------------------------
(* A patch as its author writes it, from a round it has just read or from  *)
(* the copy in its child task.                                             *)

Body(op, author) ==
  [op : {op}, author : {author}, expectedRevision : {ddRound.revision}, basis : {ddRound.revision},
   saw : {ddRound.filled},
   blocker : IF op = "antithesis" THEN BOOLEAN ELSE {FALSE},
   action : IF op = "synthesis" THEN Verdicts ELSE {"PROCEED"},
   verdict : IF op = "synthesis" THEN {"PROCEED", "VETO"} ELSE {"PROCEED"},
   hardVeto : IF op = "synthesis" THEN BOOLEAN ELSE {FALSE}]

\* Only the draft of an author the phase may have can still be accepted.
Compose(op, author) ==
  /\ author = PhaseAgent(op)
  /\ op \notin ddRound.filled
  /\ \E p \in Body(op, author) : ddDraft' = p
  /\ UNCHANGED <<ddRound, ddKids, ddSaw>>

\* POST .../patch.  A refused patch changes nothing; a lost answer is sent again.
Patch(p) ==
  /\ PatchAllowed(p)
  /\ ddRound' = ApplyPatch(p)
  /\ ddSaw' = [ddSaw EXCEPT ![p.op] = p.saw]
  /\ UNCHANGED <<ddKids, ddDraft>>

PatchDraft == ddDraft # NoDraft /\ Patch(ddDraft)
PatchFresh(op, author) == \E p \in Body(op, author) : Patch(p)

\* POST .../advance: createTask with the id taskId:phase:revision, which
\* returns the child that is there when there is one.
Advance(phase) ==
  /\ phase = NextPhase(ddRound.filled)
  /\ ddKids' = [ddKids EXCEPT ![phase] = IF @ = NoChild THEN ddRound.revision ELSE @]
  /\ UNCHANGED <<ddRound, ddDraft, ddSaw>>

DialecticInit ==
  /\ ddRound = [filled |-> {}, revision |-> 0, state |-> "OPEN", phase |-> "thesis",
                blocker |-> FALSE, decision |-> <<>>]
  /\ ddKids = [p \in PhaseSet |-> NoChild]
  /\ ddDraft = NoDraft
  /\ ddSaw = [p \in PhaseSet |-> {}]

DialecticNext ==
  \/ \E op \in PhaseSet, a \in Agents : Compose(op, a) \/ PatchFresh(op, a)
  \/ PatchDraft
  \/ \E p \in PhaseSet : Advance(p)

DialecticSpec == DialecticInit /\ [][DialecticNext]_ddVars

----------------------------------------------------------------------------
\* Each phase of a round was written by an author who had read all earlier
\* phases and nothing else, whatever other patches were under way meanwhile
\* (expectedRevision in applyDecisionDialecticPatch).
SawEarlierPhases ==
  \A i \in DOMAIN Phases :
     Phases[i] \in ddRound.filled => ddSaw[Phases[i]] = {Phases[j] : j \in 1..(i - 1)}

\* Whoever follows a round by its read model is never sent to the wrong
\* author: the stages present are as many as the revision, the phase named is
\* the first that is missing (or the last), and there is a decision card
\* exactly when the state is one a decision has led to (the patch route).
ReadModelNamesNextPhase ==
  LET present == {p \in PhaseSet : ReadModel.stages[p]}
  IN /\ ReadModel.revision = Cardinality(present)
     /\ ReadModel.phase = IF present = PhaseSet THEN "outcome" ELSE NextPhase(present)
     /\ ReadModel.card.present <=> ReadModel.state \in TerminalDecisionStates \cup {"WAITING"}

\* The answer of the child asked for the missing phase is not refused as
\* stale: the child carries the round's current revision
\* (buildDecisionDialecticPhaseTaskRequest).
ChildCanAnswer ==
  LET next == NextPhase(ddRound.filled)
  IN next # "none" /\ ddKids[next] # NoChild => ddKids[next] = ddRound.revision

\* Authors, child tasks and the read model agree on whose turn it is: a phase is
\* written on top of all earlier ones, the child asked for it can answer, and
\* the read model names it.
PhasesInTurn == SawEarlierPhases /\ ChildCanAnswer /\ ReadModelNamesNextPhase
=============================================================================
