---------------------------- MODULE RoundCloseout ----------------------------
(***************************************************************************)
(* The closeout view of a round (github/round-closeout-reconcile.ts): from *)
(* a list of observations of the workers' tasks, in whatever order they    *)
(* were collected, one state per worker of the roster and one for the      *)
(* round.  An operator asks for it while observations still come in, and   *)
(* with any clock.  An observation says whether its task id has the prefix *)
(* and its issue is on the list that select the round.                     *)
(***************************************************************************)
EXTENDS Naturals, Sequences, FiniteSetsExt

CONSTANTS Roster,         \* expectedWorkers
          ExcludedRoster, \* excludedWorkers
          Sightings,      \* the observations that may come in
          RoundFilters,   \* [byPrefix, byIssue]: the filters an operator sets
          RoundClocks,    \* values of nowMs
          StaleAfter,     \* staleAfterMs
          MaxSightings    \* bound: observations of a behavior

VARIABLE seen   \* the observations, in order of collection

rcVars == <<seen>>

RoundTerminal == {"succeeded", "failed", "canceled", "blocked"}
RequiredWorkers == Roster \ ExcludedRoster
NoSighting == [status |-> "none"]

ASSUME SightingsAssumption == \A o \in Sightings : o # NoSighting /\ o.at \in Nat

----------------------------------------------------------------------------
(* Evidence *)

CompletionEvidence(o) == o.evidence \cap {"pr", "done", "block"} # {}
BranchEvidence(o) == "branch" \in o.evidence

----------------------------------------------------------------------------
(* Selection: either filter takes an observation in.  Observations that   *)
(* were selected are a set of places of `seen', read in order.             *)

InRound(f, o) ==
  \/ ~f.byPrefix /\ ~f.byIssue
  \/ f.byPrefix /\ o.prefix
  \/ f.byIssue /\ o.issue

FilterRoundObservations(f, places) == {k \in places : InRound(f, seen[k])}

\* Mutant: the last one collected, whatever its time.
LatestCollected(places, w) ==
  LET mine == {k \in places : seen[k].worker = w}
  IN  IF mine = {} THEN NoSighting ELSE seen[Max(mine)]

\* Worker w's newest after the observation at place k, which replaces one of the
\* same time.
Newer(places, w, k, current) ==
  IF /\ k \in places /\ seen[k].worker = w
     /\ current = NoSighting \/ seen[k].at >= current.at
  THEN seen[k] ELSE current

LatestObservation(places, w) ==
  LET latest[k \in 0..Len(seen)] ==
        IF k = 0 THEN NoSighting ELSE Newer(places, w, k, latest[k - 1])
  IN  latest[Len(seen)]

\* An outbox event as an observation: only ended tasks have one, and the issue
\* list, when it is set, is a condition there.
TerminalPayloadMatchesRound(f, o) ==
  /\ o.status \in RoundTerminal
  /\ f.byIssue => o.issue

FromTerminalOutbox(f) == {k \in DOMAIN seen : TerminalPayloadMatchesRound(f, seen[k])}

----------------------------------------------------------------------------
(* Classification *)

AgeMs(o, now) == IF now > o.at THEN now - o.at ELSE 0

ClassifyWorker(o, now) ==
  CASE o = NoSighting -> "waiting"
    [] o # NoSighting /\ o.status \notin RoundTerminal ->
         IF AgeMs(o, now) >= StaleAfter THEN "stuck" ELSE "waiting"
    [] o # NoSighting /\ o.status = "succeeded" ->
         IF CompletionEvidence(o) THEN "completed" ELSE "missing-evidence"
    [] OTHER ->
         IF CompletionEvidence(o) \/ BranchEvidence(o) THEN "blocked" ELSE "missing-evidence"

ClassifyExitCondition(o) ==
  CASE o.status = "succeeded" /\ "pr" \in o.evidence -> "pr_success"
    [] o.status = "succeeded" /\ "pr" \notin o.evidence ->
         IF "done" \in o.evidence THEN "no_change_done" ELSE "none"
    [] OTHER -> IF CompletionEvidence(o) THEN "no_change_block" ELSE "infra_failure"

SummarizeWorkerStatus(o, state) ==
  IF o.status \in {"failed", "canceled"} THEN "failed"
  ELSE IF "blocked" \in {o.status, state} THEN "blocked"
  ELSE IF state = "completed" THEN "completed" ELSE "pending"

\* The worst of the workers' states names the round's.
ClassifyRoundState(states) ==
  IF "missing-evidence" \in states THEN "needs-evidence"
  ELSE IF "stuck" \in states THEN "stuck"
  ELSE IF "blocked" \in states THEN "blocked"
  ELSE IF "waiting" \in states \/ states = {} THEN "waiting" ELSE "ready"

\* A success that lacks evidence, and a task that has not ended, have no class.
OutcomeClass(o, state) ==
  IF o.status \in RoundTerminal /\ ~(o.status = "succeeded" /\ state = "missing-evidence")
  THEN ClassifyExitCondition(o) ELSE "none"

ReconcileRoundCloseout(f, places, now) ==
  LET scoped == FilterRoundObservations(f, places)
      last == [w \in RequiredWorkers |-> LatestObservation(scoped, w)]
      state == [w \in RequiredWorkers |-> ClassifyWorker(last[w], now)]
  IN [state |-> ClassifyRoundState({state[w] : w \in RequiredWorkers}),
      summaries |-> [w \in RequiredWorkers |-> SummarizeWorkerStatus(last[w], state[w])],
      outcomes |-> [w \in RequiredWorkers |-> OutcomeClass(last[w], state[w])]]

----------------------------------------------------------------------------
Observe(o) == Len(seen) < MaxSightings /\ seen' = Append(seen, o)

RoundInit == seen = <<>>
RoundNext == \E o \in Sightings : Observe(o)

RoundSpec == RoundInit /\ [][RoundNext]_rcVars

----------------------------------------------------------------------------
\* The newest of worker w's observations that the filters take in.
NewestOf(f, places, w) ==
  LET mine == {k \in places : seen[k].worker = w /\ InRound(f, seen[k])}
  IN  {seen[k] : k \in {m \in mine : \A l \in mine : seen[l].at <= seen[m].at}}

\* A round is ready only on the word of each worker's newest task of the round:
\* it succeeded with a PR, Done or Block link, whatever order the observations
\* were collected in and whatever tasks of other rounds say; and the outbox,
\* which knows nothing of tasks that have not ended, answers by the same rule.
ReadyIsEarned ==
  seen # <<>> => \A f \in RoundFilters, now \in RoundClocks : \A places \in {DOMAIN seen, FromTerminalOutbox(f)} :
    ReconcileRoundCloseout(f, places, now).state = "ready" =>
      \A w \in Roster \ ExcludedRoster : \E o \in NewestOf(f, places, w) :
        o.status = "succeeded" /\ o.evidence \cap {"pr", "done", "block"} # {}

\* The lines an operator reads agree: every worker is listed as completed
\* exactly when the round is ready, a class of success goes with a completed
\* worker and a class of failure with a failed or blocked one, and a later
\* clock never makes a round ready.
ViewAgrees ==
  seen # <<>> => \A f \in RoundFilters, now \in RoundClocks : \A places \in {DOMAIN seen, FromTerminalOutbox(f)} :
    LET v == ReconcileRoundCloseout(f, places, now)
    IN /\ v.state = "ready" <=>
            RequiredWorkers # {} /\ \A w \in RequiredWorkers : v.summaries[w] = "completed"
       /\ \A w \in RequiredWorkers :
            /\ v.outcomes[w] \in {"pr_success", "no_change_done"} => v.summaries[w] = "completed"
            /\ v.outcomes[w] \in {"no_change_block", "infra_failure"} =>
                 v.summaries[w] \in {"failed", "blocked"}
       /\ \A later \in RoundClocks : later > now =>
            (ReconcileRoundCloseout(f, places, later).state = "ready" <=> v.state = "ready")

\* The closeout view can be acted on: ready is earned by every worker's newest
\* task, and the lines beside it say the same.
CloseoutTells == ReadyIsEarned /\ ViewAgrees
=============================================================================
