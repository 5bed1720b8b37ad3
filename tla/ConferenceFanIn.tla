-------------------------- MODULE ConferenceFanIn ---------------------------
(***************************************************************************)
(* ConferenceFanIn of src/core/conference-fan-in.ts: participants join,    *)
(* contribute, go idle, leave, are blocked or time out, in any order and   *)
(* with timestamps of their own, and the quorum verdict is recomputed from *)
(* the participants and contributions after every call.  Time is a small   *)
(* number; summaries, categories and transcripts are left out.             *)
(***************************************************************************)
EXTENDS Integers, FiniteSets

CONSTANTS
  Members,         \* nodes that may join
  Chair,           \* the one that joins as chair; the others are reviewers
  Times,           \* timestamps callers use
  IdleTimeout,     \* idleTimeoutMs
  MinQuorum,       \* minQuorum
  RequireChair,    \* requireChairContribution
  MaxContributions,\* maxContributionsPerParticipant
  MaxSeq           \* bound on the mutations of a behavior

VARIABLES
  parts,     \* node -> [status, lastActive], or Absent
  contribs,  \* idempotency keys of the accepted contributions: <<node, id>>
  seq,       \* mutations so far
  lastAt     \* lastDecisionAt

fiVars == <<parts, contribs, seq, lastAt>>

Absent == [status |-> "absent", lastActive |-> 0]
Statuses == {"joined", "contributing", "idle", "left", "blocked", "timed_out"}
TerminalStatuses == {"left", "blocked", "timed_out"}
SettledStatuses == {"idle", "left", "blocked", "timed_out"}

Present(ps) == {n \in Members : ps[n] # Absent}
With(ps, status) == {n \in Present(ps) : ps[n].status = status}
HasContribution(n) == \E c \in contribs : c[1] = n
IsTimeoutEligible(p) == p.status \notin TerminalStatuses \cup {"idle"}
TimedOutAt(p, at) == IsTimeoutEligible(p) /\ at - p.lastActive >= IdleTimeout

\* Mutant: the preview also times out those already idle.
EffectiveParticipantsIdleToo(ps, at) ==
  [n \in Members |-> IF ps[n] # Absent /\ ps[n].status \notin TerminalStatuses
                        /\ at - ps[n].lastActive >= IdleTimeout
                     THEN [status |-> "timed_out", lastActive |-> at] ELSE ps[n]]

\* The participants as they are once the timeouts due at `at' are applied.
EffectiveParticipants(ps, at) ==
  [n \in Members |-> IF ps[n] # Absent /\ TimedOutAt(ps[n], at)
                     THEN [status |-> "timed_out", lastActive |-> at] ELSE ps[n]]

IsSettledForReady(p, n) ==
  \/ p.status \in SettledStatuses
  \/ HasContribution(n) /\ p.status # "contributing"

\* computeVerdict: the decision, and a word for the branch that took it.
ComputeVerdict(ps) ==
  LET present   == Present(ps)
      available == {n \in present : ps[n].status \notin TerminalStatuses}
  IN  CASE present = {} -> <<"waiting", "empty">>
        [] RequireChair /\ Chair \notin present -> <<"blocked", "no_chair">>
        [] With(ps, "blocked") # {} -> <<"blocked", "blocked">>
        [] With(ps, "timed_out") # {} -> <<"blocked", "timed_out">>
        [] Cardinality(available) < MinQuorum /\ With(ps, "left") # {} -> <<"failed", "quorum">>
        [] Cardinality(available) < MinQuorum -> <<"waiting", "quorum">>
        [] contribs = {} -> <<"waiting", "no_contribution">>
        [] RequireChair /\ ~HasContribution(Chair) -> <<"waiting", "chair">>
        [] \E n \in available : ~IsSettledForReady(ps[n], n) -> <<"waiting", "awaiting">>
        [] OTHER -> <<"ready", "ready">>

----------------------------------------------------------------------------
RecordMutation(at) ==
  /\ seq < MaxSeq
  /\ seq' = seq + 1
  /\ lastAt' = IF at >= lastAt THEN at ELSE lastAt

\* A node that joins again starts over; its contributions stay.
JoinParticipant(n, at) ==
  /\ parts' = [parts EXCEPT ![n] = [status |-> "joined", lastActive |-> at]]
  /\ RecordMutation(at)
  /\ UNCHANGED contribs

\* updateParticipant and markContributing; nothing happens for an unknown node.
UpdateParticipant(n, status, at) ==
  /\ parts[n] # Absent
  /\ parts' = [parts EXCEPT ![n] = [status |-> status, lastActive |-> at]]
  /\ RecordMutation(at)
  /\ UNCHANGED contribs

Reconciled(ps, at) ==
  LET due == {n \in Present(ps) : TimedOutAt(ps[n], at)}
  IN  [n \in Members |-> IF n \in due THEN [status |-> "timed_out", lastActive |-> at]
                         ELSE ps[n]]

ReconcileTimeouts(at) ==
  /\ Reconciled(parts, at) # parts
  /\ parts' = Reconciled(parts, at)
  /\ RecordMutation(at)
  /\ UNCHANGED contribs

\* Accepted whatever the participant's status: even one that left or timed out.
AddContribution(n, id, at) ==
  /\ <<n, id>> \notin contribs
  /\ parts[n] # Absent
  /\ Cardinality({c \in contribs : c[1] = n}) < MaxContributions
  /\ contribs' = contribs \cup {<<n, id>>}
  /\ parts' = [parts EXCEPT ![n] = [status |-> "contributing", lastActive |-> at]]
  /\ RecordMutation(at)

Reset ==
  /\ seq > 0
  /\ parts' = [n \in Members |-> Absent]
  /\ contribs' = {} /\ seq' = 0 /\ lastAt' = 0

FanInInit ==
  /\ parts = [n \in Members |-> Absent]
  /\ contribs = {} /\ seq = 0 /\ lastAt = 0

FanInNext ==
  \/ \E n \in Members, at \in Times :
       \/ JoinParticipant(n, at)
       \/ \E status \in Statuses : UpdateParticipant(n, status, at)
       \/ \E id \in 1..2 : AddContribution(n, id, at)
  \/ \E at \in Times : ReconcileTimeouts(at)
  \/ Reset

FanInSpec == FanInInit /\ [][FanInNext]_fiVars

----------------------------------------------------------------------------
\* The verdict a caller previews for a later time (currentVerdict(asOf), which
\* applies the timeouts to copies) is the one reconcileTimeouts leaves behind
\* at that time, although the two apply the idle timeout in separate code.
PreviewAgrees ==
  \A at \in Times :
    ComputeVerdict(EffectiveParticipants(parts, at)) = ComputeVerdict(Reconciled(parts, at))

=============================================================================
