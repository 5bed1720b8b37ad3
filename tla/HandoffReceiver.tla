--------------------------- MODULE HandoffReceiver ---------------------------
(***************************************************************************)
(* The receiver of handoffs from another broker (github/handoff-           *)
(* receiver.ts): a comment carries a manifest and /a2a assign commands;    *)
(* each command becomes a task whose id is made of the manifest's key, so  *)
(* that a comment delivered again, or again after a worker was registered, *)
(* finds the tasks it has made.  Keys name comments: the body of a key     *)
(* does not change.                                                        *)
(***************************************************************************)
EXTENDS Naturals, Sequences, FiniteSets

CONSTANTS Handoffs,       \* key -> [ours, explicit, targets]: the comment's contents
          HomeWorkers     \* workers that register here; any other target is unknown, or
                          \* its metadata names another broker or team

\* Manifests: ours is FALSE when brokerOfRecord, requestedByBroker or targetTeam
\* is another's; explicit is targetTaskId, or "".
Keys == DOMAIN Handoffs

ASSUME HandoffAssumption ==
  \A k \in Keys : Handoffs[k] \in [ours : BOOLEAN, explicit : STRING, targets : Seq(STRING)]

VARIABLES hrRegistered,  \* home workers registered so far
          hrTasks,       \* task id -> [worker, status]
          hrMade,        \* history: key -> command index -> calls of createTask for it
          hrAnswer       \* the last receive: key, accepted, replayed, evidence

hrVars == <<hrRegistered, hrTasks, hrMade, hrAnswer>>

\* Mutant: a task that has ended is asked for again under a new id.
TaskIdPerAttempt(key, index) ==
  LET h == Handoffs[key]
  IN IF h.explicit # "" /\ Len(h.targets) = 1 THEN <<h.explicit>>
     ELSE <<"handoff", key, h.targets[index], index, hrMade[key][index]>>

TaskIdForHandoff(key, index) ==
  LET h == Handoffs[key]
  IN IF h.explicit # "" /\ Len(h.targets) = 1 THEN <<h.explicit>>
     ELSE <<"handoff", key, h.targets[index], index>>

\* The commands before the first whose worker is unknown or another broker's.
Reached(key) ==
  {i \in DOMAIN Handoffs[key].targets :
     \A j \in 1..i : Handoffs[key].targets[j] \in hrRegistered}

ToEvidenceStatus(status) ==
  CASE status = "running"      -> "running"
    [] status = "succeeded"    -> "done"
    [] status = "succeeded_pr" -> "pr-open"
    [] status = "failed"       -> "blocked"    \* and "canceled", "blocked"
    [] OTHER                   -> "accepted"

AllReached(key) == Reached(key) = DOMAIN Handoffs[key].targets /\ Reached(key) # {}

\* receive.  A refused manifest changes nothing; a refused worker leaves the
\* tasks of the commands before it.
Receive(key) ==
  /\ Handoffs[key].ours
  /\ LET h == Handoffs[key]
         id(i) == TaskIdForHandoff(key, i)
         made == {i \in Reached(key) : /\ id(i) \notin DOMAIN hrTasks
                                       /\ \A j \in 1..(i - 1) : id(j) # id(i)}
         after == [t \in (DOMAIN hrTasks) \cup {id(i) : i \in made} |->
                     IF t \in DOMAIN hrTasks THEN hrTasks[t]
                     ELSE [worker |-> h.targets[CHOOSE i \in made : id(i) = t],
                           status |-> "queued"]]
     IN /\ hrTasks' = after
        /\ hrMade' = [hrMade EXCEPT ![key] =
                        [i \in DOMAIN h.targets |-> IF i \in made THEN @[i] + 1 ELSE @[i]]]
        /\ hrAnswer' = IF AllReached(key)
                       THEN [key |-> key, accepted |-> TRUE, replayed |-> made # Reached(key),
                             evidence |-> [i \in DOMAIN h.targets |->
                                             <<id(i), after[id(i)].worker,
                                               ToEvidenceStatus(after[id(i)].status)>>]]
                       ELSE [key |-> key, accepted |-> FALSE, replayed |-> FALSE,
                             evidence |-> <<>>]
  /\ UNCHANGED hrRegistered

\* External: a home worker registers, and the broker's tasks go their way.
HandoffRegister(w) ==
  /\ w \notin hrRegistered
  /\ hrRegistered' = hrRegistered \cup {w}
  /\ UNCHANGED <<hrTasks, hrMade, hrAnswer>>

HandoffTaskMoves(t) ==
  /\ \/ hrTasks[t].status = "queued" /\ \E s \in {"running", "failed"} :
          hrTasks' = [hrTasks EXCEPT ![t].status = s]
     \/ hrTasks[t].status = "running" /\ \E s \in {"succeeded", "succeeded_pr"} :
          hrTasks' = [hrTasks EXCEPT ![t].status = s]
  /\ UNCHANGED <<hrRegistered, hrMade, hrAnswer>>

HandoffInit ==
  /\ hrRegistered = {}
  /\ hrTasks = [t \in {} |-> t]
  /\ hrMade = [k \in Keys |-> [i \in DOMAIN Handoffs[k].targets |-> 0]]
  /\ hrAnswer = [key |-> "", accepted |-> FALSE, replayed |-> FALSE, evidence |-> <<>>]

HandoffNext ==
  \/ \E k \in Keys : Receive(k)
  \/ \E w \in HomeWorkers : HandoffRegister(w)
  \/ \E t \in DOMAIN hrTasks : HandoffTaskMoves(t)

HandoffSpec == HandoffInit /\ [][HandoffNext]_hrVars

----------------------------------------------------------------------------
\* However often a comment is delivered, before and after its workers have
\* registered and whatever has become of its tasks, each of its commands
\* makes at most one task (receive and taskIdForHandoff).
CommandsRunOnce ==
  \A k \in Keys : \A i \in DOMAIN Handoffs[k].targets : hrMade[k][i] <= 1

\* An accepted handoff answers with a task of its own for every command, on
\* the worker the command names, also when two commands name the same worker
\* and when earlier deliveries had stopped half way.  A handoff with an
\* explicit targetTaskId may share that task.
AnswerNamesEachCommand ==
  hrAnswer.accepted /\ Handoffs[hrAnswer.key].explicit = "" =>
    LET e == hrAnswer.evidence
    IN /\ \A i \in DOMAIN e : e[i][2] = Handoffs[hrAnswer.key].targets[i]
       /\ \A i, j \in DOMAIN e : e[i][1] = e[j][1] => i = j
       /\ \A i \in DOMAIN e : hrMade[hrAnswer.key][i] = 1

\* Delivered any number of times, a handoff makes one task per command and its
\* answer names them.
HandoffsIdempotent == CommandsRunOnce /\ AnswerNamesEachCommand
=============================================================================
