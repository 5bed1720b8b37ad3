---------------------------- MODULE DelegatedRun ----------------------------
(***************************************************************************)
(* DelegatedRunRuntime of src/core/delegated-runtime.ts: start() creates a *)
(* broker task, and after the await builds a ManagedRun from the record    *)
(* the call returned; the run follows the task's updates, its own timeout, *)
(* an abort signal and cancel requests, and settles a promise once.        *)
(* The broker behind the BrokerTaskBridge is external: its task moves on   *)
(* its own and it queues one update per change to a subscriber.            *)
(***************************************************************************)
EXTENDS Naturals, Sequences

CONSTANT HasTimeout   \* options.timeoutMs is set

ASSUME HasTimeoutTyped == HasTimeout \in BOOLEAN

VARIABLES
  task,       \* status of the broker's task, "none" before createTask
  given,      \* status in the record createTask returned
  run,        \* ManagedRun.state, "none" before the constructor
  subscribed, \* unsubscribe is set
  timer,      \* timeoutTimer is set
  aborted,    \* the abort signal fired
  updates,    \* updates on their way to the listener
  cancelling, \* bridge.cancelTask calls whose promise is pending
  resolved    \* calls of resolveFn

drVars == <<task, given, run, subscribed, timer, aborted, updates, cancelling, resolved>>

TaskEnds == {"succeeded", "failed", "canceled"}
IsTerminal(s) == s \in {"completed", "canceled", "timed_out", "failed"}

RunStateOf(status) ==
  CASE status \in {"claimed", "running"} -> "running"
    [] status = "succeeded" -> "completed"
    [] status = "failed"    -> "failed"
    [] status = "canceled"  -> "canceled"
    [] OTHER                -> "waiting"

\* settle, with cleanup: the first settlement wins.
Settle(final) ==
  IF IsTerminal(run) THEN UNCHANGED <<run, subscribed, timer, resolved>>
  ELSE /\ run' = final
       /\ resolved' = resolved + 1
       /\ subscribed' = FALSE /\ timer' = FALSE

\* An idempotent create may return a task that has already ended.
CreateDelegatedTask(status) ==
  /\ task = "none"
  /\ task' = status /\ given' = status
  /\ UNCHANGED <<run, subscribed, timer, aborted, updates, cancelling, resolved>>

\* The broker's task changes; a subscriber is told.
BrokerMovesTask(status) ==
  /\ task \in {"queued", "claimed", "running"}
  /\ status \in CASE task = "queued"  -> {"claimed", "canceled"}
                  [] task = "claimed" -> {"running", "failed", "canceled"}
                  [] OTHER            -> TaskEnds
  /\ task' = status
  /\ updates' = IF subscribed THEN Append(updates, status) ELSE updates
  /\ UNCHANGED <<given, run, subscribed, timer, aborted, cancelling, resolved>>

\* Mutant: no timer for a task that has already started.
ConstructTimerIfQueued ==
  /\ run = "none" /\ given # "none"
  /\ IF given \in TaskEnds
     THEN /\ run' = RunStateOf(given) /\ resolved' = 1
          /\ UNCHANGED <<subscribed, timer>>
     ELSE IF aborted
     THEN /\ run' = "canceled" /\ resolved' = 1
          /\ UNCHANGED <<subscribed, timer>>
     ELSE /\ run' = "waiting" /\ subscribed' = TRUE /\ timer' = (HasTimeout /\ given = "queued")
          /\ UNCHANGED resolved
  /\ UNCHANGED <<task, given, aborted, updates, cancelling>>

\* The constructor, after the await in start(): it looks at the record it was
\* given, not at the task as it is now.
Construct ==
  /\ run = "none" /\ given # "none"
  /\ IF given \in TaskEnds
     THEN /\ run' = RunStateOf(given) /\ resolved' = 1
          /\ UNCHANGED <<subscribed, timer>>
     ELSE IF aborted
     THEN /\ run' = "canceled" /\ resolved' = 1
          /\ UNCHANGED <<subscribed, timer>>
     ELSE /\ run' = "waiting" /\ subscribed' = TRUE /\ timer' = HasTimeout
          /\ UNCHANGED resolved
  /\ UNCHANGED <<task, given, aborted, updates, cancelling>>

\* An update may arrive after the run has settled.
OnTaskUpdate ==
  /\ updates # <<>> /\ run # "none"
  /\ updates' = Tail(updates)
  /\ LET to == RunStateOf(Head(updates))
     IN  IF IsTerminal(to) THEN Settle(to)
         ELSE /\ run' = IF IsTerminal(run) \/ to = "waiting" THEN run ELSE to
              /\ UNCHANGED <<subscribed, timer, resolved>>
  /\ UNCHANGED <<task, given, aborted, cancelling>>

RunTimesOut ==
  /\ timer /\ run # "none"
  /\ Settle("timed_out")
  /\ UNCHANGED <<task, given, aborted, updates, cancelling>>

Abort ==
  /\ ~aborted /\ aborted' = TRUE
  /\ IF run = "none" THEN UNCHANGED <<run, subscribed, timer, resolved>>
     ELSE Settle("canceled")
  /\ UNCHANGED <<task, given, updates, cancelling>>

\* requestCancel: the bridge call throws, or its promise is pending.
RequestCancel(throws) ==
  /\ run # "none" /\ ~IsTerminal(run) /\ ~cancelling
  /\ IF throws THEN Settle("canceled") /\ UNCHANGED cancelling
     ELSE cancelling' = TRUE /\ UNCHANGED <<run, subscribed, timer, resolved>>
  /\ UNCHANGED <<task, given, aborted, updates>>

\* The pending call reaches the broker, which cancels a task that has not ended.
CancelArrives ==
  /\ cancelling /\ cancelling' = FALSE
  /\ IF task \in TaskEnds THEN Settle("canceled") /\ UNCHANGED <<task, updates>>
     ELSE /\ task' = "canceled"
          /\ updates' = IF subscribed THEN Append(updates, "canceled") ELSE updates
          /\ UNCHANGED <<run, subscribed, timer, resolved>>
  /\ UNCHANGED <<given, aborted>>

\* The pending call is rejected.
CancelFails ==
  /\ cancelling /\ cancelling' = FALSE
  /\ Settle("canceled")
  /\ UNCHANGED <<task, given, aborted, updates>>

DelegatedInit ==
  /\ task = "none" /\ given = "none" /\ run = "none"
  /\ subscribed = FALSE /\ timer = FALSE /\ aborted = FALSE
  /\ updates = <<>> /\ cancelling = FALSE /\ resolved = 0

DelegatedNext ==
  \/ \E s \in {"queued", "claimed", "running"} \cup TaskEnds : CreateDelegatedTask(s)
  \/ \E s \in {"claimed", "running"} \cup TaskEnds : BrokerMovesTask(s)
  \/ Construct \/ OnTaskUpdate \/ RunTimesOut \/ Abort
  \/ \E throws \in BOOLEAN : RequestCancel(throws)
  \/ CancelArrives \/ CancelFails

DelegatedSpec == DelegatedInit /\ [][DelegatedNext]_drVars

----------------------------------------------------------------------------
\* The promise behind wait() is resolved exactly when the run is terminal, once,
\* and nothing is left behind: no subscription and no timer (settle, cleanup).
SettledOnce ==
  /\ resolved = IF IsTerminal(run) THEN 1 ELSE 0
  /\ IsTerminal(run) => ~subscribed /\ ~timer

\* A run that says its task completed or failed says what became of the task;
\* only a cancellation or a timeout may end the run without the task.
OutcomeIsTheTasks ==
  /\ run = "completed" => task = "succeeded"
  /\ run = "failed" => task = "failed"

\* With a timeout, a started run that has not settled holds the timer that will
\* settle it, also when its task ended in the gap between createTask's answer and
\* the subscription, so that no update will ever come.
UnsettledHasTimer == HasTimeout /\ run # "none" /\ ~IsTerminal(run) => timer

\* A delegated run ends well: its promise is resolved once, with what became of
\* the task, and until then a timer guards it, however updates, timeout, abort,
\* cancel and the gap after createTask interleave.
RunSettles == SettledOnce /\ OutcomeIsTheTasks /\ UnsettledHasTimer
=============================================================================
