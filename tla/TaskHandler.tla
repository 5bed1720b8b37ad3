----------------------------- MODULE TaskHandler -----------------------------
(***************************************************************************)
(* The task handler a worker starts for each attempt                       *)
(* (scripts/openclaw-a2a-task-handler.mjs): it picks an executor from the  *)
(* task and the environment, starts it, reads what it left on its standard *)
(* output and decides whether the attempt succeeded.  The executor is      *)
(* external: it may end with any exit code and any output.  The links of a *)
(* result are "pr", "done" and "block".                                    *)
(***************************************************************************)
EXTENDS Naturals

CONSTANTS HandlerTasks,   \* [intent, mode, plugin, issue, sourceOnly, links]: tasks in use
          HandlerEnvs,    \* environments in use, see DockerFirstMode
          RunnerReplies,  \* what a docker runner leaves behind
          BridgeReplies   \* what an OpenClaw session leaves behind

(* A handler's input is parsed JSON; an executor ends in one of these ways. *)
ASSUME HandlerAssumption ==
  LET links == SUBSET {"pr", "done", "block"}
  IN /\ HandlerTasks \subseteq [intent : STRING, mode : STRING, plugin : BOOLEAN,
                                issue : BOOLEAN, sourceOnly : BOOLEAN, links : links]
     /\ RunnerReplies \subseteq [exit : {"zero", "nonzero", "killed"},
                                 stdout : {"json", "empty", "garbled"}, ok : BOOLEAN,
                                 leak : BOOLEAN, otherBranch : BOOLEAN, noDiff : BOOLEAN,
                                 links : links]
     /\ BridgeReplies \subseteq [exit : {"zero", "nonzero", "killed", "spawn_failed"},
                                 json : BOOLEAN, links : links]

VARIABLES hdAt,     \* "idle", the executor that runs, or "over"
          hdTask, hdEnv,
          hdReply,  \* what the executor left behind
          hdOut     \* the outcome: an error code or "success", with its links

hdVars == <<hdAt, hdTask, hdEnv, hdReply, hdOut>>

NoHandlerTask == [intent |-> "none"]
NoReply == [exit |-> "none"]
Pending == [code |-> "none", links |-> {}]
Failure(code) == [code |-> code, links |-> {}]
Success(links) == [code |-> "success", links |-> links]

----------------------------------------------------------------------------
(* What the task is.                                                       *)

IsGithubPatchEvidenceTask(t) ==
  t.intent = "propose_patch" /\ t.mode \in {"github-propose-patch", "github-issue-instruction"}

IsGithubReadOnlyEvidenceTask(t) ==
  \/ t.intent = "verify" /\ t.mode = "github-verify"
  \/ t.intent \in {"analyze", "validate_change"} /\ t.mode \in {"github-verify", "read-only-validation"}

IsGithubEvidenceTask(t) == IsGithubPatchEvidenceTask(t) \/ IsGithubReadOnlyEvidenceTask(t)

\* Named by its mode, or marked noLive and sourceOnly under a mode of its own.
IsReadOnlyAnalysisTask(t) ==
  t.intent = "analyze" /\ (t.mode = "analysis-only" \/ t.sourceOnly)

----------------------------------------------------------------------------
(* Which executor it gets.                                                 *)

DockerFirstMode(e) == e.mode = "docker" \/ (e.mode = "auto" /\ e.scope = "all-github")

ShouldUseDockerRunner(t, e) ==
  /\ e.mode # "builtin" /\ IsGithubEvidenceTask(t)
  /\ CASE e.mode = "docker" -> TRUE
       [] e.mode = "auto" /\ e.scope = "all-github" -> ~(e.claudeBlocked /\ e.bridge)
       [] OTHER -> t.plugin

ShouldUseOpenClawBridge(t, e) ==
  /\ IsGithubEvidenceTask(t) /\ e.mode = "auto" /\ e.bridge
  /\ e.scope = "plugin-only" \/ e.claudeBlocked

ShouldUseOpenClawAnalysisBridge(t, e) == IsReadOnlyAnalysisTask(t) /\ e.analysis /\ e.bridge

ExecutorOf(t, e) ==
  IF ShouldUseDockerRunner(t, e) THEN "docker"
  ELSE IF ShouldUseOpenClawBridge(t, e) THEN "bridge"
  ELSE IF ShouldUseOpenClawAnalysisBridge(t, e) THEN "analysis"
  ELSE "builtin"

----------------------------------------------------------------------------
(* What becomes of it.                                                     *)

\* Mutant: the fallback ends every task the way it ends a generic one.
HandleBuiltinAnyTask(t) == Success(t.links \cap {"done", "block"})

\* Without an executor, a GitHub task fails, an analysis echoes the links its
\* payload came with, and any other task is accepted.
HandleBuiltinTask(t) ==
  IF IsGithubEvidenceTask(t) THEN Failure("github_executor_not_configured")
  ELSE IF IsReadOnlyAnalysisTask(t)
       THEN Success(IF "block" \in t.links THEN {"block"} ELSE t.links \cap {"done"})
       ELSE Success({})

\* githubEvidenceFromResponse: one link is kept, in this order.
GithubEvidence(links) ==
  IF "pr" \in links THEN {"pr"}
  ELSE IF "block" \in links THEN {"block"} ELSE links \cap {"done"}

\* An OpenClaw session: a watchdog kills it, it fails, or it says something.
SessionFailure(r) ==
  CASE r.exit = "spawn_failed" -> "spawn_failed"
    [] r.exit = "killed" -> "timeout"
    [] r.exit = "nonzero" -> "failed"
    [] r.exit = "zero" /\ ~r.json -> "no_final_json"
    [] OTHER -> "none"

RunOpenClawBridge(t, r) ==
  IF SessionFailure(r) # "none" THEN Failure(SessionFailure(r))
  ELSE IF GithubEvidence(r.links) = {} THEN Failure("evidence_missing")
  ELSE Success(GithubEvidence(r.links))

RunOpenClawAnalysisBridge(t, r) ==
  IF SessionFailure(r) # "none" THEN Failure(SessionFailure(r)) ELSE Success(r.links \ {"pr"})

\* The checks of a runner that says ok, in their order.
RunnerRefusal(t, r) ==
  IF r.leak THEN "bootstrap_leak"
  ELSE IF r.otherBranch THEN "branch_mismatch"
  ELSE IF IsGithubPatchEvidenceTask(t) /\ r.noDiff THEN "no_diff"
  ELSE IF r.links = {} THEN "evidence_missing"
  ELSE "none"

\* stdout is parsed before the exit code is looked at: output that is no JSON
\* throws, and may fall back to the builtin handler.
RunDockerRunner(t, e, r) ==
  CASE r.stdout = "garbled" ->
         IF e.fallback THEN HandleBuiltinTask(t) ELSE Failure("docker_runner_exception")
    [] r.stdout # "garbled" /\ (r.exit # "zero" \/ r.stdout = "empty" \/ ~r.ok) ->
         Failure(IF r.exit = "killed" THEN "timeout" ELSE "failed")
    [] OTHER -> IF RunnerRefusal(t, r) = "none" THEN Success(r.links)
                ELSE Failure(RunnerRefusal(t, r))

----------------------------------------------------------------------------
\* handleTask: the executor is started, or there is an answer at once.  A runner
\* without a configured path is refused, bad arguments throw, and a session is
\* not started for a task that names no repository or no issue.
StartHandler(t, e) ==
  /\ hdAt = "idle"
  /\ hdTask' = t /\ hdEnv' = e
  /\ LET x == ExecutorOf(t, e)
     IN CASE x = "docker" /\ DockerFirstMode(e) /\ ~e.runnerBin ->
               hdAt' = "over" /\ hdOut' = Failure("docker_runner_not_configured")
          [] x = "docker" /\ ~(DockerFirstMode(e) /\ ~e.runnerBin) /\ ~e.argsValid ->
               hdAt' = "over" /\ hdOut' = Failure("handler_exception")
          [] x = "bridge" /\ ~t.issue ->
               hdAt' = "over" /\ hdOut' = Failure("openclaw_bridge_invalid_task")
          [] x = "builtin" -> hdAt' = "over" /\ hdOut' = HandleBuiltinTask(t)
          [] OTHER -> hdAt' = x /\ hdOut' = Pending
  /\ UNCHANGED hdReply

RunnerEnds(r) ==
  /\ hdAt = "docker" /\ hdAt' = "over"
  /\ hdReply' = r /\ hdOut' = RunDockerRunner(hdTask, hdEnv, r)
  /\ UNCHANGED <<hdTask, hdEnv>>

SessionEnds(r) ==
  /\ hdAt \in {"bridge", "analysis"} /\ hdAt' = "over"
  /\ hdReply' = r
  /\ hdOut' = IF hdAt = "bridge" THEN RunOpenClawBridge(hdTask, r)
              ELSE RunOpenClawAnalysisBridge(hdTask, r)
  /\ UNCHANGED <<hdTask, hdEnv>>

HandlerInit ==
  /\ hdAt = "idle" /\ hdTask = NoHandlerTask /\ hdEnv = NoReply
  /\ hdReply = NoReply /\ hdOut = Pending

HandlerNext ==
  \/ \E t \in HandlerTasks, e \in HandlerEnvs : StartHandler(t, e)
  \/ \E r \in RunnerReplies : RunnerEnds(r)
  \/ \E r \in BridgeReplies : SessionEnds(r)

HandlerSpec == HandlerInit /\ [][HandlerNext]_hdVars

----------------------------------------------------------------------------
\* A GitHub task that is not also marked as an analysis ends in success only
\* with a PR, Done or Block link that its executor reported: no setting of the
\* executor, its scope or its fallback, and no way for the executor to end,
\* turns it into the no-op success of the builtin handler or passes on the
\* links of its own payload.
SuccessHasExecutorLink ==
  hdOut.code = "success" /\ IsGithubEvidenceTask(hdTask) /\ ~IsReadOnlyAnalysisTask(hdTask) =>
    /\ hdReply # NoReply
    /\ hdOut.links # {} /\ hdOut.links \subseteq hdReply.links

\* Links reported together with a failed run, workspace files in the branch, the
\* wrong branch or an empty patch are never passed on.
BadRunReportsNothing ==
  hdReply # NoReply /\ hdReply.exit # "none" /\ hdOut.links # {} =>
    /\ hdReply.exit = "zero"
    /\ "leak" \in DOMAIN hdReply =>
         /\ hdReply.ok /\ ~hdReply.leak /\ ~hdReply.otherBranch
         /\ hdReply.noDiff => ~(hdTask.intent = "propose_patch")

\* Links are the executor's own, of a run that ended well.
LinksAreEarned == SuccessHasExecutorLink /\ BadRunReportsNothing
=============================================================================
