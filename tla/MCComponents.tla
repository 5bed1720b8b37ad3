---------------------------- MODULE MCComponents ----------------------------
(* Small instances of the components. *)
EXTENDS Components

CONSTANTS NodeA, NodeB, NodeC

MCMaxIds == [execution |-> 2, delivery |-> 1, proposal |-> 1, wake |-> 1,
             conference |-> 3, handoff |-> 3]
MCMaxEventId == [execution |-> 6, delivery |-> 8, proposal |-> 6, wake |-> 6,
                 conference |-> 6, handoff |-> 0]

(* A command, and a body with a command without a target before two. *)
MCBodies == {<<"w1">>, <<"bare", "w2", "w1">>}

(* A comment that names a worker twice, one with an explicit task id, and one
   whose second worker is not known here. *)
MCHandoffs ==
  [k1 |-> [ours |-> TRUE, explicit |-> "", targets |-> <<"w1", "w1">>],
   k2 |-> [ours |-> TRUE, explicit |-> "t", targets |-> <<"w2">>],
   k3 |-> [ours |-> TRUE, explicit |-> "t", targets |-> <<"w1", "away">>]]

(* A worker that is well, one with a full queue and a task gone silent, and one
   that has itself gone silent. *)
MCPeerStates ==
  {[registered |-> TRUE, stale |-> FALSE, busy |-> 0, staleTasks |-> 0],
   [registered |-> TRUE, stale |-> FALSE, busy |-> 1, staleTasks |-> 1],
   [registered |-> TRUE, stale |-> TRUE, busy |-> 1, staleTasks |-> 0]}

(* Tasks of a round of two workers: at work, ended well with and without a
   link, ended badly with a branch, and one of another round that ended well. *)
MCSightings ==
  LET mine(st, ev) == [worker : {NodeA, NodeB}, status : {st}, at : {1, 2}, evidence : {ev},
                       prefix : {TRUE}, issue : {FALSE}]
  IN mine("running", {}) \cup mine("succeeded", {"branch"}) \cup mine("succeeded", {"done"})
     \cup mine("failed", {"branch"}) \cup mine("canceled", {}) \cup mine("blocked", {"block", "pr"})
     \cup [worker : {NodeA, NodeB}, status : {"succeeded"}, at : {1, 2}, evidence : {{"pr"}},
           prefix : {FALSE}, issue : {TRUE}]

(* One task of each kind, some with links in their payload. *)
MCHandlerTasks ==
  LET asked(i, m, p, o, l) == [intent |-> i, mode |-> m, plugin |-> p,
                               issue |-> i # "verify", sourceOnly |-> o, links |-> l]
  IN {asked("propose_patch", "github-propose-patch", FALSE, FALSE, {"done"}),
      asked("propose_patch", "github-issue-instruction", TRUE, FALSE, {}),
      asked("verify", "github-verify", FALSE, FALSE, {}),
      asked("analyze", "read-only-validation", TRUE, TRUE, {"block"}),
      asked("analyze", "analysis-only", FALSE, FALSE, {"done", "block"}),
      asked("analyze", "a2a-review", FALSE, TRUE, {"pr", "done"}),
      asked("chat", "docker-broker-noop-smoke", FALSE, FALSE, {"done"})}
MCHandlerEnvs ==
  [mode : {"auto", "docker", "builtin"}, scope : {"all-github", "plugin-only"},
   claudeBlocked : BOOLEAN, bridge : BOOLEAN, analysis : BOOLEAN, fallback : BOOLEAN,
   runnerBin : BOOLEAN, argsValid : {TRUE}]
  \cup [mode : {"docker"}, scope : {"plugin-only"}, claudeBlocked : {FALSE}, bridge : {FALSE},
        analysis : {FALSE}, fallback : BOOLEAN, runnerBin : {TRUE}, argsValid : {FALSE}]
MCRunnerReplies ==
  LET reply(x, o, k, d, w, n, l) == [exit |-> x, stdout |-> o, ok |-> k, leak |-> d,
                                     otherBranch |-> w, noDiff |-> n, links |-> l]
  IN {reply("zero", "json", TRUE, d, w, n, l) : d, w, n \in BOOLEAN, l \in {{}, {"pr"}, {"block"}}}
     \cup {reply("zero", "json", FALSE, FALSE, FALSE, FALSE, {"pr"}),
           reply("nonzero", "json", TRUE, FALSE, FALSE, FALSE, {"done"}),
           reply("killed", "empty", FALSE, FALSE, FALSE, FALSE, {}),
           reply("zero", "garbled", FALSE, FALSE, FALSE, FALSE, {})}
MCBridgeReplies ==
  [exit : {"zero"}, json : {TRUE}, links : {{}, {"pr", "done"}, {"done", "block"}}]
  \cup [exit : {"zero", "killed", "nonzero", "spawn_failed"}, json : {FALSE}, links : {{}}]

MCRoundFilters == [byPrefix : {TRUE}, byIssue : BOOLEAN]
=============================================================================
