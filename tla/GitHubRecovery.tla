---------------------------- MODULE GitHubRecovery ----------------------------
(***************************************************************************)
(* The recovery projection of one issue or pull request                    *)
(* (github/recovery-state.ts): GitHub events, check runs and reviews, and  *)
(* the broker's task status, folded into a bucket for the operator.        *)
(* Deliveries may be duplicated and come in any order; receivedAt is the   *)
(* time of the delivery context, and for a task status observedAt.         *)
(***************************************************************************)
EXTENDS Naturals

CONSTANTS Shas,           \* commits a pull request's head may be at
          CheckNames,
          MaxRecoveryIds, \* bound: delivery ids are 1..MaxRecoveryIds, first used in order
          MaxReceivedAt   \* bound: times are 1..MaxReceivedAt

VARIABLES rec,       \* RecoveryIssueState, or NoRecord
          recSeen    \* seenDeliveries

recVars == <<rec, recSeen>>

NoSha == "none"

ASSUME ShaAssumption == NoSha \notin Shas

NoCheck == [conclusion |-> "none", sha |-> NoSha, at |-> 0]
NoChecks == [c \in CheckNames |-> NoCheck]
RecTimes == 1..MaxReceivedAt

----------------------------------------------------------------------------
(* Aggregation.                                                             *)

(* The conclusion of one check, from its status and GitHub's conclusion.    *)
MapCheckConclusion(status, conclusion) ==
    IF status # "completed" THEN "pending"
    ELSE CASE conclusion \in {"success", "neutral", "skipped"} -> "passing"
           [] conclusion \in {"failure", "cancelled", "timed_out", "action_required", "stale"} -> "failing"
           [] OTHER -> "pending"

AggregateCheckStatus(checks) ==
    LET all == {checks[c].conclusion : c \in CheckNames} \ {"none"}
    IN CASE all = {} -> "pending"
         [] "failing" \in all -> "failing"
         [] "failing" \notin all /\ "pending" \in all -> "pending"
         [] OTHER -> "passing"

(* "keep" leaves the verdict as it is: a comment, or an edit without one.   *)
MapReviewVerdict(action, state) ==
    CASE action = "dismissed" \/ state = "dismissed" -> "none"
      [] action # "dismissed" /\ state \in {"approved", "changes_requested"} -> state
      [] OTHER -> "keep"

ComputeBucket(r) ==
    CASE r.state \in {"closed", "merged"} -> "closed"
      [] r.state = "open" /\ r.kind = "issue" ->
             IF r.task = "failed" THEN "needs_retry" ELSE "blocked"
      [] OTHER ->
             IF r.review = "approved" /\ r.checkStatus = "passing" THEN "ready_to_merge"
             ELSE IF r.checkStatus = "failing" \/ r.review = "changes_requested" THEN "blocked"
             ELSE IF r.task = "failed" THEN "needs_retry"
             ELSE IF r.checkStatus = "passing" THEN "ready_to_review"
             ELSE "blocked"

WithBucket(r) == [r EXCEPT !.bucket = ComputeBucket(r)]

----------------------------------------------------------------------------
(* Construction.                                                            *)

CreatePlaceholderState(kind, sha, at) ==
    WithBucket([exists |-> TRUE, kind |-> kind, state |-> "open", head |-> sha,
                checks |-> NoChecks, checkStatus |-> "pending", review |-> "none",
                task |-> "none", at |-> at, bucket |-> "blocked"])

NoRecord == [CreatePlaceholderState("issue", NoSha, 0) EXCEPT !.exists = FALSE]

OrPlaceholder(kind, sha, at) ==
    IF rec.exists THEN rec ELSE CreatePlaceholderState(kind, sha, at)

BumpWatermark(r, at) == [r EXCEPT !.at = IF at > @ THEN at ELSE @]

(* deriveLifecycleState, from the merged flag, the action and the state.    *)
DeriveLifecycleState(merged, action, state) ==
    CASE merged -> "merged"
      [] ~ merged /\ (action = "closed" \/ state = "closed") -> "closed"
      [] OTHER -> "open"

----------------------------------------------------------------------------
(* The handlers, as the state they leave.                                   *)

RecStale(at) == rec.exists /\ at < rec.at

(* applyIssueLike: issues, pull requests and the comments on them.  A       *)
(* comment carries the issue's state of its time under the action "edited". *)
ApplyIssueLike(kind, merged, action, state, at) ==
    IF RecStale(at) THEN rec
    ELSE LET r == OrPlaceholder(kind, NoSha, at)
         IN WithBucket(BumpWatermark(
              [r EXCEPT !.kind = IF kind = "pull_request" THEN kind ELSE @,
                        !.state = DeriveLifecycleState(merged, action, state)], at))

(* Mutant: the checks of the earlier head are kept.                         *)
ApplyCheckRunKeepingChecks(name, sha, conclusion, at) ==
    LET r == OrPlaceholder("pull_request", sha, at)
        moved == r.head # NoSha /\ r.head # sha
        checks == [r.checks EXCEPT ![name] = [conclusion |-> conclusion, sha |-> sha, at |-> at]]
    IN IF (moved /\ at < r.at) \/ (~ moved /\ at < r.checks[name].at) THEN r
       ELSE WithBucket(BumpWatermark(
              [r EXCEPT !.head = sha, !.checks = checks,
                        !.checkStatus = AggregateCheckStatus(checks)], at))

(* A check of another commit with an equal or newer time moves the head and *)
(* clears the checks; an older report of the same check is dropped.         *)
ApplyCheckRunEvent(name, sha, conclusion, at) ==
    LET r == OrPlaceholder("pull_request", sha, at)
        moved == r.head # NoSha /\ r.head # sha
        kept == IF moved THEN NoChecks ELSE r.checks
        checks == [kept EXCEPT ![name] = [conclusion |-> conclusion, sha |-> sha, at |-> at]]
    IN IF (moved /\ at < r.at) \/ (~ moved /\ at < r.checks[name].at) THEN r
       ELSE WithBucket(BumpWatermark(
              [r EXCEPT !.head = sha, !.checks = checks,
                        !.checkStatus = AggregateCheckStatus(checks)], at))

ApplyPullRequestReviewEvent(action, state, at) ==
    LET r == OrPlaceholder("pull_request", NoSha, at)
        verdict == MapReviewVerdict(action, state)
    IN IF at < r.at THEN r
       ELSE WithBucket(BumpWatermark(
              [r EXCEPT !.kind = "pull_request",
                        !.review = IF verdict = "keep" THEN @ ELSE verdict], at))

(* setTaskStatus has no staleness check, and moves the watermark.           *)
WithTaskStatus(status, at) ==
    WithBucket(BumpWatermark([OrPlaceholder("issue", NoSha, at) EXCEPT !.task = status], at))

----------------------------------------------------------------------------
(* ingestEvent: a delivery already seen changes nothing.                    *)
IngestEvent(d, r) ==
    /\ recSeen' = recSeen \cup {d}
    /\ rec' = IF d \in recSeen THEN rec ELSE r

IssueLikeEvent(d) ==
    \E kind \in {"issue", "pull_request"}, merged \in BOOLEAN, at \in RecTimes,
       action \in {"opened", "closed", "reopened"}, state \in {"open", "closed"} :
       /\ merged => kind = "pull_request"
       /\ action = "closed" => state = "closed"
       /\ action = "reopened" => state = "open"
       /\ IngestEvent(d, ApplyIssueLike(kind, merged, action, state, at))

(* Status and conclusion of a check run, one per class of the mapping.      *)
CheckRuns == {<<"queued", "none">>, <<"completed", "success">>, <<"completed", "failure">>}

CheckRunEvent(d) ==
    \E name \in CheckNames, sha \in Shas, at \in RecTimes, run \in CheckRuns :
       IngestEvent(d, ApplyCheckRunEvent(name, sha, MapCheckConclusion(run[1], run[2]), at))

ReviewEvent(d) ==
    \E at \in RecTimes, action \in {"submitted", "dismissed"},
       state \in {"approved", "changes_requested", "commented"} :
       IngestEvent(d, ApplyPullRequestReviewEvent(action, state, at))

(* An event of a kind that is not projected is only counted.                *)
DeferredEvent(d) == IngestEvent(d, rec)

SetTaskStatus ==
    /\ \E status \in {"queued", "failed", "succeeded"}, at \in RecTimes :
          rec' = WithTaskStatus(status, at)
    /\ UNCHANGED recSeen

RecoveryInit == rec = NoRecord /\ recSeen = {}

RecoveryNext ==
    \/ \E d \in 1..MaxRecoveryIds :
          /\ d = 1 \/ d - 1 \in recSeen
          /\ IssueLikeEvent(d) \/ CheckRunEvent(d) \/ ReviewEvent(d) \/ DeferredEvent(d)
    \/ SetTaskStatus

RecoverySpec == RecoveryInit /\ [][RecoveryNext]_recVars

----------------------------------------------------------------------------
(* The bucket an operator reads is the one the record's other fields give,  *)
(* also after an event that was dropped half way through its handler.       *)
BucketCurrent == rec.bucket = ComputeBucket(rec)

(* Ready to merge is about one commit: every check on record is of the head *)
(* and passed, at least one is, and the last verdict is an approval.        *)
ReadyIsOfTheHead ==
    rec.bucket = "ready_to_merge" =>
        /\ rec.review = "approved"
        /\ \E c \in CheckNames : rec.checks[c] # NoCheck
        /\ \A c \in CheckNames : rec.checks[c] # NoCheck =>
              rec.checks[c].sha = rec.head /\ rec.checks[c].conclusion = "passing"

(* The bucket can be trusted: it is that of the record, and "ready to       *)
(* merge" is about the head, in whatever order events, checks and reviews   *)
(* came, doubled or late.                                                   *)
BucketTells == BucketCurrent /\ ReadyIsOfTheHead
=============================================================================
