----------------------------- MODULE PeerStatus -----------------------------
(***************************************************************************)
(* The PeerStatus method (a2a/peer-status.ts): a cached health report of a *)
(* worker, behind a fixed-window rate limit per (caller, target) and a cap *)
(* on recomputations per second.  One thread, driven by the clock.         *)
(***************************************************************************)
EXTENDS Naturals, Sequences

CONSTANTS Targets,          \* workers asked about
          Callers,          \* authenticated callers
          PeerLimit,        \* RATE_LIMIT + RATE_BURST
          PeerWindow,       \* RATE_WINDOW_MS, in ticks
          RecomputeCap,     \* GLOBAL_RECOMPUTE_CAP_PER_S, per tick
          SlotsTotal,       \* capacity of a worker
          PeerStates,       \* what the broker may know of a worker
          MaxNow            \* bound: the clock stops there

ASSUME RecomputeCapAssumption == RecomputeCap \in Nat
ASSUME PeerLimitAssumption == PeerLimit \in Nat \ {0} /\ PeerWindow \in Nat

VARIABLES psNow,
          psPeer,       \* target -> what the broker knows of it
          psChanged,    \* history: target -> time of its last change
          psCache,      \* target -> cached answer, at = 0 without one
          psBuckets,    \* <<caller, target>> -> fixed-window bucket
          psRecompute,  \* the global recompute window
          psAnswer,     \* history: the last answer given
          psGranted,    \* history: <<caller, target>> -> times of the queries let through
          psCapped      \* history: recomputations this tick of cached targets

psVars == <<psNow, psPeer, psChanged, psCache, psBuckets, psRecompute, psAnswer,
            psGranted, psCapped>>

PeerKeys == Callers \X Targets

----------------------------------------------------------------------------
(* The status of a peer.                                                    *)

Unknown == [registered |-> FALSE, stale |-> FALSE, busy |-> 0, staleTasks |-> 0]

(* computeHealth: the first match wins.                                     *)
ComputeHealth(p) ==
    IF ~ p.registered THEN "unreachable"
    ELSE IF p.stale THEN "stale"
    ELSE IF p.busy >= SlotsTotal THEN "busy"
    ELSE IF p.staleTasks > 0 THEN "degraded"
    ELSE "ok"

NoAnswer == [target |-> "none", health |-> "none", at |-> 0, age |-> 0, asked |-> 0, capped |-> FALSE]

(* A registration, a heartbeat or a silence, a task claimed, queued or      *)
(* ended, a heartbeat of a task missed.                                     *)
PeerChanges(t) ==
    /\ \E p \in PeerStates :
          /\ psPeer[t].registered => p.registered
          /\ p # psPeer[t]
          /\ psPeer' = [psPeer EXCEPT ![t] = p]
    /\ psChanged' = [psChanged EXCEPT ![t] = psNow]
    /\ UNCHANGED <<psNow, psCache, psBuckets, psRecompute, psAnswer, psGranted, psCapped>>

----------------------------------------------------------------------------
(* checkRateLimit: a window that has passed starts again at now.            *)
Bucket(k) == IF psNow - psBuckets[k].start >= PeerWindow \/ psBuckets[k].start = 0
             THEN [count |-> 0, start |-> psNow] ELSE psBuckets[k]

(* tryAcquireGlobalRecomputeSlot: its window is one tick.                   *)
RecomputeWindow == IF psRecompute.start # psNow THEN [count |-> 0, start |-> psNow] ELSE psRecompute

Cached(t) == psCache[t].at # 0

(* Mutant: a cache that ignores the age.                                    *)
FreshEnoughOnce(t, maxAge) == Cached(t)

FreshEnough(t, maxAge) == Cached(t) /\ psNow - psCache[t].at <= maxAge

AnswerFromCache(t, maxAge, capped) ==
    psAnswer' = [target |-> t, health |-> psCache[t].health, at |-> psCache[t].at,
                 age |-> psNow - psCache[t].at, asked |-> maxAge, capped |-> capped]

AnswerComputed(t, maxAge) ==
    LET h == ComputeHealth(psPeer[t])
    IN /\ psCache' = [psCache EXCEPT ![t] = [health |-> h, at |-> psNow]]
       /\ psAnswer' = [target |-> t, health |-> h, at |-> psNow, age |-> 0,
                       asked |-> maxAge, capped |-> FALSE]

(* query, past the checks of its arguments, caller and scope.  When the cap *)
(* is reached and nothing is cached the status is computed all the same.    *)
Query(c, t, maxAge) ==
    LET k == <<c, t>>
        b == Bucket(k)
        w == RecomputeWindow
    IN /\ IF b.count >= PeerLimit
          THEN /\ psBuckets' = [psBuckets EXCEPT ![k] = b]
               /\ UNCHANGED <<psGranted, psAnswer, psCache, psRecompute, psCapped>>
          ELSE /\ psBuckets' = [psBuckets EXCEPT ![k] = [b EXCEPT !.count = @ + 1]]
               /\ psGranted' = [psGranted EXCEPT ![k] = Append(@, psNow)]
               /\ \/ /\ FreshEnough(t, maxAge)
                     /\ AnswerFromCache(t, maxAge, FALSE)
                     /\ UNCHANGED <<psCache, psRecompute, psCapped>>
                  \/ /\ ~ FreshEnough(t, maxAge)
                     /\ w.count >= RecomputeCap /\ Cached(t)
                     /\ AnswerFromCache(t, maxAge, TRUE)
                     /\ psRecompute' = w
                     /\ UNCHANGED <<psCache, psCapped>>
                  \/ /\ ~ FreshEnough(t, maxAge)
                     /\ w.count < RecomputeCap \/ ~ Cached(t)
                     /\ AnswerComputed(t, maxAge)
                     /\ psRecompute' = IF w.count < RecomputeCap THEN [w EXCEPT !.count = @ + 1] ELSE w
                     /\ psCapped' = IF Cached(t) THEN psCapped + 1 ELSE psCapped
       /\ UNCHANGED <<psNow, psPeer, psChanged>>

ClearCache ==
    /\ psCache' = [t \in Targets |-> [health |-> "none", at |-> 0]]
    /\ UNCHANGED <<psNow, psPeer, psChanged, psBuckets, psRecompute, psAnswer, psGranted,
                   psCapped>>

----------------------------------------------------------------------------
PeerTick ==
    /\ psNow < MaxNow
    /\ psNow' = psNow + 1
    /\ psCapped' = 0
    /\ UNCHANGED <<psPeer, psChanged, psCache, psBuckets, psRecompute, psAnswer, psGranted>>

PeerInit ==
    /\ psNow = 1
    /\ psPeer = [t \in Targets |-> Unknown]
    /\ psChanged = [t \in Targets |-> 0]
    /\ psCache = [t \in Targets |-> [health |-> "none", at |-> 0]]
    /\ psBuckets = [k \in PeerKeys |-> [count |-> 0, start |-> 0]]
    /\ psRecompute = [count |-> 0, start |-> 0]
    /\ psAnswer = NoAnswer
    /\ psGranted = [k \in PeerKeys |-> <<>>]
    /\ psCapped = 0

PeerNext ==
    \/ \E t \in Targets : PeerChanges(t)
    \/ \E c \in Callers, t \in Targets, maxAge \in 0..1 : Query(c, t, maxAge)
    \/ ClearCache
    \/ PeerTick

PeerSpec == PeerInit /\ [][PeerNext]_psVars

----------------------------------------------------------------------------
(* An answer says what the broker knew when it was computed: one computed   *)
(* after the peer's last change tells the peer's health, and no answer is   *)
(* older than the caller asked for unless the recompute cap was reached.    *)
AnswerTellsThePeer ==
    psAnswer.at > 0 =>
        /\ psAnswer.at > psChanged[psAnswer.target] =>
              psAnswer.health = ComputeHealth(psPeer[psAnswer.target])
        /\ psAnswer.age <= psAnswer.asked \/ psAnswer.capped

(* The cap holds back every recomputation of a target that has an answer    *)
(* cached.                                                                  *)
RecomputesCapped == psCapped <= RecomputeCap

(* Two windows may meet: a caller gets at most twice the limit through in   *)
(* any stretch of time as long as a window.                                 *)
PeerLimitTwice ==
    \A k \in PeerKeys : \A i, j \in DOMAIN psGranted[k] :
        i + 2 * PeerLimit <= j => psGranted[k][i] + PeerWindow <= psGranted[k][j]

(* The cache tells the truth within the cap: an answer is of its time, old  *)
(* only when the recompute cap was reached, and the cap holds.              *)
AnswersWithinCap == AnswerTellsThePeer /\ RecomputesCapped
=============================================================================
