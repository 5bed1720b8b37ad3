----------------------------- MODULE Components -----------------------------
(***************************************************************************)
(* The classes that keep their own state in memory and meet the broker     *)
(* only through the calls their modules model: the lifecycle managers, the *)
(* conference fan-in, the delegated run, the event streams of the server,  *)
(* the GitHub ingestion, recovery projection and poller, the peer status   *)
(* and the rate limiter, the handoff receiver, the decision rounds, the    *)
(* HTTP gateway, the operator's cleanup, the round closeout and the task   *)
(* handler.  They share no state with each other; a behavior is about one  *)
(* of them, chosen at the start, and leaves the rest as they are, so their *)
(* state spaces add instead of multiplying.                                *)
(***************************************************************************)
EXTENDS LifecycleManagers, ConferenceFanIn, DelegatedRun, EventStreams,
        GitHubIngestion, GitHubRecovery, BoundedPoller, Limiters,
        HandoffReceiver, DecisionDialectic, Gateway, OperatorCleanup, RoundCloseout,
        TaskHandler

VARIABLE part   \* the class a behavior is about

vars == <<lmVars, fiVars, drVars, esVars, ghVars, recVars, bpVars, psVars, rlVars,
          hrVars, ddVars, gwVars, cuVars, rcVars, hdVars, part>>

Parts == {"lifecycle", "fanin", "delegated", "streams", "github", "recovery", "poller",
          "peers", "rate", "handoff", "dialectic", "gateway", "cleanup",
          "round", "handler"}

Init ==
  /\ part \in Parts
  /\ LifecycleInit /\ FanInInit /\ DelegatedInit /\ StreamsInit
  /\ GitHubInit /\ RecoveryInit /\ PollerInit /\ PeerInit /\ RateInit
  /\ HandoffInit /\ DialecticInit /\ GatewayInit /\ CleanupInit /\ RoundInit /\ HandlerInit
  /\ part # "lifecycle" => mgr = CHOOSE m \in Managers : TRUE
  /\ part # "streams" => stream = CHOOSE k \in StreamKinds : TRUE

Next ==
  \/ /\ part = "lifecycle"
     /\ UNCHANGED <<fiVars, drVars, esVars, ghVars, recVars, bpVars, psVars,
                    rlVars, hrVars, ddVars, gwVars, cuVars, rcVars, hdVars, part>>
     /\ LifecycleNext
  \/ /\ part = "fanin"
     /\ UNCHANGED <<lmVars, drVars, esVars, ghVars, recVars, bpVars, psVars,
                    rlVars, hrVars, ddVars, gwVars, cuVars, rcVars, hdVars, part>>
     /\ FanInNext
  \/ /\ part = "delegated"
     /\ UNCHANGED <<lmVars, fiVars, esVars, ghVars, recVars, bpVars, psVars,
                    rlVars, hrVars, ddVars, gwVars, cuVars, rcVars, hdVars, part>>
     /\ DelegatedNext
  \/ /\ part = "streams"
     /\ UNCHANGED <<lmVars, fiVars, drVars, ghVars, recVars, bpVars, psVars,
                    rlVars, hrVars, ddVars, gwVars, cuVars, rcVars, hdVars, part>>
     /\ StreamsNext
  \/ /\ part = "github"
     /\ UNCHANGED <<lmVars, fiVars, drVars, esVars, recVars, bpVars, psVars,
                    rlVars, hrVars, ddVars, gwVars, cuVars, rcVars, hdVars, part>>
     /\ GitHubNext
  \/ /\ part = "recovery"
     /\ UNCHANGED <<lmVars, fiVars, drVars, esVars, ghVars, bpVars, psVars,
                    rlVars, hrVars, ddVars, gwVars, cuVars, rcVars, hdVars, part>>
     /\ RecoveryNext
  \/ /\ part = "poller"
     /\ UNCHANGED <<lmVars, fiVars, drVars, esVars, ghVars, recVars, psVars,
                    rlVars, hrVars, ddVars, gwVars, cuVars, rcVars, hdVars, part>>
     /\ PollerNext
  \/ /\ part = "peers"
     /\ UNCHANGED <<lmVars, fiVars, drVars, esVars, ghVars, recVars, bpVars,
                    rlVars, hrVars, ddVars, gwVars, cuVars, rcVars, hdVars, part>>
     /\ PeerNext
  \/ /\ part = "rate"
     /\ UNCHANGED <<lmVars, fiVars, drVars, esVars, ghVars, recVars, bpVars,
                    psVars, hrVars, ddVars, gwVars, cuVars, rcVars, hdVars, part>>
     /\ RateNext
  \/ /\ part = "handoff"
     /\ UNCHANGED <<lmVars, fiVars, drVars, esVars, ghVars, recVars, bpVars,
                    psVars, rlVars, ddVars, gwVars, cuVars, rcVars, hdVars, part>>
     /\ HandoffNext
  \/ /\ part = "dialectic"
     /\ UNCHANGED <<lmVars, fiVars, drVars, esVars, ghVars, recVars, bpVars,
                    psVars, rlVars, hrVars, gwVars, cuVars, rcVars, hdVars, part>>
     /\ DialecticNext
  \/ /\ part = "gateway"
     /\ UNCHANGED <<lmVars, fiVars, drVars, esVars, ghVars, recVars, bpVars,
                    psVars, rlVars, hrVars, ddVars, cuVars, rcVars, hdVars, part>>
     /\ GatewayNext
  \/ /\ part = "cleanup"
     /\ UNCHANGED <<lmVars, fiVars, drVars, esVars, ghVars, recVars, bpVars,
                    psVars, rlVars, hrVars, ddVars, gwVars, rcVars, hdVars, part>>
     /\ CleanupNext
  \/ /\ part = "round"
     /\ UNCHANGED <<lmVars, fiVars, drVars, esVars, ghVars, recVars, bpVars,
                    psVars, rlVars, hrVars, ddVars, gwVars, cuVars, hdVars, part>>
     /\ RoundNext
  \/ /\ part = "handler"
     /\ UNCHANGED <<lmVars, fiVars, drVars, esVars, ghVars, recVars, bpVars,
                    psVars, rlVars, hrVars, ddVars, gwVars, cuVars, rcVars, part>>
     /\ HandlerNext

Spec == Init /\ [][Next]_vars
=============================================================================
