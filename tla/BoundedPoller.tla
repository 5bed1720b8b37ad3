---------------------------- MODULE BoundedPoller ----------------------------
(***************************************************************************)
(* The bounded poller of GitHub events (github/bounded-poller.ts) as       *)
(* startPoller and stopPoller of the server use it: a stopped poller is    *)
(* dropped and the next start makes a new one, while a cycle of the old    *)
(* one may still wait for its fetch.  What a cycle's events do to the      *)
(* broker is in GitHubIngestion.  The server's baseBackoffMs is below its  *)
(* pollIntervalMs, so the Math.max of an error cycle changes nothing.      *)
(***************************************************************************)
EXTENDS Naturals, Sequences

CONSTANTS Pollers,           \* BoundedPoller objects, in the order 1, 2, ...
          MaxEventsPerPoll,
          MaxBatch,          \* bound: events in one fetched batch
          PollInterval,      \* pollIntervalMs
          MaxBackoff         \* maxBackoffMs

ASSUME PollerAssumption ==
    /\ Pollers \subseteq Nat \ {0}
    /\ MaxEventsPerPoll \in Nat
    /\ PollInterval \in Nat \ {0} /\ MaxBackoff \in Nat /\ PollInterval <= MaxBackoff

VARIABLES bpUsed,      \* pollers made so far
          bpRunning,   \* poller -> _running
          bpTimer,     \* poller -> a timer is pending
          bpBusy,      \* poller -> _busy
          bpBackoff,   \* poller -> _currentBackoffMs
          bpCycle      \* history: sizes of the slices ingested by the last cycle

bpVars == <<bpUsed, bpRunning, bpTimer, bpBusy, bpBackoff, bpCycle>>

Current == bpUsed > 0 /\ bpRunning[bpUsed]

StartPoller ==
    /\ ~ Current
    /\ bpUsed + 1 \in Pollers
    /\ bpUsed' = bpUsed + 1
    /\ bpRunning' = [bpRunning EXCEPT ![bpUsed + 1] = TRUE]
    /\ bpTimer' = [bpTimer EXCEPT ![bpUsed + 1] = TRUE]
    /\ UNCHANGED <<bpBusy, bpBackoff, bpCycle>>

StopPoller ==
    /\ Current
    /\ bpRunning' = [bpRunning EXCEPT ![bpUsed] = FALSE]
    /\ bpTimer' = [bpTimer EXCEPT ![bpUsed] = FALSE]
    /\ UNCHANGED <<bpUsed, bpBusy, bpBackoff, bpCycle>>

(* poll: a cycle that finds another in flight only sets the next timer.     *)
PollStarts(p) ==
    /\ bpTimer[p] /\ bpRunning[p]
    /\ bpTimer' = [bpTimer EXCEPT ![p] = bpBusy[p]]
    /\ bpBusy' = [bpBusy EXCEPT ![p] = TRUE]
    /\ UNCHANGED <<bpUsed, bpRunning, bpBackoff, bpCycle>>

(* Mutant: scheduleNext forgets that the poller was stopped meanwhile.      *)
ScheduleNextAlways(p) == bpTimer' = [bpTimer EXCEPT ![p] = TRUE]

ScheduleNext(p) == bpTimer' = [bpTimer EXCEPT ![p] = bpRunning[p]]

Doubled(p) == IF 2 * bpBackoff[p] <= MaxBackoff THEN 2 * bpBackoff[p] ELSE MaxBackoff

(* The slices of the fetched batches: what is left of maxEventsPerPoll.     *)
Slices(n1, n2) ==
    LET first == IF n1 <= MaxEventsPerPoll THEN n1 ELSE MaxEventsPerPoll
        left == MaxEventsPerPoll - first
    IN <<first, IF n2 <= left THEN n2 ELSE left>>

FetchReturns(p) ==
    \E n1, n2 \in 0..MaxBatch :
       LET slices == Slices(n1, n2)
       IN /\ bpBusy[p]
          /\ bpCycle' = slices
          /\ bpBackoff' = [bpBackoff EXCEPT ![p] =
                              IF slices = <<0, 0>> THEN Doubled(p) ELSE PollInterval]
          /\ bpBusy' = [bpBusy EXCEPT ![p] = FALSE]
          /\ ScheduleNext(p)
          /\ UNCHANGED <<bpUsed, bpRunning>>

(* fetchEvents throws, or an ingestion does: back off.                      *)
FetchFails(p) ==
    /\ bpBusy[p]
    /\ bpBackoff' = [bpBackoff EXCEPT ![p] = Doubled(p)]
    /\ bpBusy' = [bpBusy EXCEPT ![p] = FALSE]
    /\ ScheduleNext(p)
    /\ UNCHANGED <<bpUsed, bpRunning, bpCycle>>

PollerInit ==
    /\ bpUsed = 0
    /\ bpRunning = [p \in Pollers |-> FALSE]
    /\ bpTimer = [p \in Pollers |-> FALSE]
    /\ bpBusy = [p \in Pollers |-> FALSE]
    /\ bpBackoff = [p \in Pollers |-> PollInterval]
    /\ bpCycle = <<0, 0>>

PollerNext ==
    \/ StartPoller \/ StopPoller
    \/ \E p \in Pollers : PollStarts(p) \/ FetchReturns(p) \/ FetchFails(p)

PollerSpec == PollerInit /\ [][PollerNext]_bpVars

----------------------------------------------------------------------------
(* However often the server stops and starts pollers while fetches are      *)
(* under way, there is one chain of cycles: at most one poller has a timer, *)
(* a running one has either a timer pending or a cycle in flight, and a     *)
(* stopped one has no timer, so only the cycle it was stopped in still      *)
(* ends.                                                                    *)
OneChain ==
    /\ \A p, q \in Pollers : bpTimer[p] /\ bpTimer[q] => p = q
    /\ \A p \in Pollers : IF bpRunning[p] THEN bpTimer[p] # bpBusy[p] ELSE ~ bpTimer[p]

(* One poll cycle ingests at most maxEventsPerPoll events, over all of the  *)
(* batches its fetch returned.                                              *)
CycleBounded == bpCycle[1] + bpCycle[2] <= MaxEventsPerPoll

(* The poller's load on GitHub and on the broker is bounded: one chain of   *)
(* cycles, each within maxEventsPerPoll.                                    *)
PollingBounded == OneChain /\ CycleBounded
=============================================================================
