----------------------------- MODULE RateLimiter -----------------------------
(***************************************************************************)
(* The sliding-window limiter in front of every HTTP request, one bucket   *)
(* of timestamps per key (InMemoryRateLimiter, core/request-security.ts),  *)
(* read and trimmed by the diagnostics' snapshot in between.               *)
(***************************************************************************)
EXTENDS Naturals, Sequences, FiniteSets

CONSTANTS RateKeys,      \* requesters
          MaxRequests,
          RateWindow,    \* windowMs, in ticks
          MaxRateNow     \* bound: the clock stops there

ASSUME RateAssumption == MaxRequests \in Nat \ {0} /\ RateWindow \in Nat

VARIABLES rlNow,
          rlLog,      \* history: key -> times of the requests let through, in order
          rlStamps    \* key -> the requests, as places of rlLog, whose stamps are kept

rlVars == <<rlNow, rlLog, rlStamps>>

(* Mutant: all stamps are thrown away when the window of the oldest ends.   *)
InWindowOfTheOldest(k) ==
    IF \E i \in rlStamps[k] : rlLog[k][i] + RateWindow <= rlNow THEN {} ELSE rlStamps[k]

(* The filter value > nowMs - windowMs.                                     *)
InWindow(k) == {i \in rlStamps[k] : rlLog[k][i] + RateWindow > rlNow}

Check(k) ==
    LET kept == InWindow(k)
        allowed == Cardinality(kept) < MaxRequests
    IN /\ rlStamps' = [rlStamps EXCEPT ![k] = IF allowed THEN kept \cup {Len(rlLog[k]) + 1}
                                              ELSE kept]
       /\ rlLog' = IF allowed THEN [rlLog EXCEPT ![k] = Append(@, rlNow)] ELSE rlLog
       /\ UNCHANGED rlNow

(* snapshot drops the stamps that have left the window, for every key.      *)
Snapshot ==
    /\ rlStamps' = [k \in RateKeys |-> InWindow(k)]
    /\ UNCHANGED <<rlNow, rlLog>>

RateTick ==
    /\ rlNow < MaxRateNow
    /\ rlNow' = rlNow + 1
    /\ UNCHANGED <<rlLog, rlStamps>>

RateInit ==
    /\ rlNow = 1
    /\ rlLog = [k \in RateKeys |-> <<>>]
    /\ rlStamps = [k \in RateKeys |-> {}]

RateNext == (\E k \in RateKeys : Check(k)) \/ Snapshot \/ RateTick

RateSpec == RateInit /\ [][RateNext]_rlVars

----------------------------------------------------------------------------
(* In no stretch of time as long as its window does the limiter let more    *)
(* than maxRequests through for a key, however snapshots of the diagnostics *)
(* trim its buckets in between: of any maxRequests + 1 requests let through *)
(* in a row, the last comes at least a window after the first.              *)
RequestsInWindow ==
    \A k \in RateKeys : \A i, j \in DOMAIN rlLog[k] :
        i + MaxRequests <= j => rlLog[k][i] + RateWindow <= rlLog[k][j]
=============================================================================
