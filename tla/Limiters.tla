------------------------------ MODULE Limiters ------------------------------
(***************************************************************************)
(* The two limiters of the server: the sliding window in front of every    *)
(* request and the fixed one of the PeerStatus method.                     *)
(***************************************************************************)
EXTENDS RateLimiter, PeerStatus

(* The two limiters of the server hold for any stretch of time as long as   *)
(* their windows: the sliding one in front of every request lets at most    *)
(* its limit through, the fixed one of PeerStatus at most twice its limit.  *)
LimitersHold == RequestsInWindow /\ PeerLimitTwice
=============================================================================
