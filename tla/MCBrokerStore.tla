---------------------------- MODULE MCBrokerStore ----------------------------
(* BrokerStore for TLC: tasks and briefs are model values. *)
EXTENDS BrokerStore, TLC

MCSymmetry == Permutations(TaskIds)
=============================================================================
