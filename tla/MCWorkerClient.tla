--------------------------- MODULE MCWorkerClient ---------------------------
(***************************************************************************)
(* WorkerClient for TLC: a validation lane and another task.  Either the   *)
(* other task is long settled and the lane meets every fault and an        *)
(* operator, or one worker gets both in a batch, with one fault less left  *)
(* and no operator.                                                        *)
(***************************************************************************)
EXTENDS WorkerClient

CONSTANTS Lane, Other, First
MCMode == [t \in Tasks |-> IF t = Lane THEN "validation" ELSE "other"]

OneTask ==
    /\ status = [t \in Tasks |-> IF t = Lane THEN "queued" ELSE "succeeded"]
    /\ produced = {Other} /\ acked = {Other}
    /\ runs = [t \in Tasks |-> IF t = Lane THEN 0 ELSE 1]
    /\ reassigns = 0 /\ faults = 0

OneBatch ==
    /\ status = [t \in Tasks |-> "queued"]
    /\ produced = {} /\ acked = {}
    /\ runs = [t \in Tasks |-> 0]
    /\ reassigns = MaxReassigns /\ faults = MaxFaults - 1

MCInit ==
    /\ OneTask \/ OneBatch
    /\ assigned = [t \in Tasks |-> First]
    /\ requeues = [t \in Tasks |-> 0]
    /\ silent = {}
    /\ evidence = [t \in Tasks |-> NoEvidence]
    /\ pc = [w \in Workers |-> "stopped"]
    /\ batch = [w \in Workers |-> <<>>]
    /\ call = [w \in Workers |-> "none"]
    /\ stopping = {} /\ late = {}

MCSpec == MCInit /\ [][Next]_vars /\ Fairness
=============================================================================
