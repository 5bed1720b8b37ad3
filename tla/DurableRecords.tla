--------------------------- MODULE DurableRecords ---------------------------
(***************************************************************************)
(* What the persistent broker promises about a task record, whatever       *)
(* store, cache and save path carries it: a record moves forward one       *)
(* version at a time, and only a record in its last (terminal) version may *)
(* ever disappear.  A crash and a restart are not visible at this level.   *)
(***************************************************************************)
EXTENDS Naturals

CONSTANTS RecordIds,    \* the records
          Last          \* the terminal version; version 0 is "no record"

VARIABLE records

DurableInit == records \in [RecordIds -> 0..Last]

Advance(i) ==
    /\ records[i] < Last
    /\ records' = [records EXCEPT ![i] = @ + 1]

Forget(S) ==
    /\ \A i \in S : records[i] = Last
    /\ records' = [i \in RecordIds |-> IF i \in S THEN 0 ELSE records[i]]

DurableNext ==
    \/ \E i \in RecordIds : Advance(i)
    \/ \E S \in SUBSET RecordIds : Forget(S)

DurableSpec == DurableInit /\ [][DurableNext]_records
=============================================================================
