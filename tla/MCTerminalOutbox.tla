-------------------------- MODULE MCTerminalOutbox --------------------------
(* TerminalOutbox for TLC: all tasks and lanes belong to one round, and    *)
(* one other broker reports.                                               *)
EXTENDS TerminalOutbox

CONSTANTS round, broker

MCRunOf    == [t \in Tasks |-> round]
MCRoundOf  == [c \in Lanes |-> round]
MCOrigin   == [c \in Lanes |-> broker]
MCChild    == [c \in Lanes |-> "child"]
MCSymmetry == Permutations(Tasks) \cup Permutations(Lanes)
=============================================================================
