SPECIFICATION Spec
CONSTANTS
  Workers = {w1, w2}
  MaxEvents = 2
  MaxEvidence = 2
INVARIANTS  ForgedNeverReady
CHECK_DEADLOCK FALSE
