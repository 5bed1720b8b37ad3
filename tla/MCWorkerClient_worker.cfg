SPECIFICATION MCSpec
CONSTANTS
  Tasks = {t1, t2}
  Workers = {w1, w2}
  Lane = t1
  Other = t2
  First = w1
  Mode <- MCMode
  MaxRequeueAttempts = 1
  MaxFaults = 2
  MaxReassigns = 1
INVARIANTS SuccessIsEarned 
PROPERTIES EveryTaskSettles
