CONSTANTS
  Poppers = {w1, w2, w3}
  Pushers = {t1, t2, t3}
  Items = {t1, t2, t3}
  Capacity = 2
  NoItem = none
SPECIFICATION FairSpec
INVARIANT RunningExact
INVARIANT RunOnce
INVARIANT DeficitBound
INVARIANT Drained
INVARIANT WorkAttended
INVARIANT NoLostWakeup
 
PROPERTY EveryTaskRuns
CHECK_DEADLOCK FALSE
