SPECIFICATION FairSpec
CONSTANTS
    Pushers = {p1}
    Stopper = stopper
    None = none
    NumQ = 2
    QueueLen = 4
    MaxTrans = 1
    WakeTries = 2
    StopTries = 3
    MaxPushes = 2
    MaxToggles = 1
    Failures = {"connect", "begin", "statement"}
    Timely = TRUE
INVARIANTS StopWrites
PROPERTIES  LowerFirst  NextPushWrites
CHECK_DEADLOCK FALSE
