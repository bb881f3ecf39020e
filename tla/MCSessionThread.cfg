SPECIFICATION FairSpec
CONSTANTS
    Callers = {c1, c2}
    Targets <- OneTarget
    Causes = {busy}
    NoCause = none
    MaxTries = 2
    QueueLen = 1
    NewLoops = 1
    EarlyHangup = TRUE
INVARIANTS LockDiscipline NoLostWakeup HandlersOnce 
PROPERTIES NeverRevives  MessagesRead
