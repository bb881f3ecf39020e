SPECIFICATION FairSpec
CONSTANTS
    Events = {e1}
    Null = null
    Items = {e1, null}
    Firers = {f1}
    Nodes = {n1}
    MaxDispatch = 3
    QueueLen = 1
    Initial = 2
    CallbacksFire = FALSE
    Poppers = {0, 1, 2}
    Pushers = {f1, 0, 1, 2}
    Capacity = 3
    NoItem = none
PROPERTIES ShutdownEnds
CHECK_DEADLOCK FALSE
