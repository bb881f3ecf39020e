SPECIFICATION FairSpec
CONSTANTS
    Events = {e1, e2, e3}
    Null = null
    Items = {e1, e2, e3, null}
    Firers = {f1}
    Nodes = {n1}
    MaxDispatch = 3
    QueueLen = 1
    Initial = 1
    CallbacksFire = TRUE
    Poppers = {0, 1, 2}
    Pushers = {f1, 0, 1, 2}
    Capacity = 3
    NoItem = none
INVARIANTS OneOwner CountExact QuietWhenDone
PROPERTIES IsBus NullsSuffice QueuedIsDelivered ShutdownEndsIfCounted
CHECK_DEADLOCK FALSE
