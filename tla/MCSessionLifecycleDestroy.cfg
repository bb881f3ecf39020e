SPECIFICATION Spec
CONSTANTS
    Sessions = {s1}
    Uuids = {u1}
    Requesters = {r1}
    Readers = {p1}
    Limit = 1
    SetupFails = TRUE
    EarlyHangups = TRUE
    NoSession = none
    NoUuid = nouuid
    Free = free
PROPERTY DestroyIgnored
CHECK_DEADLOCK FALSE
