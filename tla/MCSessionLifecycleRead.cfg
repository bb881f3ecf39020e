SPECIFICATION Spec
CONSTANTS
    Sessions = {s1}
    Uuids = {u1}
    Requesters = {r1}
    Readers = {p1}
    Limit = 1
    SetupFails = FALSE
    EarlyHangups = FALSE
    NoSession = none
    NoUuid = nouuid
    Free = free
INVARIANT SafeToRead
CHECK_DEADLOCK FALSE
