SPECIFICATION FairSpec
CONSTANTS
    Sessions = {s1, s2}
    Uuids = {u1, u2}
    Requesters = {r1, r2}
    Readers = {p1}
    Limit = 1
    SetupFails = TRUE
    EarlyHangups = FALSE
    NoSession = none
    NoUuid = nouuid
    Free = free
INVARIANTS TableLive UnderMutexAlive LockedAlive CountExact
PROPERTY HungUpIsFreed
CHECK_DEADLOCK FALSE
