SPECIFICATION FairSpec
CONSTANTS
    Calls = {c1, c2}
    NoCall = none
    BodyLen = 3
    MaxLogs = 1
    MaxFaults = 2
INVARIANTS LogsSound
PROPERTIES  EndedIsLogged
CHECK_DEADLOCK FALSE
