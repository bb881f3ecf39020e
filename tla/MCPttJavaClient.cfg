SPECIFICATION FairSpec
CONSTANTS
    Calls = {c1}
    NoCall = none
    BodyLen = 1
    Waits = 4
PROPERTIES EslConnected
CHECK_DEADLOCK FALSE
