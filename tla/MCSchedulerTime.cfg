SPECIFICATION Spec
CONSTANTS
    Tasks = {t1, t2}
    Groups = {g1}
    Adders = {a1}
    Threads = {x1, x2}
    Epoch = 2
    Span = 1
    Flags = {{}, {"OWN_THREAD"}, {"NO_DEL"}, {"OWN_THREAD", "NO_DEL"}}
    Delays = {0, 1}
    Repeats = {1}
    QueueSize = 2
    LateAdds = TRUE
    CreateFails = FALSE
    NoTask = none
    NoGroup = nogroup
PROPERTY AtTheTimeAsked
CHECK_DEADLOCK FALSE
