SPECIFICATION FairSpec
CONSTANTS
    Tasks = {t1}
    Groups = {g1}
    Adders = {a1}
    Threads = {x1, x2}
    Epoch = 2
    Span = 2
    Flags = {{}, {"OWN_THREAD"}, {"NO_DEL"}, {"OWN_THREAD", "NO_DEL"}}
    Delays = {0, 1}
    Repeats = {1}
    QueueSize = 8
    LateAdds = TRUE
    CreateFails = TRUE
    NoTask = none
    NoGroup = nogroup
INVARIANTS NoOverlap RunsAlive RepeatsGoOn
PROPERTIES  DestroyedIsFreed
CHECK_DEADLOCK FALSE
