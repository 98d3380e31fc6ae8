SPECIFICATION TFairSpec
CONSTANTS
    Threads = {o}
    owner = o
    Tasks = {a, b, i}
    InitTasks = {i}
    IOChannels = {ch}
    wakeupChannel_ = wk
    MaxCount = 2
    QuitBeforeLoop = TRUE
PROPERTY DestructorReturns
CHECK_DEADLOCK FALSE
