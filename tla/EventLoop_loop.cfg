SPECIFICATION FairSpec
CONSTANTS
    Threads = {t1, t2}
    Tasks = {a, b, i}
    InitTasks = {i}
    IOChannels = {ch}
    wakeupChannel_ = wk
    MaxCount = 2
    QuitBeforeLoop = TRUE
INVARIANTS NoLostWakeup NoLostQuit
PROPERTIES ImplementsTaskQueue TasksRun QuitStops
CHECK_DEADLOCK FALSE
