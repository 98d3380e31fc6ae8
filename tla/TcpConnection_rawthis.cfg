SPECIFICATION CSpec
CONSTANTS
    Users = {u}
    Senders = {u}
    Shutters = {}
    Messages = {m1, m2}
    Size <- TwoBytes
    Callbacks = {"writeComplete", "highWaterMark"}
    HighWaterMark = 2
    CallbackShutdown = FALSE
    ServerDies = FALSE
    MaxArrivals = 2
INVARIANT RunsOnLiveObject
CHECK_DEADLOCK FALSE
