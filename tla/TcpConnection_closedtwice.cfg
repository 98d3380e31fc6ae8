SPECIFICATION CSpec
CONSTANTS
    Users = {u, v}
    Senders = {v}
    Shutters = {u}
    Messages = {m1}
    Size <- TwoBytes
    Callbacks = {}
    HighWaterMark = 2
    CallbackShutdown = FALSE
    ServerDies = FALSE
    MaxArrivals = 0
INVARIANT DestroyedOnce
CHECK_DEADLOCK FALSE
