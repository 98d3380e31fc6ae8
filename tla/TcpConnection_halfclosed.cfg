SPECIFICATION CSpec
CONSTANTS
    Users = {}
    Senders = {}
    Shutters = {}
    Messages = {m1, m2}
    Size <- TwoBytes
    Callbacks = {"writeComplete", "highWaterMark"}
    HighWaterMark = 2
    CallbackShutdown = TRUE
    ServerDies = TRUE
    MaxArrivals = 2
INVARIANT DestroyedDisconnected
CHECK_DEADLOCK FALSE
