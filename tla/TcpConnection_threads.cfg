SPECIFICATION CSpec
CONSTANTS
    Users = {u, v}
    Senders = {u, v}
    Shutters = {u}
    Messages = {m1, m2}
    Size <- TwoBytes
    Callbacks = {}
    HighWaterMark = 2
    CallbackShutdown = FALSE
    ServerDies = FALSE
    MaxArrivals = 1
INVARIANTS StreamInOrder WriteInterest FinAfterData OnlyThisDangles
CHECK_DEADLOCK FALSE
