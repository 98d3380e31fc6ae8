SPECIFICATION CFairSpec
CONSTANTS
    Users = {}
    Senders = {}
    Shutters = {}
    Messages = {m1, m2}
    Size <- TwoBytes
    Callbacks = {"writeComplete", "highWaterMark"}
    HighWaterMark = 2
    CallbackShutdown = TRUE
    ServerDies = TRUE
    MaxArrivals = 2
INVARIANTS StreamInOrder WriteInterest FinAfterData PollerConsistent DestructorAssert RegisteredChannelExists DestroyedOnce
PROPERTIES ImplementsConnectionTable PeerGoneFreed ShutdownCompletes WriteCompleteFollows
CHECK_DEADLOCK FALSE
