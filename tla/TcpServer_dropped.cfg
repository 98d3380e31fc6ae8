SPECIFICATION SSpec
CONSTANTS
    MaxThreads = 1
    MaxConns = 1
    MaxFds = 1
    main = main
    Starters = {main}
INVARIANT FreedDisconnected
CHECK_DEADLOCK FALSE
