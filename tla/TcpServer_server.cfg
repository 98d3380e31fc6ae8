SPECIFICATION SFairSpec
CONSTANTS
    MaxThreads = 2
    MaxConns = 2
    MaxFds = 2
    main = main
    Starters = {main, t1}
INVARIANTS STypeOK ListensAfterPoolFilled RoundRobin NoDanglingChannel FunctorsOnOwnLoop NoAbort
PROPERTIES ServerImplementsTable StartListens LeaverFreed DestructionFrees
CHECK_DEADLOCK FALSE
