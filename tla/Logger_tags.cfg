SPECIFICATION GSpec
CONSTANTS
    main = main
    io = io
    Threads = {main, io}
    Script <- TwoThreads
INVARIANT TagIsOwnLevel
CHECK_DEADLOCK FALSE
