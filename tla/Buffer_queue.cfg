SPECIFICATION BSpec
CONSTANTS
    kCheapPrepend = 2
    kInitialSize = 2
    ExtraBuf = 3
    MaxAppend = 4
    MaxBytes = 9
INVARIANTS BTypeOK MemoryBounded
PROPERTY ImplementsByteQueue
CHECK_DEADLOCK FALSE
