SPECIFICATION FairSpec
CONSTANTS
    MaxStarts = 1
    IOs <- MCOneStart
INVARIANTS
    TypeOK
PROPERTIES
    CancelUnblocksWait
    WaitReturnsAfterExit
    NoGoroutineLeft
CHECK_DEADLOCK FALSE
