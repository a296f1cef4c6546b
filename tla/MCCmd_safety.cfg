SPECIFICATION Spec
CONSTANTS
    MaxStarts = 2
    IOs <- MCTwoStarts
INVARIANTS
    PInv
    ResourcesReleased
    NilIsEarned
    JoinedUnlessCancelled
    PlumbingIsSilent
    WaitDoneClosedOnce
    NoneIsStuck
PROPERTIES
    ImplementsContract
CHECK_DEADLOCK FALSE
