SPECIFICATION FairSpec
CONSTANTS
    N = 4
    MaxBytes = 26
INVARIANTS
    TypeOK
    KeepsBothEnds
    AtMostTwoCopies
PROPERTY
    WriteReturns
CHECK_DEADLOCK FALSE
