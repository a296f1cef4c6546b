SPECIFICATION Spec
CONSTANTS
    MaxStarts = 1
    IOs <- MCOneStart
PROPERTY
    WaitAfterFailedStartReleases
CHECK_DEADLOCK FALSE
