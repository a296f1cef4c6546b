SPECIFICATION FairSpec
CONSTANTS
    Procs = {p1}
    Clients = {c1}
    MaxCallbacks = 1
PROPERTY
    IdleDistroStops
CHECK_DEADLOCK FALSE
