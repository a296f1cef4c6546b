SPECIFICATION FairSpec
CONSTANTS
    Procs = {p1, p2}
    Clients = {c1, c2, c3}
    MaxCallbacks = 2
INVARIANTS
    TypeOK
    NoOrphans
    WaitersKnown
    UninstalledIsQuiet
    TimerOnlyWhenIdle
PROPERTIES
    UninstallReleasesAll
    UnusedDistroStops
CHECK_DEADLOCK FALSE
