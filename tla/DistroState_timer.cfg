SPECIFICATION Spec
CONSTANTS
    Procs = {p1}
    Clients = {c1}
    MaxCallbacks = 1
PROPERTY
    TimerSparesProcesses
CHECK_DEADLOCK FALSE
