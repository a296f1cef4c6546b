SPECIFICATION Spec
CONSTANTS
    Threads = {t1, t2}
    NoThread = NoThread
    NoName = NoName
    ubuntu = ubuntu
    Names = {ubuntu, debian}
    Guids = {1, 2}
    Flags = {"interop"}
    Settings <- MCSettings
SYMMETRY Symmetry
INVARIANTS
    TypeOK
    RInv
    DefaultRegistered
    UniqueNames
    ListsAreSnapshots
    NoTornRead
    LocksAreReturned
PROPERTIES
    CallsAreAtomic
CHECK_DEADLOCK FALSE
