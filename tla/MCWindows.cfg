SPECIFICATION Spec
CONSTANTS
    root = root
    user = user
    Users = {root, user}
    Names = {"ubuntu", "NAME"}
    Guids = {1, 3}
    Foreign = {2}
    MaxChanges = 2
    SomeConfs <- MCSomeConfs
    Calls <- MCCalls
    Blocks <- MCBlocks
INVARIANTS
    TypeOK
    ListingIsSound
    AnswersAreTrue
    EnvCopied
    LaunchFindsItsProcess
    AInv
PROPERTIES
    SetterKeepsRest
    DoneWhenOk
CHECK_DEADLOCK FALSE
