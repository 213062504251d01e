SPECIFICATION FairSpec
CONSTANTS
    Pieces = 2
    HeaderLimit = 2
    FileSize = 4
    WriteLimit = 1
    Delays = {FALSE, TRUE}
    ReadErrors = TRUE
    PartialWrites = TRUE
    NoBuffer = NoBuffer
    NoTask = NoTask
    NoModule = NoModule
INVARIANTS
    TypeOK
    BuffersAreHeld
    ChainIsWhole
    ResponseInOrder
    KeptConnectionIsClean
PROPERTIES
    EndIsToldOnce
    UsesRequestTasks
    Ends
