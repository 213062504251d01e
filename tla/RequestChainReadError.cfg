SPECIFICATION Spec
CONSTANTS
    Pieces = 2
    HeaderLimit = 2
    FileSize = 2
    WriteLimit = 1
    Delays = {FALSE}
    ReadErrors = TRUE
    PartialWrites = FALSE
    NoBuffer = NoBuffer
    NoTask = NoTask
    NoModule = NoModule
INVARIANTS
    ErrorIsTold
