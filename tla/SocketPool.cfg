SPECIFICATION FairSpec
CONSTANTS
    f1 = f1
    Fds = {f1}
    NoFd = NoFd
    Generations = 3
    Awaited <- Both
INVARIANTS
    TypeOK
    WatchedIsCounted
    CalledIsAlive
PROPERTIES
    ToldOfData
