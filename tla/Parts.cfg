SPECIFICATION PartsSpec
CONSTANTS
    b1 = b1
    b2 = b2
    Buffers = {b1, b2}
    BLOCK_SIZE = 2
    MaxSize = 4
    MaxOffset = 3
    a1 = a1
    a2 = a2
    a3 = a3
    Actors = {a1, a2, a3}
    Nobody = Nobody
    MaxObjects = 3
    MaxTasks = 3
    Chunk = 2
    Limit = 8
    MaxFile = 9
    Sockets = {1, 2}
    x = x
    y = y
    Addresses = {x, y}
    Requests = {a1, a2}
    MaxConfigurations = 3
    Fds = {1, 2, 3}
    FD_SETSIZE = 4
    MaxBytes = 2
    k = k
    Keys = {k}
    MaxVHosts = 3
    MaxElements = 3
    MaxHeader = 15
    MaxBuffers = 3
INVARIANTS
    MemoryIsSound
    ObjectsAreKept
    RangeIsAnswered
    SslIsKept
    ConfigurationIsKept
    SelectorIsAwake
    AccountsAreKept
    TreeIsTheFile
    HeaderIsSeen
    WorkIsHandedOut
PROPERTIES
    ImplementsWorkQueue
