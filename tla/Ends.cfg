SPECIFICATION FairEndsSpec
CONSTANTS
    r1 = r1
    r2 = r2
    Requests = {r1, r2}
    c1 = c1
    Connections = {c1}
    NoOne = NoOne
    w1 = w1
    w2 = w2
    Workers = {w1, w2}
    Attempts = 0
    p = p
    q = q
    s = s
    Processes = {p, q, s}
    CgiTogether <- MCTogether
    CgiOutput <- MCOutput
    CgiBody <- MCBody
    Server = Server
    PartSize = 2
    InSize = 1
    PipeSize = 2
    ReadSize = 3
    MaxBuffers = 2
    MaxBytes = 5
INVARIANTS
    CgiAnswerIsWhole
PROPERTIES
    TasksEnd
    CgiEnds
    FormIsSeen
