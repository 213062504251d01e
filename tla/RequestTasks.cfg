SPECIFICATION Spec
CONSTANTS
    in = in
    out = out
    Modules = {in, out}
    Input = in
    Output = out
    Buffers = {b1, b2, b3}
    NoBuffer = NoBuffer
    NoTask = NoTask
    WriteLimit = 1
    TaskBound = 2
SYMMETRY BufferSymmetry
INVARIANTS
    TypeOK
    WaitsAreKept
PROPERTIES
    WritesComeFirst
