SPECIFICATION Spec
CONSTANTS
    b1 = b1
    b2 = b2
    Buffers = {b1, b2}
    BLOCK_SIZE = 2
    MaxSize = 4
    MaxOffset = 3
INVARIANTS
    RemainderKept
