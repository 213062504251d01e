SPECIFICATION Spec
CONSTANTS
    r1 = r1
    r2 = r2
    r3 = r3
    Requests = {r1, r2, r3}
    c1 = c1
    c2 = c2
    Connections = {c1, c2}
    NoOne = NoOne
    w1 = w1
    w2 = w2
    Workers = {w1, w2}
    Attempts = 0
SYMMETRY Alike
INVARIANTS
    TypeOK
    TasksAreAlone
    OwnedOnce
    SetsHoldTheLiving
