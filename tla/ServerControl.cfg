SPECIFICATION FairSpec
CONSTANTS
    Ports = {p1, p2}
    MainThread = main
    Reloads = 1
    Makers = 2
INVARIANTS
    TypeOK
PROPERTIES
    InstancesLast
    ListenersLast
    ControlEnds
