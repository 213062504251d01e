SPECIFICATION Spec
CONSTANTS
    f1 = f1
    Fds = {f1}
    NoFd = NoFd
    Generations = 2
    Awaited <- Both
INVARIANTS
    ReadDoesNotBlock
