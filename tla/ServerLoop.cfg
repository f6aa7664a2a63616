SPECIFICATION Spec
CONSTANTS
    Clients = {c1, c2}
    NoOne = NoOne
    Leavers = {c1, c2}
    Threads = {t1, t2}
    FD_SETSIZE = 2
    NFds = 2
SYMMETRY Symmetric
INVARIANTS
    TypeOK
    OneHandler
    Descriptors
PROPERTIES
    UsesPool
CHECK_DEADLOCK FALSE
