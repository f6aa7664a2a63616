SPECIFICATION Spec
CONSTANTS
    ND = 1
    APB = 1
    B = 1
    NB = 5
    MAXUINT = 6
    Files = {f1, f2}
    MaxSize = 2
    f1 = f1
    f2 = f2
SYMMETRY SymFiles
CONSTRAINT FewLeaks
INVARIANTS
    Exclusive
    SuperblockKept
CHECK_DEADLOCK FALSE
