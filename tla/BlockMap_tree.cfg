SPECIFICATION Spec
CONSTANTS
    ND = 1
    APB = 2
    B = 1
    NB = 7
    MAXUINT = 14
    Files = {f1}
    MaxSize = 4
    f1 = f1
CONSTRAINT FewLeaks
INVARIANTS
    Exact
    NoHoles
CHECK_DEADLOCK FALSE
