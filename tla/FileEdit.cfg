SPECIFICATION Spec
CONSTANTS
    B = 2
    MAXFILEB = 3
    W = 13
    Bytes = {1, 2}
INVARIANTS
    Edited
    BeforePosition
    TextOnly
