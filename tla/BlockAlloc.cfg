SPECIFICATION Spec
CONSTANTS
    BPB = 6
    IPB = 2
    Size = 10
CONSTRAINT
    FewHeldWhileTorn
INVARIANTS
    TypeOK
    InUseIsMarked
    GrantIsFresh
    NoLeak
PROPERTY
    Promise
