SPECIFICATION Spec
CONSTANTS
    NINODE = 5
    IPB = 2
    MAXNAMES = 2
    Users = {1, 3}
    Names = {"home", "3"}
    Modes <- BothModes
    Open <- All
INVARIANTS
    Shape
    PwdAgrees
    NothingDangles
PROPERTIES
    RemovedByRight
CONSTRAINT FewWhenLost
