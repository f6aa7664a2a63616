SPECIFICATION DispatchSpec
CONSTANTS
    Clients = {c1, c2, c3, c4}
    NoOne = NoOne
    Kinds <- SomeKinds
SYMMETRY Symmetric
INVARIANTS
    FirstIsOwn
    StillThere
    Whole
