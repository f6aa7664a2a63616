SPECIFICATION Spec
CONSTANTS
    MAXUSER = 2
    Ids = {0, 1}
    Uids = {1, 2}
    Dirs = {0, 1}
    Home = 1
INVARIANTS
    TypeOK
    Durable
    NoImpersonation
    StaysLoggedIn
    OwnDirectory
