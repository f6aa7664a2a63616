SPECIFICATION BusySpec
CONSTANTS
    Clients = {c1, c2, c3}
    NoOne = NoOne
    Leavers = {}
    Threads = {t1, t2}
    FD_SETSIZE = 3
    NFds = 3
PROPERTIES
    Answered
