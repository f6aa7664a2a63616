SPECIFICATION PoolSpec
CONSTANTS
    Threads = {t1, t2, t3}
    Jobs = {j1, j2, j3, j4}
    NoJob = NoJob
INVARIANTS
    NoJobStranded
    IdleMeansDone
PROPERTIES
    Promise
    WaitReturns
