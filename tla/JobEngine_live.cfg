SPECIFICATION FairSpec
CONSTANTS
    Worker = {w1, w2}
    Operator = {o1}
    NumJobs = 2
    Device = {d1}
    Poison = {}
    Batch = 1
    MaxCrashes = 1
    MaxCancels = 0
    NoTx = NoTx
    NoDev = NoDev
INVARIANTS TypeOK
PROPERTY QueuedIsClosed
