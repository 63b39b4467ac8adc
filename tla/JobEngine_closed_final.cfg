SPECIFICATION Spec
CONSTANTS
    Worker = {w1}
    Operator = {o1}
    NumJobs = 1
    Device = {d1}
    Poison = {}
    Batch = 1
    MaxCrashes = 0
    MaxCancels = 1
    NoTx = NoTx
    NoDev = NoDev
PROPERTY ClosedIsFinal
