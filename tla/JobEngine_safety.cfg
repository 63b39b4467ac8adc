SPECIFICATION Spec
CONSTANTS
    Worker = {w1}
    Operator = {o1}
    NumJobs = 2
    Device = {d1, d2, d3}
    Poison = {d3}
    Batch = 2
    MaxCrashes = 0
    MaxCancels = 1
    NoTx = NoTx
    NoDev = NoDev
SYMMETRY HealthySymmetry
INVARIANTS JobRunByOne SettledWhenClosed VerdictMatchesOutcomes RunningNeverCommitted
PROPERTIES OpensOnQueuedWorkOnly ImplementsLifecycle
