SPECIFICATION MCSpec
CONSTANTS
    Tx = {t1, t2, t3}
    Content = {x, y}
    BatchSize = 2
    MaxId = 3
    MaxLosses = 1
    NoTx = NoTx
    Proc = {x, y}
    Editor = {e1}
    Schedule = {s1}
    User = {u1}
    Cron <- MCCrons
    Day = 3
    MaxSkips = 2
    MaxTime = 5
    MaxCrashes = 1
    MaxEdits = 1
    MaxLeavers = 1
    NoHolder = NoHolder
    NoUser = NoUser
    Group = {t1, t2, t3, g4}
    GroupRequest = {x, y}
    NoGroup = NoGroup
    MaxMoves = 5
    Account = {u2, u3, u4}
    Founder = u2
    MaxAccountSteps = 5
    ServedRule = {1, 2, 3, 4}
    MaxPages = 4
    MaxPolicyEdits = 2
    NotSaid = NotSaid
    Probe = {t1, t2, t3, b4}
    Interval = 2
    Burst = 2
    MaxPaceTime = 3
    Credential = {x, y}
    Assignments <- MCAssignments
    Profiles <- MCProfiles
    Dev = {t1, t2}
    Writer = {x, y}
    Asker = {t1, t2}
    MaxWrites = 3
SYMMETRY Symmetric
CHECK_DEADLOCK FALSE
INVARIANTS
    TypeOK
    ChainIsLinear
    IntactIsValid
    LossIsReported
    OnTimeRuns
    DirectoryHolds
    CollectionIsHonest
    HeldIsCurrent
PROPERTIES
    IdsFollowCommits
    FiresAsScheduled
    DevicesAreSpared
