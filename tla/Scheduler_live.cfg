SPECIFICATION FairSchedSpec
CONSTANTS
    Proc = {p1}
    Editor = {e1, e2}
    Schedule = {s1}
    User = {u1}
    Cron <- UtcCrons
    Day = 3
    MaxSkips = 2
    MaxTime = 2
    MaxCrashes = 1
    MaxEdits = 2
    MaxLeavers = 1
    NoHolder = NoHolder
    NoUser = NoUser
PROPERTIES OwnedIsHandled
