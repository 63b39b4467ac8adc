SPECIFICATION FairSchedSpec
CONSTANTS
    Proc = {p1}
    Editor = {e1}
    Schedule = {s1, s2}
    User = {u1, u2}
    Cron <- UtcCrons
    Day = 3
    MaxSkips = 2
    MaxTime = 3
    MaxCrashes = 0
    MaxEdits = 0
    MaxLeavers = 1
    NoHolder = NoHolder
    NoUser = NoUser
PROPERTIES DueIsHandled
