SPECIFICATION MCSpec
CONSTANTS
    Run = {p1, p2}
    Config = {"a", "b"}
    CheckKey = {"check"}
    VulnKey = {"cycle"}
    Drift = Drift
    Verdict <- MCVerdict
    MaxRuns = 3
    MaxDecisions = 1
    NoOne = NoOne
    Lost = Lost
    Cve = {o1, o2}
    Importer = {p1, p2}
    MaxWindow = 1
    MaxFeedTime = 3
    MaxRevisions = 2
    MaxImports = 3
    Addr = {o1, o2}
    Scan = {p1, p2}
    Reviewer = {w1}
    Nowhere = Nowhere
    MaxScans = 2
    MaxReviews = 2
    Exception = {o1, o2}
    Notifier = {p1, p2}
    MaxAttempts = 2
    Backoff <- MCBackoff
    Window = 1
    MaxNoteTime = 2
    MaxPasses = 3
    MaxRequeues = 1
    Address = {1, 2}
    Name = {o1, o2}
    Serial = {s1}
    Controller = {p1, p2}
    Manager = {m1}
    NoValue = NoValue
    MaxTurns = 4
    Request = {p1, p2}
    Policy = {o1, o2}
    Unit = {u1}
    Team = {t1}
    Rule = {"x", "y"}
    Optional = {"y"}
    NoPolicy = NoPolicy
    MaxSteps = 5
    MaxAssessments = 1
    Box = {"a", "b"}
    Criticality <- MCCriticality
    Item = {"telnet"}
    Match = {"advisory"}
    Weight <- MCWeight
    TrendDays = 2
    MaxDay = 3
    MaxReadings = 2
    MaxTriage = 1
SYMMETRY Symmetric
CHECK_DEADLOCK FALSE
INVARIANTS
    FlagsFollowCatalogue
    DerivedDevicesAreTrue
    
PROPERTIES
    CollectionsTellTheTruth
    ClosedOnEvidence
    NoSilentGap
    
    AnnouncementsSettle
    PoliciesGovern
