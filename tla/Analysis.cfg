SPECIFICATION Spec
CONSTANTS
    IPv4Max = 2
    Top = 4
    BucketSize = 1
    AnyProtocol = "any"
    NoZone = NoZone
    NoRule = NoRule
    V4 = {1, 2}
    V6 = {9}
    RuleShapes <- MCShapes
    Packets <- MCPackets
    MaxRules = 3
    MaxRelationships = 2000
    Device = {1, 2, 3}
    Address = {0, 1, 2, 3, 4, 5, 6, 7, 8, 9, 10, 11, 12, 13, 14, 15}
    Estates <- MCEstates
    Queries <- MCQueries
    MaxHops = 3
    NoAddress = NoAddress
    NoDevice = NoDevice
    NoBase = NoBase
    Pool = Pool
    Unreadable = Unreadable
    NoTrain = NoTrain
    NoBound = NoBound
    NoCpe = NoCpe
    NoName = NoName
    NotFound = NotFound
    Devices <- MCDevices
    Versions <- MCVersions
    Statements <- MCStatements
    Conditions <- MCConditions
    MaxStatements = 2
    Absent = Absent
    Unknown = Unknown
    Noise = {"!"}
    Readings <- MCReadings
    Lines = {"ntp", "telnet", "!"}
    MaxLines = 4
    Library <- MCLibrary
    Assessed <- MCDevice
    Net4 = {1, 2, 3, 4}
    Net6 = {8, 9}
    Holds <- MCHolds
    Members <- MCMembers
    MaxDepth = 2
    RuleForms <- MCForms
    Blocks <- MCBlocks
    Insecure <- MCInsecure
    MaxAddresses = 2
    MaxPorts = 1
    NoPort = NoPort
    Cut = Cut
    Arrivals <- MCArrivals
    MaxForms = 2
    ProblemKind = {"shadowed", "broad"}
    RuleName = {"a", "b"}
    MaxPerKind = 1
    MaxProblems = 3
    MaxChanges = 4
    Host = {"ise", "switch", "radius"}
    Spelling = {"1/32", "2", "9"}
    AddressOf <- MCAddressOf
    Recorded <- MCRecorded
    Snapshots <- MCSnapshots
    Correlator = {q1}
    NoReading = NoReading
    NoReport = NoReport
    NoHostName = NoHostName
    NoKey = NoKey
    HiddenKey = HiddenKey
    Undated = Undated
    Weak = {"pap"}
    StaleDays = 30
    MaxAaaSteps = 3
CHECK_DEADLOCK FALSE
INVARIANTS
    IntervalsAreExact
    AnswersHold
    PathVerdictsHold
    MatchesHold
    RuleFindingsHold
PROPERTIES
    ChecksAreSteady
    RegistersAgree
