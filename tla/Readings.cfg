SPECIFICATION Spec
CONSTANTS
    Bits = 3
    HighPort = 4
    GroupHolds <- MCGroupHolds
    OddPort = OddPort
    NamedList = {"a"}
    NumberedList = {"7"}
    AclBinding <- MCAclBinding
    AclEntry <- MCAclEntry
    AclLine <- MCAclLine
    MaxAclLines = 4
    Width = 3
    Static <- MCStatic
    Attachment <- MCAttachment
    CiscoLine <- MCCiscoLine
    NxosLine <- MCNxosLine
    GaiaLine <- MCGaiaLine
    MaxRoutes = 2
    Default = Default
    NoHop = NoHop
    NoInterface = NoInterface
    NoVrf = NoVrf
    NoPrefix = NoPrefix
    NoNumber = NoNumber
    MaxTableLines = 3
    NeighbourLine <- MCNeighbourLine
    Unadvertised = Unadvertised
    Nothing = Nothing
    MaxNeighbourLines = 4
    NestedLine <- MCNestedLine
    MaxNested = 5
    Platform = {"ios", "asa", "nxos", "eos", "wlc", "junos", "junos set", "forti", "panos"}
    Statement <- MCStatement
    MaxConfig <- MCMaxConfig
    NotFound = NotFound
    Repeated = {
        "aaa auth mgmt", "aaa authentication", "aaa host", "aaa server", "access-group", "access-list", "address",
        "address-set", "admin", "ap row", "community", "dot11 ssid", "feature", "interface", "interface command",
        "ip access-list", "ip route", "line aux", "line vty", "management telnet", "nat", "network telnet",
        "ntp server", "object network", "object-group network", "policy", "radio", "route", "router", "rule",
        "service", "snmp community", "snmp host", "snmp user", "snmp version", "static", "static-route",
        "syslog host", "user", "username", "vap", "vip", "wlan", "wlan command"}
CHECK_DEADLOCK FALSE
INVARIANTS
    ConfigurationsReadTrue
    NoOtherExposureIsHidden
