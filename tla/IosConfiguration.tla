-------------------------- MODULE IosConfiguration --------------------------
(***************************************************************************)
(* The parser of IOS and IOS-XE configurations, a definition a section:    *)
(* what each keeps of the statements it asks for.  Access lists and routes *)
(* have modules of their own.                                              *)
(***************************************************************************)
EXTENDS ConfigReader, FiniteSetsExt

IosDevice ==
    [hostname |-> FirstOf(config, "hostname"), domain |-> FirstOf(config, "ip domain-name"),
     version |-> FirstKnown(<<FirstOf(config, "show version"), FirstOf(config, "version")>>)]
-----------------------------------------------------------------------------
(* The lines an operator logs in on.                                       *)
VtyLines == Of(config, "line vty")
VtyInputs == Of(Bodies(config, "line vty"), "transport input")
Carries(transport, protocol) == transport \cap {protocol, "all"} # {}

\* Each line sets the services anew, so the last that says anything decides.
SetByLines(protocol) ==
    IF VtyInputs = <<>> THEN NotFound ELSE Carries(VtyInputs[Len(VtyInputs)].val, protocol)

\* 0 is no limit at all, and so the weakest.
VtyTimeout ==
    LET limits == {s.val : s \in ToSet(Of(Bodies(config, "line vty"), "exec-timeout"))}
    IN IF limits = {} THEN NotFound ELSE IF 0 \in limits THEN 0 ELSE Max(limits)

\* What may be reached from the lines, if every one of them says.
VtyOutput ==
    LET stated(line) == LastOf(line.body, "transport output")
    IN IF VtyLines = <<>> \/ \E l \in ToSet(VtyLines) : stated(l) = NotFound THEN NotFound
       ELSE UNION {stated(l) : l \in ToSet(VtyLines)}

\* Auxiliary and numbered lines: a line that is silent is not one that allows nothing.
IosAsyncLines ==
    EachOf(config, "line aux", LAMBDA line :
        [timeout |-> LastOf(line.body, "exec-timeout"), exec_disabled |->
            LET execs == SelectSeq(line.body, LAMBDA s : s.is = "exec")
            IN IF execs = <<>> THEN NotFound ELSE execs[Len(execs)].no,
         input |-> LastOf(line.body, "transport input"), login |-> OrNotFound(Has(line.body, "login"))])

IosManagement ==
    [ssh |-> FirstKnown(<<SetByLines("ssh"), OrNotFound(Has(config, "ip ssh version"))>>),
     ssh_version |-> FirstOf(config, "ip ssh version"), ciphers |-> LastOf(config, "ip ssh ciphers"),
     telnet |-> SetByLines("telnet"),
     http |-> ToggleOf(config, "ip http server"), https |-> ToggleOf(config, "ip http secure-server"),
     http_acl |-> FirstOf(config, "ip http access-class"),
     vty_acl |-> LastOf(Bodies(config, "line vty"), "access-class"),
     vty_timeout |-> VtyTimeout, vty_output |-> VtyOutput,
     console_timeout |-> LastOf(Bodies(config, "line con"), "exec-timeout"),
     banner |-> FirstOf(config, "banner login"), encryption |-> ToggleOf(config, "service password-encryption")]
-----------------------------------------------------------------------------
\* A password whose kind of storage is not given is not known to be weak; the one
\* that enables always is.
IosUsers ==
    EachOf(config, "username", LAMBDA s : [type |-> s.val, weak |-> IF s.val = NotFound THEN NotFound ELSE s.val \in {0, 7}])
    \o (IF Has(config, "enable password") THEN <<[type |-> FirstOf(config, "enable password"), weak |-> TRUE]>> ELSE <<>>)

\* False if there are lists and none falls back; not known without lists.
LocalFallback ==
    LET lists == Of(config, "aaa authentication")
    IN IF lists = <<>> THEN NotFound ELSE \E l \in ToSet(lists) : "local" \in l.val

\* A server is a block with an address in it, or a line; a block without one is dropped.
AaaServers ==
    LET blocks == SelectSeq(Of(config, "aaa server"), LAMBDA s : Has(s.body, "address"))
    IN [i \in DOMAIN blocks |-> [host |-> LastOf(blocks[i].body, "address"), key |-> Has(blocks[i].body, "key")]]
       \o EachOf(config, "aaa host", LAMBDA s : [host |-> s.val, key |-> Has(s.body, "key")])

IosAaa == [new_model |-> IF Has(config, "aaa new-model") THEN TRUE
                         ELSE IF Negated(config, "aaa new-model") THEN FALSE ELSE NotFound,
           fallback |-> LocalFallback, servers |-> AaaServers]

IosLogging == [servers |-> EachOf(config, "logging host", LAMBDA s : s.val),
               buffered |-> IF Has(config, "logging buffered") THEN TRUE
                            ELSE IF Negated(config, "logging buffered") THEN FALSE ELSE NotFound,
               timestamps |-> FirstOf(config, "service timestamps"),
               changes |-> IF Has(config, "archive") THEN Has(Of(config, "archive")[1].body, "log config") ELSE NotFound]

\* Of the servers, one with a key is enough.
IosNtp == [servers |-> EachOf(config, "ntp server", LAMBDA s : s.val),
           authenticated |-> IF Has(config, "ntp authenticate") THEN TRUE
                             ELSE IF Has(config, "ntp server") THEN \E s \in ToSet(Of(config, "ntp server")) : s.val
                             ELSE NotFound]

\* What follows the name of a community: clauses in any order, a bare word being a list.
CommunityClauses(words) ==
    LET value(i) == i > 1 /\ words[i - 1][1] \in {"view", "ipv6"}
        last(S) == IF S = {} THEN NotFound ELSE words[Max(S)][2]
        has(w) == {i \in DOMAIN words : ~value(i) /\ words[i][1] = w}
        named(w) == {i + 1 : i \in {j \in has(w) : j < Len(words)}}
    IN [view |-> last(named("view")),
        access |-> last(has("access")),
        acl |-> last(named("ipv6") \cup {i \in DOMAIN words : ~value(i) /\ words[i][1] = "name"})]

IosSnmp ==
    [enabled |-> Mentions(config, "snmp community"),
     communities |-> EachOf(config, "snmp community", LAMBDA s :
         LET c == CommunityClauses(s.body) IN [default |-> s.val \in {"public"}, rw |-> c.access = "rw", acl |-> c.acl, view |-> c.view]),
     users |-> EachOf(config, "snmp user", LAMBDA s : s.val)]
-----------------------------------------------------------------------------
\* Protections are told from the text of the block, so that a negated line is one that
\* is there; whether it is a switched port is told so as well.
Switched == {"switchport", "switchport mode", "switchport port-security"}
SwitchedPort(body) == \E k \in Switched : Mentions(body, k)
Protected(body, kind) == IF Mentions(body, kind) THEN TRUE ELSE IF SwitchedPort(body) THEN FALSE ELSE NotFound

IosInterfaces ==
    EachOf(config, "interface", LAMBDA s :
        [name |-> s.val, admin_up |-> ~Has(s.body, "shutdown"), addresses |-> EachOf(s.body, "ip address", LAMBDA a : a.val),
         mode |-> LastOf(s.body, "switchport mode"),
         bpduguard |-> Protected(s.body, "bpduguard"), port_security |-> Protected(s.body, "switchport port-security"),
         source_guard |-> Protected(s.body, "ip verify source"),
         trusted |-> OrNotFound(Mentions(s.body, "dhcp snooping trust")),
         urpf |-> FirstOf(s.body, "urpf"), redirects |-> ToggleOf(s.body, "ip redirects")])

\* Neighbours from both protocols, one after the other; they are not merged.
IosNeighbours == EachOf(config, "cdp neighbour", LAMBDA s : s.val) \o EachOf(config, "lldp neighbour", LAMBDA s : s.val)

IosL2 == [vlans |-> EachOf(config, "vlan", LAMBDA s : s.val), mode |-> FirstOf(config, "spanning-tree mode"),
          bpduguard |-> OrNotFound(Has(config, "bpduguard default")), vtp |-> FirstOf(config, "vtp mode"),
          snooping |-> OrNotFound(Has(config, "ip dhcp snooping")),
          inspection |-> OrNotFound(Has(config, "ip arp inspection")), neighbours |-> IosNeighbours]

IosRouting ==
    [protocols |-> EachOf(config, "router", LAMBDA s :
        [authenticated |-> OrNotFound(\E k \in {"authentication", "password"} : Mentions(s.body, k)),
         type |-> IF Mentions(s.body, "md5") THEN "md5" ELSE IF Mentions(s.body, "key-chain") THEN "key-chain" ELSE NotFound,
         passive |-> OrNotFound(Mentions(s.body, "passive default")),
         redistributes |-> EachOf(s.body, "redistribute", LAMBDA r : r.val)]),
     source_routing |-> ToggleOf(config, "ip source-route")]

\* Discovery runs where nothing says it does not, on a device with interfaces.
IosFeatures ==
    [cdp |-> IF ToggleOf(config, "cdp run") # NotFound THEN ToggleOf(config, "cdp run")
             ELSE OrNotFound(Has(config, "interface")),
     source_routing |-> ToggleOf(config, "ip source-route"), http_server |-> IosManagement.http,
     small_servers |-> ToggleOf(config, "service small-servers"),
     smart_install |-> LET s == SelectSeq(config, LAMBDA t : t.is = "vstack")
                       IN IF s = <<>> THEN NotFound ELSE ~s[1].no]
-----------------------------------------------------------------------------
(* Wireless networks of a controller, mostly told by what is negated, and  *)
(* of an access point by itself, whose ciphers are on its radios.          *)
NineEnabled(body) ==
    LET s == SelectSeq(body, LAMBDA t : t.is = "shutdown") IN IF s = <<>> THEN NotFound ELSE s[1].no

NineSecurity(body) ==
    LET off == Negated(body, "wpa")
        wpa2 == ToggleOf(body, "wpa2") = TRUE
        wpa3 == ToggleOf(body, "wpa3") = TRUE
        akm(k) == k \in {s.val : s \in ToSet(Of(body, "akm"))}
    IN CASE off /\ ~wpa2 /\ ~wpa3 -> "open"
         [] akm("owe") -> "owe"
         [] wpa3 -> IF akm("sae") THEN "wpa3-sae" ELSE IF akm("dot1x") THEN "wpa3-ent" ELSE "wpa3"
         [] wpa2 -> IF akm("dot1x") THEN "wpa2-ent" ELSE IF akm("psk") THEN "wpa2-psk" ELSE "wpa2"
         [] OTHER -> NotFound

ControllerWlans ==
    EachOf(config, "wlan", LAMBDA s : [ssid |-> s.val, enabled |-> NineEnabled(s.body), security |-> NineSecurity(s.body),
                                     broadcast |-> ToggleOf(s.body, "broadcast-ssid")])

\* The cipher of each VLAN, the last radio deciding, and of what has none.
Radios == Bodies(config, "radio")
CipherOf(vlan) ==
    LET of(v) == SelectSeq(Of(Radios, "encryption"), LAMBDA s : s.val[1] = v)
        last(v) == IF of(v) = <<>> THEN NotFound ELSE of(v)[Len(of(v))].val[2]
    IN IF vlan # NotFound /\ last(vlan) # NotFound THEN last(vlan) ELSE last(NotFound)

\* Ordered by what is worst; what the evidence does not decide is not said.
AutonomousSecurity(body) ==
    LET keyed == Has(body, "key-management")
    IN CASE CipherOf(FirstOf(body, "vlan")) = "wep" -> "wep"
         [] ~keyed -> IF Has(body, "authentication open") THEN "open" ELSE NotFound
         [] FirstOf(body, "key-management") = 2 ->
              IF Has(body, "wpa-psk") THEN "wpa2-psk" ELSE IF Has(body, "network-eap") THEN "wpa2-ent" ELSE "wpa2"
         [] OTHER -> "wpa1"

AutonomousWlans ==
    EachOf(config, "dot11 ssid", LAMBDA s :
        [ssid |-> s.val, enabled |-> s.val \in {r.val : r \in ToSet(Of(Radios, "ssid"))},
         security |-> AutonomousSecurity(s.body), broadcast |-> Has(s.body, "guest-mode")])

\* A row of the summary has a counted number of slots second and its address by itself.
ApSummary ==
    [declared |-> FirstOf(config, "ap count"),
     aps |-> SelectSeq(EachOf(config, "ap row", LAMBDA s : s.val), LAMBDA r : r.own /\ r.before >= 3 /\ r.counted)]

\* What is looked for begins with the command, so a negated one is not found.
IosWireless == [wlans |-> ControllerWlans \o AutonomousWlans, aps |-> ApSummary,
                rogue |-> OrNotFound(Has(config, "rogue detection"))]
-----------------------------------------------------------------------------
(* What the configuration of a device exposes, and what its reading shows. *)
IosExposes ==
    LET some(kind, test(_)) == \E i \in DOMAIN config : config[i].is = kind /\ ~config[i].no /\ test(config[i])
        line(s, kind) == {t.val : t \in ToSet(Of(s.body, kind))}
        in_force(s) == \E r \in DOMAIN config : config[r].is = "radio" /\ s.val \in line(config[r], "ssid")
        wep(s) == \E r \in DOMAIN config : config[r].is = "radio"
                     /\ \E e \in line(config[r], "encryption") : e[2] = "wep" /\ e[1] \in {NotFound} \cup line(s, "vlan")
    IN {x \in {"telnet", "no limit", "open line", "aux", "http", "password", "community", "time", "no fallback",
               "port", "wep", "open network", "source routing"} :
         CASE x = "telnet" -> some("line vty", LAMBDA s : \E t \in line(s, "transport input") : Carries(t, "telnet"))
           [] x = "no limit" -> some("line vty", LAMBDA s : 0 \in line(s, "exec-timeout"))
           [] x = "open line" -> some("line vty", LAMBDA s : line(s, "access-class") = {})
           [] x = "aux" -> some("line aux", LAMBDA s : line(s, "transport input") # {{}})
           [] x = "http" -> some("ip http server", LAMBDA s : TRUE)
           [] x = "password" -> some("username", LAMBDA s : s.val \in {0, 7}) \/ some("enable password", LAMBDA s : TRUE)
           [] x = "community" -> some("snmp community", LAMBDA s : s.val = "public" \/ <<"access", "rw">> \in ToSet(s.body))
           [] x = "time" -> some("ntp server", LAMBDA s : ~s.val) /\ ~some("ntp authenticate", LAMBDA s : TRUE)
           [] x = "no fallback" -> /\ some("aaa authentication", LAMBDA s : TRUE)
                                   /\ ~some("aaa authentication", LAMBDA s : "local" \in s.val)
           [] x = "port" -> some("interface", LAMBDA s : Has(s.body, "switchport mode") /\ ~Has(s.body, "bpduguard"))
           [] x = "wep" -> some("dot11 ssid", LAMBDA s : in_force(s) /\ wep(s))
           [] x = "open network" -> \/ some("wlan", LAMBDA s : Negated(s.body, "wpa"))
                                    \/ some("dot11 ssid", LAMBDA s : /\ in_force(s) /\ ~wep(s) /\ Has(s.body, "authentication open")
                                                                     /\ ~Has(s.body, "key-management"))
           [] x = "source routing" -> some("ip source-route", LAMBDA s : TRUE)}

IosShows ==
    LET aux == ToSet(IosAsyncLines)  users == ToSet(IosUsers)  wlans == ToSet(IosWireless.wlans)
        communities == ToSet(IosSnmp.communities)
    IN {x \in {"telnet", "no limit", "open line", "aux", "http", "password", "community", "time", "no fallback",
               "port", "wep", "open network", "source routing"} :
         CASE x = "telnet" -> IosManagement.telnet = TRUE
           [] x = "no limit" -> IosManagement.vty_timeout = 0
           [] x = "open line" -> Has(config, "line vty") /\ IosManagement.vty_acl = NotFound
           [] x = "aux" -> \E l \in aux : l.input # {}
           [] x = "http" -> IosManagement.http = TRUE
           [] x = "password" -> \E u \in users : u.weak = TRUE
           [] x = "community" -> \E c \in communities : c.default \/ c.rw
           [] x = "time" -> IosNtp.authenticated = FALSE
           [] x = "no fallback" -> IosAaa.fallback = FALSE
           [] x = "port" -> \E i \in ToSet(IosInterfaces) : i.bpduguard = FALSE
           [] x = "wep" -> \E w \in wlans : w.enabled = TRUE /\ w.security = "wep"
           [] x = "open network" -> \E w \in wlans : w.enabled # FALSE /\ w.security = "open"
           [] x = "source routing" -> IosRouting.source_routing = TRUE}

\* What one line hides of another: the last line an operator may log in on decides
\* on telnet, and one access class, one key and one radio stand for all of them.  A
\* port whose guard is negated is a guarded one.
IosHides ==
    {x \in {"telnet", "open line", "time", "port", "wep", "open network"} :
        CASE x = "telnet" -> Len(VtyInputs) > 1
          [] x = "open line" -> Len(VtyLines) > 1
          [] x = "time" -> Len(Of(config, "ntp server")) > 1
          [] x = "port" -> \E s \in ToSet(Of(config, "interface")) : Negated(s.body, "bpduguard")
          [] x \in {"wep", "open network"} -> Len(Of(config, "radio")) > 1}

\* A negated line is taken for one that is there: a routed port for a switched one.
\* Two radios may give one network the cipher of the other.
IosInvents ==
    {x \in {"port", "wep", "open network"} :
        IF x = "port" THEN \E s \in ToSet(Of(config, "interface")) : \E k \in Switched \cup {"bpduguard"} : Negated(s.body, k)
        ELSE Len(Of(config, "radio")) > 1}
=============================================================================
