----------------------------- MODULE MCReadings -----------------------------
(* Instances of what is read from devices: one run explores each in turn.  *)
(* They share no state, so `subject` is chosen once and the others never   *)
(* move.                                                                   *)
EXTENDS AccessLists, RouteTables, Printouts, IosConfiguration, AsaConfiguration, SwitchConfigurations, WlcConfiguration,
        FirewallConfigurations

VARIABLE subject

\* Addresses of three bits and ports up to 4, one of them written by a name that is
\* not listed: every form of an address with every wildcard, and pairs of port lists.
AddressAs(form, at, mask) == [form |-> form, at |-> at, mask |-> mask]
Everywhere == AddressAs("any", 0, 0)
PortsAs(op, of) == [op |-> op, of |-> of]
AnyPorts == PortsAs("none", <<>>)
MCGroupHolds == [g \in {"servers"} |-> {1, 2}]
AnyEntry == [standard |-> FALSE, action |-> "permit", protocol |-> "tcp", src |-> Everywhere, sport |-> AnyPorts,
             dst |-> Everywhere, dport |-> AnyPorts, flag |-> "none"]
MCAddresses == {Everywhere, AddressAs("host", 5, 0), AddressAs("slash", 4, 2), AddressAs("slash", 6, 1),
                AddressAs("group", "servers", 0)}
               \cup {AddressAs("wild", a, m) : a \in {0, 5}, m \in 0 .. 7}
MCPorts == {AnyPorts, PortsAs("neq", <<2>>), PortsAs("range", <<1, 3>>), PortsAs("range", <<2, OddPort>>)}
           \cup {PortsAs("eq", of) : of \in {<<2>>, <<1, 3>>, <<2, OddPort>>, <<OddPort>>}}
           \cup {PortsAs(op, <<p>>) : op \in {"lt", "gt"}, p \in {1, 3, 4}}
MCAclEntry ==
    {[AnyEntry EXCEPT !.src = s, !.sport = p, !.dst = d, !.dport = q, !.flag = f] :
        s \in {AddressAs("host", 5, 0), AddressAs("wild", 4, 5)}, p \in MCPorts,
        d \in {Everywhere, AddressAs("wild", 4, 1)}, q \in MCPorts, f \in {"none", "log", "established"}}
    \cup {[AnyEntry EXCEPT !.src = s, !.dst = d, !.dport = q] :
             s \in MCAddresses, d \in MCAddresses, q \in {AnyPorts, PortsAs("eq", <<2>>)}}
    \cup {[AnyEntry EXCEPT !.standard = TRUE, !.protocol = "ip", !.src = s, !.flag = f] : f \in {"none", "log"},
             s \in {a \in MCAddresses : a.form \in {"any", "host", "wild"}} \cup {AddressAs("bare", 3, 0)}}
MCAclBinding == {<<"a", "in", "in">>, <<"absent", "in", "out">>}
Lists == NamedList \cup NumberedList
MCAclLine ==
    {[list |-> l, is |-> "entry", entry |-> [AnyEntry EXCEPT !.src = AddressAs("host", h, 0)], text |-> ""] :
        l \in Lists, h \in {1, 2}}
    \cup {[list |-> l, is |-> "remark", entry |-> AnyEntry, text |-> t] : l \in Lists, t \in {"x", "y"}}
-----------------------------------------------------------------------------
\* Routes over three bits; the lines of the three dialects of a table.
StaticTo(to, spelt, hop, out, distance, labelled) ==
    [to |-> to, spelt |-> spelt, hop |-> hop, out |-> out, distance |-> distance, labelled |-> labelled, vrf |-> NoVrf]
MCStatic ==
    {StaticTo(<<4, 2>>, s, h, o, d, l) : s \in {"slash", "dotted", "number"}, h \in {NoHop, 1},
        o \in {NoInterface, "eth"}, d \in {NoNumber, 9}, l \in BOOLEAN}
    \cup {StaticTo(<<0, 0>>, s, h, "eth", NoNumber, FALSE) : s \in {Default, "dotted"}, h \in {NoHop, 1}}
    \cup {[StaticTo(<<4, 1>>, "slash", 2, NoInterface, NoNumber, FALSE) EXCEPT !.vrf = "blue"]}
MCAttachment == {[name |-> "lan", at |-> 5, length |-> l, up |-> u] : l \in {2, NoNumber}, u \in {"up", "down", "unknown"}}
TableLine(is, at, mask, code, hop) ==
    [is |-> is, at |-> at, mask |-> mask, code |-> code, hop |-> hop, out |-> "eth", distance |-> NoNumber]
Length(n) == <<"length", n>>
MCCiscoLine ==
    {[is |-> "heading", length |-> l] : l \in {1, 2}} \cup {[is |-> "note"]}
    \cup {TableLine("route", a, m, "ospf", 1) : a \in {4, 6}, m \in {NoMask, Length(2), <<"dotted", 6>>, <<"dotted", 5>>}}
    \cup {TableLine("route", 4, Length(2), "unknown", 2), TableLine("route", 4, Length(7), "ospf", 2),
          TableLine("more", 0, NoMask, "ospf", 3)}
MCNxosLine == {[is |-> "vrf", vrf |-> v] : v \in {NoVrf, "blue"}}
              \cup {TableLine("prefix", 4, Length(l), "ospf", NoHop) : l \in {2, 3, 9}}
              \cup {TableLine("via", 0, NoMask, "ospf", h) : h \in {1, NoHop}}
MCGaiaLine == {TableLine("route", a, Length(l), "ospf", 1) @@ [codes |-> c, leads |-> w] :
                  a \in {0, 4}, l \in {1, 9}, c \in {{"O"}, {"O", "i"}}, w \in BOOLEAN}

\* Tables are printed by a device without a configuration or with one route in it.
BrieflyConfigured == attached = <<>> /\ statics \in {<<>>, <<StaticTo(<<4, 2>>, "slash", 1, NoInterface, NoNumber, FALSE)>>}
-----------------------------------------------------------------------------
\* Two records' worth of fields; blocks three deep, one of them opened by two words.
MCNeighbourLine == {[is |-> "rule", val |-> Nothing], [is |-> "text", val |-> "free text"]}
                   \cup {[is |-> f, val |-> v] : f \in {"local", "description"}, v \in {"one", Unadvertised}}
                   \cup {[is |-> "name", val |-> "a"], [is |-> "device", val |-> "b"], [is |-> "device serial", val |-> "c"],
                         [is |-> "address", val |-> "10.0.0.1"], [is |-> "address", val |-> "bad quad"]}
NestedWords(is, words, inactive) == [is |-> is, words |-> words, inactive |-> inactive]
MCNestedLine == {NestedWords(k, w, i) : k \in {"open", "leaf"}, w \in {<<"a">>, <<"b", "c">>}, i \in BOOLEAN}
                \cup {NestedWords("close", <<>>, FALSE)}
-----------------------------------------------------------------------------
\* What may be written in a configuration of each platform.
Says(is, val) == [is |-> is, no |-> FALSE, val |-> val, body |-> <<>>]
No(is) == [is |-> is, no |-> TRUE, val |-> NotFound, body |-> <<>>]
Block(is, val, body) == [is |-> is, no |-> FALSE, val |-> val, body |-> body]
On(is) == Says(is, TRUE)

IosStatements ==
    {Says("hostname", "r1"), Says("version", 15), Says("show version", 17), On("aaa new-model"), No("aaa new-model"),
     On("ip http server"), No("ip http server"), On("ip source-route"), No("cdp run"), No("vstack"),
     On("rogue detection"), No("rogue detection"),
     Says("enable password", 0), On("ntp authenticate"), Says("ap count", 1)}
    \cup {Block("line vty", "0 4", b) : b \in {
            <<>>, <<Says("transport input", {"ssh"}), Says("access-class", "10"), Says("exec-timeout", 300)>>,
            <<Says("transport input", {"all"}), Says("exec-timeout", 0), Says("transport output", {})>>,
            <<Says("transport input", {"telnet"}), Says("transport output", {"ssh"}), Says("exec-timeout", 600)>>}}
    \cup {Block("line aux", "0", b) : b \in {<<>>, <<Says("transport input", {}), No("exec")>>}}
    \cup {Says("username", t) : t \in {NotFound, 7, 9}}
    \cup {Says("aaa authentication", m) : m \in {{"tacacs"}, {"tacacs", "local"}}}
    \cup {Block("aaa server", "s", b) : b \in {<<On("key")>>, <<Says("address", 1), On("key")>>}}
    \cup {Says("ntp server", k) : k \in BOOLEAN}
    \cup {Block("snmp community", c, w) : c \in {"public", "secret"},
             w \in {<<>>, << <<"view", "v">>, <<"name", "v">>, <<"access", "rw">>, <<"name", "10">> >>, << <<"access", "ro">> >>}}
    \cup {Block("interface", "e1", b) : b \in {
            <<Says("switchport mode", "access")>>, <<Says("switchport mode", "access"), On("bpduguard"), On("shutdown")>>,
            <<Says("switchport mode", "access"), No("bpduguard")>>, <<No("switchport"), Says("ip address", 1), No("ip redirects")>>}}
    \cup {Block("router", "ospf", <<On("authentication"), On("md5")>>), Block("ap row", [own |-> TRUE, before |-> 3, counted |-> TRUE], <<>>)}
    \cup {Block("wlan", "w", b) : b \in {<<No("wpa"), No("wpa2"), No("shutdown")>>, <<Says("akm", "psk"), On("wpa2")>>,
                                         <<No("wpa2"), Says("akm", "sae"), On("wpa3")>>}}
    \cup {Block("dot11 ssid", "s", b) : b \in {<<Says("vlan", 2), On("authentication open")>>,
             <<Says("vlan", 2), Says("key-management", 2), On("wpa-psk")>>, <<On("authentication open"), Says("key-management", 1)>>}}
    \cup {Block("radio", "0", <<Says("ssid", "s"), Says("encryption", e)>>) :
             e \in {<<2, "wep">>, <<2, "ciphers">>, <<NotFound, "wep">>, <<3, "wep">>}}

AsaAddress(form, of) == [form |-> form, of |-> of]
Ace(kind, list, action, src, ports) ==
    Says("access-list", [kind |-> kind, list |-> list, action |-> action, protocol |-> IF ports = NotFound THEN "ip" ELSE "tcp",
                         src |-> src, dst |-> AsaAddress("any", NotFound), ports |-> ports])
AsaGroup(list, interface) == Says("access-group", [list |-> list, interface |-> interface, direction |-> "out"])
Clause(kind, a, b) == [kind |-> kind, first |-> a, second |-> b]
AsaStatements ==
    {Says("hostname", "fw"), Says("ASA Version", 9), Says("show version", "5525"), On("failover"), On("ssh from"), On("telnet from"),
     On("http server"), No("http server"), Says("snmp community", "public"), On("logging buffered"),
     AsaGroup("in", "inside"), AsaGroup("in", NotFound)}
    \cup {Says("username", t) : t \in {"pbkdf2", "encrypted"}} \cup {Says("ntp server", k) : k \in BOOLEAN}
    \cup {Says("aaa host", g) : g \in {"TACACS", "RADIUS", "GROUP"}} \cup {Says("snmp host", c) : c \in {"public", NotFound}}
    \cup {Ace("extended", l, a, x, p) : l \in {"in", "out"}, a \in {"permit", "deny"}, p \in {NotFound, "neq", "https"},
             x \in {AsaAddress("any", NotFound), AsaAddress("interface", "inside")}}
    \cup {Ace("remark", "in", "permit", AsaAddress("any", NotFound), NotFound)}
    \cup {Block("interface", "e0", <<Says("nameif", "inside"), No("shutdown")>>)}
    \cup {Block("object network", "web", <<Says("is", AsaAddress(f, 1))>> \o n) :
             f \in {"host", "range"}, n \in {<<>>, <<Says("nat", "interface")>>, <<Says("nat", "public")>>}}
    \cup {Block("object-group network", "g", <<Says("member", AsaAddress(f, 1))>>) : f \in {"host", "group-object"}}
    \cup {Says("nat", [source |-> x, destination |-> y]) :
             x \in {Clause("none", "", "")} \cup {Clause(k, a, b) : k \in {"static", "dynamic"}, a \in {"any", "web"}, b \in {"any", "interface", "public"}},
             y \in {Clause("none", "", ""), Clause("static", "public", "web"), Clause("static", "interface", "web")}}

NexusStatements ==
    {Says("hostname", "n"), Says("version", 9), No("strength-check"), On("strength-check"), On("ntp authenticate"),
     Block("line vty", "", <<Says("exec-timeout", 0)>>)}
    \cup {Says("feature", f) : f \in {"ssh", "telnet", "nxapi"}}
    \cup {Block("username", t, <<Says("role", "network-admin")>>) : t \in {NotFound, 0, 5}}
    \cup {Says("aaa authentication", m) : m \in {NotFound, {}, {"group"}, {"group", "local"}}}
    \cup {Says("ntp server", k) : k \in BOOLEAN} \cup {Says("aaa host", "tacacs")}
    \cup {Block("snmp community", c, b) : c \in {"public", "x"}, b \in {<<>>, <<On("rw")>>, <<Says("group", "operator")>>}}
    \cup {Block("snmp user", "u", b) : b \in {<<>>, <<On("auth")>>, <<On("auth"), On("priv")>>}}
    \cup {Block("interface", "e1", b) : b \in {<<On("bpduguard"), No("shutdown")>>, <<No("bpduguard"), On("shutdown")>>,
                                               <<Says("access-group", "acl"), Says("ip address", 1)>>}}
    \cup {Block("router", "ospf", b) : b \in {<<>>, <<On("authentication")>>}}
    \cup {Block("ip access-list", l, <<Says("entry", [action |-> "permit", partial |-> p, services |-> <<"any">>])>>) :
             l \in {"acl", "other"}, p \in BOOLEAN}

EosStatements ==
    {Says("hostname", "e"), Says("dns domain", "d"), Says("banner login", <<>>), Says("banner login", <<"text">>),
     Says("image version", 4), Says("ntp server", 1), Says("logging host", 1)}
    \cup {Block("management ssh", "", b) : b \in {<<>>, <<On("shutdown")>>, <<Says("idle-timeout", 0)>>, <<Says("idle-timeout", 15), No("shutdown")>>}}
    \cup {Block("management api", "", b \o p) : b \in {<<>>, <<On("shutdown")>>, <<No("shutdown")>>},
             p \in {<<>>, <<Says("protocol", "http")>>, <<Says("protocol", "https"), Says("protocol", "http")>>, <<No("protocol")>>}}
    \cup {Block("management telnet", "", b) : b \in {<<>>, <<On("shutdown")>>}}
    \cup {Block("username", t, <<Says("role", "network-admin")>>) : t \in {"secret", "nopassword"}}
    \cup {Says("aaa authentication", m) : m \in {{"group"}, {"group", "local"}}} \cup {Says("aaa host", "radius")}
    \cup {Block("snmp community", c, b) : c \in {"public", "x"}, b \in {<<>>, <<On("ro")>>, <<On("rw")>>, <<Says("view", "v"), On("rw")>>}}
    \cup {Block("interface", "e1", <<No("switchport"), Says("ip address", 1), On("shutdown")>>)}
    \cup {Block("ip route", 0, b) : b \in {<<Says("hop", 1)>>, <<Says("interface", "e1")>>, <<Says("interface", "e1"), Says("hop", 1)>>}}

WlanCommand(id, setting, value) == Says("wlan command", <<id, setting, value>>)
WlcStatements ==
    {Says("sysname", "w"), Says("Product Version", 8), Says("sessions timeout", 0), Says("sessions timeout", 5),
     Says("logging host", 1), Says("ntp server", 1), Says("mgmtuser", "read-write"), On("rogue detection"),
     Says("ap row", "ap1"), Says("snmp community", "public"), Says("interface command", <<"address", "i", 1>>), Says("interface command", <<"vlan", "i", 2>>)}
    \cup {Says(k, v) : k \in {"network telnet", "network webmode"}, v \in BOOLEAN}
    \cup {Says("snmp version", <<v, s>>) : v \in {"v1", "v2c"}, s \in {"enable", "disable"}}
    \cup {Says("aaa auth mgmt", m) : m \in {{"radius"}, {"local", "radius"}}} \cup {Block("aaa host", "radius", <<On("key")>>)}
    \cup {WlanCommand(i, x, v) : i \in {"1", "2"}, x \in {"security wpa", "wep", "wpa2", "enabled"}, v \in BOOLEAN}
    \cup {WlanCommand(i, x[1], x[2]) : i \in {"1", "2"}, x \in {<<"none", TRUE>>, <<"ssid", "s">>, <<"akm", "psk">>, <<"no akm", "psk">>, <<"other", 0>>}}

Off(s) == [s EXCEPT !.no = TRUE]
PolicyLine(name, field, of) == Says("policy", <<name, field, of>>)
JunosActive ==
    {Says("host-name", "j"), Says("Chassis", "srx"), Says("root-login", "deny"), Says("user", "u"), Says("idle-timeout", 0), Says("message", "m"),
     Says("syslog host", 1), On("telnet"), On("ssh"), On("http")}
    \cup {Says("authentication-order", m) : m \in {{"radius"}, {"radius", "password"}}}
    \cup {Block("aaa host", 1, <<On("secret")>>)}
    \cup {Block("community", c, b) : c \in {"public", "x"}, b \in {<<>>, <<On("read-write")>>}}
    \cup {Block("interface", n, b) : n \in {"ge-0", "ge-0.0"}, b \in {<<>>, <<On("disable")>>}}
    \cup {Block("route", 0, b) : b \in {<<>>, <<Says("next-hop", 1)>>, <<On("discard")>>}}
    \cup {Says("address", <<b, "web", v>>) : b \in {"global", "dmz"}, v \in {1, 2}}
    \cup {Says("address-set", <<"all", "web", k>>) : k \in {"address", "address-set"}}
    \cup {PolicyLine("p", "source-address", {a}) : a \in {"any", "web", "all"}}
    \cup {PolicyLine("p", "then", "permit"), PolicyLine("q", "then", "deny")}
JunosStatements == JunosActive \cup {Off(s) : s \in JunosActive}

FortiPolicy == {a \o b \o c \o d \o e :
    a \in {<<>>, <<Says("srcaddr", {"all"})>>, <<Says("srcaddr", {"web"})>>}, b \in {<<>>, <<Says("dstaddr", {"all"})>>, <<Says("dstaddr", {"all"}), On("negate")>>},
    c \in {<<>>, <<Says("action", "accept")>>, <<Says("action", "accept"), No("status")>>},
    d \in {<<>>, <<Says("logtraffic", "disable")>>}, e \in {<<>>, <<On("ips-sensor")>>}}
FortiStatements ==
    {On("vdom"), Says("hostname", "f"), Says("#config-version", 7), Says("ha mode", "standalone"), Says("admintimeout", 0), On("strong-crypto"),
     On("password-policy"), On("ntpsync"), On("fortiguard"), On("ssl status"), Says("syslogd", 1), On("log memory"), Says("certificate", "c"),
     Block("aaa host", "radius", <<On("secret")>>), Says("snmp community", "public"), Block("snmp user", "u", <<On("auth")>>)}
    \cup {Block("admin", p, b) : p \in {"super_admin", "reader"}, b \in {<<>>, <<On("trusthost")>>}}
    \cup {Block("interface", "i", <<Says("allowaccess", a)>>) : a \in {{"ssh"}, {"telnet"}, {"http", "https"}}}
    \cup {Block("ntp server", 1, b) : b \in {<<>>, <<On("authentication")>>, <<No("authentication")>>}}
    \cup {Block("static", t, b) : t \in {NotFound, "net"}, b \in {<<>>, <<No("status")>>}}
    \cup {Block("address", "web", <<Says("is", AsaAddress(f, 1))>>) : f \in {"subnet", "iprange", "fqdn"}}
    \cup {Block("service", "s", b) : b \in {<<>>, <<Says("tcp", 1), Says("udp", 1)>>, <<On("icmp")>>, <<Says("number", 50)>>, <<Says("sctp", 1)>>}}
    \cup {Block("vip", "v", b \o <<Says("extip", 1), Says("mappedip", 2)>>) : b \in {<<>>, <<On("portforward"), Says("mappedport", 80)>>}}
    \cup {Block("policy", 1, b) : b \in FortiPolicy}
    \cup {Block("vap", "w", <<Says("security", x)>>) : x \in {"open", "captiveportal", "wpaonlypersonal", "unheard of"}}

Within(kind, name, system, body) == Block(kind, name, <<Says("in", system)>> \o body)
PanosStatements ==
    {On("malformed"), Says("hostname", "p"), Says("idle-timeout", 0), Says("idle-timeout", 5), Says("password-complexity", FALSE), Says("ha enabled", TRUE),
     Says("snmp v2c", "public"), Says("vsys", <<"vsys1">>), Says("vsys", <<"vsys1", "vsys2">>), Block("zone", "trust", <<On("e1")>>),
     Block("interface", "e1", <<Says("ip", 1)>>), Block("static-route", 0, <<Says("virtual-router", "v")>>)}
    \cup {Says("disable", <<"telnet", d>>) : d \in BOOLEAN} \cup {Says("ntp server", a) : a \in {NotFound, "none", "symmetric-key"}}
    \cup {Block("user", r, <<Says("phash", h)>>) : r \in {"superuser", NotFound}, h \in {"$1$", "$6$", "unheard of"}}
    \cup {Within("address", "web", system, <<Says("is", AsaAddress("ip-netmask", 1))>>) : system \in {Shared, "vsys1", "vsys2"}}
    \cup {Within("rule", "r", system, b) : system \in {"vsys1", "vsys2"}, b \in {
             <<>>, <<Says("source", "web"), Says("action", "allow"), Says("log-end", FALSE), On("group")>>, <<Says("action", "deny")>>,
             <<Says("disabled", TRUE)>>, <<Says("disabled", FALSE), Says("destination", "web"), Says("log-end", TRUE), On("vulnerability")>>}}
    \cup {Within("rule-hit-count", "r", "vsys1", <<Says("hits", h)>>) : h \in {0, 7}}
    \cup {Within("nat rule", "n", "vsys1", <<Says("dynamic-ip-and-port", d)>> \o b) :
             d \in {"interface", "one", "several"}, b \in {<<>>, <<Says("destination-translation", 1)>>}}

\* Two entries over two protocols, and what a device prints of a list of its own.
CountedRules == UNION {[1 .. n -> [action : {"permit", "deny"}, protocol : {"tcp", "ip"}]] : n \in 1 .. 2}
Shown(rules, hits, remark, split) ==
    (IF remark THEN <<[number |-> 1, action |-> "remark", protocol |-> "", hits |-> NotFound]>> ELSE <<>>)
    \o FlattenSeq([i \in DOMAIN rules |-> LET own(h) == [number |-> i + 1, action |-> rules[i].action, protocol |-> rules[i].protocol, hits |-> h]
                   IN IF split THEN <<own(NotFound), own(hits[i]), own(hits[i])>> ELSE <<own(hits[i])>>])

\* Counters reach the rules they are of, or none: of a list that is as it was configured
\* all do, and to a rule of another kind none is given.
CountersFindTheirRules ==
    \A rules \in CountedRules, device \in CountedRules, remark \in BOOLEAN, split \in BOOLEAN :
        LET hits == [i \in DOMAIN device |-> 10 * i]
            given == ApplyHitCounts(rules, Shown(device, hits, remark, split))
        IN /\ rules = device => \A i \in DOMAIN rules : given[i] = IF split THEN 2 * hits[i] ELSE hits[i]
           /\ \A i \in DOMAIN rules : given[i] # NotFound =>
                 /\ Len(device) = Len(rules) /\ device[i].action = rules[i].action
                 /\ rules[i].protocol \in {"ip", device[i].protocol}

NatReadTrue == \A s \in ToSet(Of(config, "nat")) : NatMeans(s.val, TwiceNat(s.val))
-----------------------------------------------------------------------------
MCMaxConfig == [p \in Platform |-> IF p \in {"wlc", "panos"} THEN 3 ELSE 2]
MCStatement == [p \in Platform |-> CASE p = "ios" -> IosStatements [] p = "asa" -> AsaStatements [] p = "nxos" -> NexusStatements
                                         [] p = "eos" -> EosStatements [] p = "wlc" -> WlcStatements
                                         [] p \in {"junos", "junos set"} -> JunosStatements [] p = "forti" -> FortiStatements [] p = "panos" -> PanosStatements]

\* What a platform's configuration exposes, and what its reading shows, hides and invents.
Exposes == CASE platform = "ios" -> IosExposes [] platform = "asa" -> AsaExposes [] platform = "nxos" -> NexusExposes
             [] platform = "eos" -> EosExposes [] platform = "wlc" -> WlcExposes
             [] platform \in {"junos", "junos set"} -> JunosExposes [] platform = "forti" -> FortiExposes [] platform = "panos" -> PanosExposes
Shows == CASE platform = "ios" -> IosShows [] platform = "asa" -> AsaShows [] platform = "nxos" -> NexusShows
           [] platform = "eos" -> EosShows [] platform = "wlc" -> WlcShows
           [] platform \in {"junos", "junos set"} -> JunosShows [] platform = "forti" -> FortiShows [] platform = "panos" -> PanosShows
Hides == CASE platform = "ios" -> IosHides [] platform = "asa" -> AsaHides [] platform = "nxos" -> NexusHides
           [] platform = "eos" -> EosHides [] platform = "wlc" -> WlcHides
           [] platform \in {"junos", "junos set"} -> JunosHides [] platform = "forti" -> FortiHides [] platform = "panos" -> PanosHides
Invents == CASE platform = "ios" -> IosInvents [] platform = "asa" -> AsaInvents [] platform = "nxos" -> NexusInvents
             [] platform = "eos" -> EosInvents [] platform = "wlc" -> WlcInvents
             [] platform \in {"junos", "junos set"} -> JunosInvents [] platform = "forti" -> FortiInvents [] platform = "panos" -> PanosInvents

(* Every exposure a configuration has is in its reading, and the reading   *)
(* shows no other.                                                         *)
ExposuresAreSeen ==
    /\ Exposes \ Hides \subseteq Shows /\ Shows \subseteq Exposes \cup Invents
    /\ platform = "asa" => NatReadTrue /\ (config = <<>> => CountersFindTheirRules)
-----------------------------------------------------------------------------
(* What a configuration and a table say is what is stored of them.         *)
ConfigurationsReadTrue == /\ subject = "acl" => AccessListsHold
                          /\ subject = "routes" => RoutesReadTrue
                          /\ subject = "neighbours" => FieldsStayInTheirRecord
                          /\ subject = "nesting" => NestingReadTrue

(* What a configuration exposes is in what is stored of it, and nothing    *)
(* else, but for what each platform's Hides and Invents name.  Those are   *)
(* what the parsers do, some of it against what they say of themselves: a  *)
(* negated guard of an IOS port is a guard ("a negation is a fact"), a     *)
(* rule of one of several PAN-OS systems does not find the objects of its  *)
(* own ("resolves to its vsys-local definition first"), most sections of   *)
(* Junos take what is inactive for what is in force ("present but          *)
(* inactive"), and NX-OS asks of no port or routing protocol how it is     *)
(* protected.                                                              *)
NoOtherExposureIsHidden == subject = "configs" => ExposuresAreSeen

Init == /\ subject \in {"acl", "routes", "neighbours", "nesting", "configs"}
        /\ AclInit /\ (subject # "acl" => probe = AnyEntry)
        /\ RouteInit /\ (subject # "routes" => dialect = "cisco")
        /\ NeighbourInit /\ (subject # "neighbours" => protocol = "cdp")
        /\ NestingInit /\ (subject # "nesting" => brackets = "blocks")
        /\ ConfigInit /\ (subject # "configs" => platform = "ios")

Next == /\ UNCHANGED subject
        /\ subject # "acl" => UNCHANGED aclVars
        /\ subject # "routes" => UNCHANGED routeVars
        /\ subject # "neighbours" => UNCHANGED neighbourVars
        /\ subject # "nesting" => UNCHANGED nestingVars
        /\ subject # "configs" => UNCHANGED configVars
        /\ \/ subject = "acl" /\ probe = AnyEntry /\ AclNext
           \/ subject = "routes" /\ RouteNext
              /\ (statics' # <<>> => printed' # <<>> \/ dialect = "cisco") /\ (printed' # <<>> => BrieflyConfigured)
           \/ subject = "neighbours" /\ NeighbourNext
           \/ subject = "nesting" /\ NestingNext
           \/ subject = "configs" /\ ConfigNext

vars == <<subject, aclVars, routeVars, neighbourVars, nestingVars, configVars>>

Spec == Init /\ [][Next]_vars
=============================================================================
