----------------------- MODULE FirewallConfigurations -----------------------
(***************************************************************************)
(* The parsers of firewalls other than the ASA: Junos, FortiOS and PAN-OS  *)
(* configurations.                                                         *)
(***************************************************************************)
EXTENDS ConfigReader, FiniteSetsExt
-----------------------------------------------------------------------------
(***************************************************************************)
(* The parser of Junos configurations, in braces ("junos") or in set form  *)
(* ("junos set").  A statement may be deactivated, which `no` stands for:  *)
(* it is there and does nothing.  Between braces it is marked; in set form *)
(* the mark is a line of its own, which is not read.                       *)
(***************************************************************************)

\* What there is of a kind, active or not; most sections do not ask.
JunosUnder(kind) == SelectSeq(config, LAMBDA s : s.is = kind)
Inactive(s) == s.no /\ platform = "junos"
JunosHas(kind) == \E s \in ToSet(JunosUnder(kind)) : ~Inactive(s)
JunosLast(kind) == LET s == JunosUnder(kind) IN IF s = <<>> THEN NotFound ELSE s[Len(s)].val
JunosFirsts(kind) ==
    LET s == JunosUnder(kind)  first == {i \in DOMAIN s : \A j \in 1 .. i - 1 : s[j].val # s[i].val}
    IN {s[i] : i \in first}
JunosRefused == config = <<>>

JunosDevice == [hostname |-> JunosLast("host-name"), version |-> FirstOf(config, "show version"), model |-> FirstKnown(<<FirstOf(config, "Model"), FirstOf(config, "Chassis")>>)]

\* A service is on by being there, and off otherwise.
JunosServices == [ssh |-> JunosHas("ssh"), telnet |-> JunosHas("telnet"), http |-> JunosHas("http"), https |-> JunosHas("https"),
                  root_login |-> JunosLast("root-login"), protocol |-> JunosLast("protocol-version")]
JunosLogin == [users |-> {s.val : s \in ToSet(JunosUnder("user"))}, banner |-> JunosLast("message"),
               timeout |-> IF JunosLast("idle-timeout") = NotFound THEN NotFound ELSE 60 * JunosLast("idle-timeout")]
JunosSyslog == {s.val : s \in JunosFirsts("syslog host")}
JunosAaa == [servers |-> {[host |-> s.val, key |-> OrNotFound(\E t \in ToSet(JunosUnder("aaa host")) : t.val = s.val /\ Has(t.body, "secret"))] :
                             s \in JunosFirsts("aaa host")},
             fallback |-> IF JunosLast("authentication-order") = NotFound THEN NotFound ELSE "password" \in JunosLast("authentication-order")]

\* A unit is an interface by itself; a line that is not a disabling one makes it up, if
\* none has decided.
JunosInterfaces ==
    LET of(key) == SelectSeq(JunosUnder("interface"), LAMBDA s : s.val = key)
        down(s) == Inactive(s) \/ Has(s.body, "disable")
    IN {[name |-> k, admin_up |-> ~\E s \in ToSet(of(k)) : down(s),
         addresses |-> UNION {{a.val : a \in ToSet(Of(s.body, "address"))} : s \in ToSet(of(k))}] :
           k \in {s.val : s \in ToSet(JunosUnder("interface"))}}

JunosRoutes == {[to |-> s.val, hop |-> FirstOf(s.body, "next-hop"), discard |-> Has(s.body, "discard")] :
                   s \in {t \in ToSet(JunosUnder("route")) : Has(t.body, "next-hop") \/ Has(t.body, "discard")}}

JunosSnmp == {[default |-> s.val = "public", rw |-> \E t \in ToSet(JunosUnder("community")) : t.val = s.val /\ Has(t.body, "read-write")] :
                 s \in JunosFirsts("community")}

\* Objects of every book, of zones too, are in one; the first of a name is kept.  Only
\* addresses are members of a set.
AddressBook ==
    LET named == JunosUnder("address")
        first(n) == CHOOSE i \in DOMAIN named : named[i].val[2] = n /\ \A j \in 1 .. i - 1 : named[j].val[2] # n
    IN {<<n, named[first(n)].val[3]>> : n \in {s.val[2] : s \in ToSet(named)}}
SetMembers(name) == {s.val[2] : s \in {t \in ToSet(JunosUnder("address-set")) : t.val[1] = name /\ t.val[3] = "address"}}

\* A policy is the lines of its name between two zones: it denies unless it says that
\* it permits, and is disabled by any one line that is.
Policy(name) ==
    LET lines == SelectSeq(JunosUnder("policy"), LAMBDA s : s.val[1] = name)
        of(field) == UNION {l.val[3] : l \in {m \in ToSet(lines) : m.val[2] = field}}
        action == SelectSeq(lines, LAMBDA l : l.val[2] = "then")
    IN [name |-> name, src |-> of("source-address"), dst |-> of("destination-address"), services |-> of("application"),
        action |-> IF action = <<>> THEN "deny" ELSE Last(action).val[3],
        enabled |-> ~\E l \in ToSet(lines) : Inactive(l)]
JunosPolicies == {Policy(n) : n \in {s.val[1] : s \in ToSet(JunosUnder("policy"))}}
-----------------------------------------------------------------------------
JunosRisks == {"telnet", "http", "no limit", "community", "no fallback", "no logging", "permit", "unresolved", "port up"}

JunosExposes ==
    LET live == SelectSeq(config, LAMBDA s : ~s.no)
        some(kind, test(_)) == \E s \in ToSet(Of(live, kind)) : test(s)
        lines(n) == SelectSeq(live, LAMBDA s : s.is = "policy" /\ s.val[1] = n)
        stated(n, f, v) == \E l \in ToSet(lines(n)) : l.val[2] = f /\ (f = "then" => l.val[3] = v)
    IN {x \in JunosRisks :
        CASE x = "telnet" -> some("telnet", LAMBDA s : TRUE) [] x = "http" -> some("http", LAMBDA s : TRUE)
          [] x = "no limit" -> some("idle-timeout", LAMBDA s : s.val = 0)
          [] x = "community" -> some("community", LAMBDA s : s.val = "public" \/ Has(s.body, "read-write"))
          [] x = "no fallback" -> some("authentication-order", LAMBDA s : "password" \notin s.val)
          [] x = "no logging" -> ~some("syslog host", LAMBDA s : TRUE)
          [] x = "permit" -> \E n \in {"p", "q"} : stated(n, "then", "permit")
          [] x = "unresolved" -> some("policy", LAMBDA l : l.val[2] = "source-address" /\ \E a \in l.val[3] \ {"any"} :
                                     /\ ~some("address", LAMBDA s : s.val[2] = a) /\ ~some("address-set", LAMBDA s : s.val[1] = a))
          [] x = "port up" -> some("interface", LAMBDA s : ~Has(s.body, "disable") /\
                                      ~some("interface", LAMBDA t : t.val \in {s.val, "ge-0"} /\ Has(t.body, "disable")))}
JunosShows ==
    {x \in JunosRisks :
        CASE x = "telnet" -> JunosServices.telnet [] x = "http" -> JunosServices.http
          [] x = "no limit" -> JunosLogin.timeout = 0
          [] x = "community" -> \E c \in JunosSnmp : c.default \/ c.rw
          [] x = "no fallback" -> JunosAaa.fallback = FALSE
          [] x = "no logging" -> JunosSyslog = {}
          [] x = "permit" -> \E p \in JunosPolicies : p.action = "permit" /\ p.enabled
          [] x = "unresolved" -> \E p \in JunosPolicies : \E a \in p.src \ {"any"} : SetMembers(a) = {} /\ ~\E o \in AddressBook : o[1] = a
          [] x = "port up" -> \E i \in JunosInterfaces : i.admin_up}

\* What is deactivated is read as if it were not, all of it in set form: it hides what
\* is missing without it, and overrides what stands.
Deactivated(kinds) == \E s \in ToSet(config) : s.no /\ s.is \in kinds
JunosHides ==
    {x \in JunosRisks :
        CASE x = "no logging" -> Deactivated({"syslog host"})
          [] x = "no fallback" -> Len(JunosUnder("authentication-order")) > 1
          [] x = "port up" -> Deactivated({"interface"}) [] x = "permit" -> Deactivated({"policy"}) [] x = "unresolved" -> Deactivated({"address", "address-set"})
          [] OTHER -> FALSE}
\* Between braces services, interfaces and policies that are deactivated are known to be;
\* a port stays up though the port it is a unit of is disabled, and a set of sets is none.
JunosInvents ==
    {x \in JunosRisks :
        CASE x \in {"community", "no fallback", "no limit"} -> Deactivated({"community", "authentication-order", "idle-timeout"})
          [] x \in {"telnet", "http", "permit"} -> platform = "junos set" /\ Deactivated({"telnet", "http", "policy"})
          [] x = "unresolved" -> Deactivated({"policy"}) \/ \E s \in ToSet(config) : s.is = "address-set" /\ s.val[3] # "address"
          [] x = "port up" -> platform = "junos set" \/ \E s \in ToSet(config) : s.is = "interface" /\ Has(s.body, "disable")
          [] OTHER -> FALSE}
-----------------------------------------------------------------------------
(***************************************************************************)
(* The parser of FortiOS configurations.  Sections are found by name at    *)
(* the top of the file, so that everything in a virtual domain is unseen;  *)
(* a statement here is an entry of a section or a setting of one.          *)
(***************************************************************************)

\* Where there are virtual domains, the sections stand inside of them.
Forti == IF Has(config, "vdom") THEN <<>> ELSE config

FortiDevice == [hostname |-> FirstOf(Forti, "hostname"), version |-> FirstOf(config, "#config-version"),
                ha |-> IF FirstOf(Forti, "ha mode") = NotFound THEN NotFound ELSE FirstOf(Forti, "ha mode") # "standalone"]

\* What the interfaces let in, together, is what the device answers on.
AllowAccess == UNION {UNION {a.val : a \in ToSet(Of(s.body, "allowaccess"))} : s \in ToSet(Of(Forti, "interface"))}
FortiManagement ==
    [timeout |-> IF FirstOf(Forti, "admintimeout") = NotFound THEN NotFound ELSE 60 * FirstOf(Forti, "admintimeout"),
     telnet |-> IF AllowAccess = {} THEN NotFound ELSE "telnet" \in AllowAccess,
     http |-> IF AllowAccess = {} THEN NotFound ELSE "http" \in AllowAccess,
     https |-> IF AllowAccess = {} THEN OrNotFound(Has(Forti, "strong-crypto") \/ Negated(Forti, "strong-crypto")) ELSE "https" \in AllowAccess,
     complexity |-> OrNotFound(Has(Forti, "password-policy"))]
FortiUsers == EachOf(Forti, "admin", LAMBDA s : [privilege |-> IF s.val = "super_admin" THEN 15 ELSE NotFound,
                                                  trusted |-> Has(s.body, "trusthost"), weak |-> IF Has(s.body, "password") THEN FALSE ELSE NotFound])
FortiAaa == LET servers == EachOf(Forti, "aaa host", LAMBDA s : [type |-> s.val, key |-> Has(s.body, "secret")])
            IN [servers |-> servers, fallback |-> OrNotFound(servers # <<>>)]
FortiLogging == [servers |-> EachOf(Forti, "syslogd", LAMBDA s : s.val), memory |-> ToggleOf(Forti, "log memory")]

\* A server whose authentication is set is taken for authenticated, to whatever it is set.
FortiNtp == IF ~Has(Forti, "ntpsync") THEN NotFound
            ELSE IF Has(Forti, "ntp server") THEN \E s \in ToSet(Of(Forti, "ntp server")) : Mentions(s.body, "authentication")
            ELSE IF Has(Forti, "fortiguard") THEN FALSE ELSE NotFound
FortiSnmp == [communities |-> EachOf(Forti, "snmp community", LAMBDA s : [default |-> s.val = "public", rw |-> FALSE]),
              users |-> EachOf(Forti, "snmp user", LAMBDA s :
                  IF Has(s.body, "auth") THEN IF Has(s.body, "priv") THEN "authPriv" ELSE "authNoPriv" ELSE "noAuthNoPriv")]
FortiInterfaces == EachOf(Forti, "interface", LAMBDA s : [name |-> s.val, addresses |-> EachOf(s.body, "ip", LAMBDA a : a.val),
                                                           admin_up |-> IF ToggleOf(s.body, "status") = NotFound THEN NotFound ELSE Has(s.body, "status")])

\* A route that is disabled is none; one without a destination is the default.
FortiRoutes ==
    EachOf(SelectSeq(Forti, LAMBDA s : s.is = "static" /\ ~Negated(s.body, "status")), "static",
           LAMBDA s : [to |-> IF s.val = NotFound THEN "default" ELSE s.val, hop |-> FirstOf(s.body, "gateway"), out |-> FirstOf(s.body, "device")])
-----------------------------------------------------------------------------
\* An object's addresses; those a name resolves to are not known.
AddressValue(x) == CASE x.form = "subnet" -> <<"subnet", x.of>> [] x.form = "iprange" -> <<"range", x.of>> [] OTHER -> <<"nothing">>

\* Of ports of both protocols those of the first are kept; a protocol that is not
\* known is any.
ServiceValue(body) ==
    IF Has(body, "tcp") THEN <<"tcp", FirstOf(body, "tcp")>> ELSE IF Has(body, "udp") THEN <<"udp", FirstOf(body, "udp")>>
    ELSE IF Has(body, "icmp") THEN <<"icmp">> ELSE IF Has(body, "number") THEN <<"protocol", FirstOf(body, "number")>> ELSE <<"any">>

FortiObjects ==
    EachOf(Forti, "address", LAMBDA s : [name |-> s.val, value |-> AddressValue(FirstOf(s.body, "is"))])
    \o EachOf(Forti, "addrgrp", LAMBDA s : [name |-> s.val, members |-> LastOf(s.body, "member")])
    \o EachOf(Forti, "service", LAMBDA s : [name |-> s.val, value |-> ServiceValue(s.body)])

\* A virtual address is a translation, and an object of its name.
FortiNat ==
    EachOf(SelectSeq(Forti, LAMBDA s : s.is = "vip" /\ Has(s.body, "extip") /\ Has(s.body, "mappedip")), "vip", LAMBDA s :
        [dst |-> FirstOf(s.body, "extip"), to_dst |-> FirstOf(s.body, "mappedip"), ports |-> FirstOf(s.body, "extport"),
         to_port |-> IF Has(s.body, "portforward") THEN FirstOf(s.body, "mappedport") ELSE NotFound])

\* A policy that names no address is from or to all of them.
FortiRules ==
    EachOf(Forti, "policy", LAMBDA s :
        LET named(kind, all) == IF Has(s.body, kind) THEN LastOf(s.body, kind) ELSE {all} IN
        [src |-> named("srcaddr", "all"), dst |-> named("dstaddr", "all"), services |-> named("service", "ALL"),
         enabled |-> ~Negated(s.body, "status"), action |-> IF Has(s.body, "action") THEN FirstOf(s.body, "action") ELSE "deny",
         log |-> IF Has(s.body, "logtraffic") THEN FirstOf(s.body, "logtraffic") \in {"all", "utm"} ELSE NotFound,
         profiles |-> {p \in {"ips-sensor", "av-profile"} : Has(s.body, p)}])

\* Its security in the words of the model, or not known.
Security == [open |-> "open", wep128 |-> "wep", wpapersonal |-> "wpa1", wpaonlypersonal |-> "wpa2-psk", wpa3sae |-> "wpa3-sae", captiveportal |-> "open"]
FortiWlans == EachOf(Forti, "vap", LAMBDA s : [ssid |-> FirstKnown(<<FirstOf(s.body, "ssid"), s.val>>), enabled |-> ToggleOf(s.body, "status"),
                  security |-> IF FirstOf(s.body, "security") \in DOMAIN Security THEN Security[FirstOf(s.body, "security")] ELSE NotFound])
SslVpn == ToggleOf(Forti, "ssl status")
FortiCertificates == EachOf(Forti, "certificate", LAMBDA s : [name |-> s.val, ends |-> NotFound])
-----------------------------------------------------------------------------
FortiRisks == {"telnet", "no limit", "admin", "time", "community", "any to any", "no log", "no profiles", "open network", "default route",
               "all services", "published"}
FortiExposes ==
    LET some(kind, test(_)) == \E s \in ToSet(Of(config, kind)) : test(s)
        permits(s) == ~Negated(s.body, "status") /\ FirstOf(s.body, "action") = "accept"
        every(s, kind, all) == /\ FirstOf(s.body, kind) = {all} /\ ~Has(s.body, "negate")
    IN {x \in FortiRisks :
        CASE x = "telnet" -> some("interface", LAMBDA s : \E a \in ToSet(Of(s.body, "allowaccess")) : "telnet" \in a.val)
          [] x = "no limit" -> some("admintimeout", LAMBDA s : s.val = 0)
          [] x = "admin" -> some("admin", LAMBDA s : s.val = "super_admin" /\ ~Has(s.body, "trusthost"))
          [] x = "time" -> some("ntp server", LAMBDA s : ~Has(s.body, "authentication")) /\ some("ntpsync", LAMBDA s : TRUE)
          [] x = "community" -> some("snmp community", LAMBDA s : s.val = "public")
          [] x = "any to any" -> some("policy", LAMBDA s : permits(s) /\ every(s, "srcaddr", "all") /\ every(s, "dstaddr", "all"))
          [] x = "no log" -> some("policy", LAMBDA s : permits(s) /\ FirstOf(s.body, "logtraffic") = "disable")
          [] x = "no profiles" -> some("policy", LAMBDA s : permits(s) /\ ~Has(s.body, "ips-sensor"))
          [] x = "open network" -> some("vap", LAMBDA s : FirstOf(s.body, "security") \in {"open", "captiveportal"})
          [] x = "default route" -> some("static", LAMBDA s : s.val = NotFound /\ ~Negated(s.body, "status"))
          [] x = "all services" -> some("service", LAMBDA s : s.body = <<>>)
          [] x = "published" -> some("vip", LAMBDA s : TRUE)}
FortiShows ==
    LET rules == {r \in ToSet(FortiRules) : r.enabled /\ r.action = "accept"} IN
    {x \in FortiRisks :
        CASE x = "telnet" -> FortiManagement.telnet = TRUE
          [] x = "no limit" -> FortiManagement.timeout = 0
          [] x = "admin" -> \E u \in ToSet(FortiUsers) : u.privilege = 15 /\ ~u.trusted
          [] x = "time" -> FortiNtp = FALSE
          [] x = "community" -> \E c \in ToSet(FortiSnmp.communities) : c.default
          [] x = "any to any" -> \E r \in rules : r.src = {"all"} /\ r.dst = {"all"}
          [] x = "no log" -> \E r \in rules : r.log = FALSE
          [] x = "no profiles" -> \E r \in rules : r.profiles = {}
          [] x = "open network" -> \E w \in ToSet(FortiWlans) : w.security = "open"
          [] x = "default route" -> \E r \in ToSet(FortiRoutes) : r.to = "default"
          [] x = "all services" -> \E o \in {t \in ToSet(FortiObjects) : "value" \in DOMAIN t} : o.value = <<"any">>
          [] x = "published" -> FortiNat # <<>>}

\* A device with virtual domains shows nothing; a server whose authentication is
\* switched off is one that authenticates.
FortiHides ==
    IF Has(config, "vdom") THEN FortiRisks
    ELSE IF \E s \in ToSet(Of(config, "ntp server")) : Mentions(s.body, "authentication") THEN {"time"} ELSE {}
\* A policy by another kind of address, or that negates what it names, is from or to
\* all; a service of another kind is every service; a clock without servers is not
\* authenticated.
FortiInvents ==
    {x \in {"any to any", "all services", "time"} :
        CASE x = "any to any" -> \E s \in ToSet(Of(config, "policy")) : ~Has(s.body, "srcaddr") \/ ~Has(s.body, "dstaddr") \/ Has(s.body, "negate")
          [] x = "all services" -> \E s \in ToSet(Of(config, "service")) : Has(s.body, "sctp")
          [] x = "time" -> Has(config, "fortiguard")}
-----------------------------------------------------------------------------
(***************************************************************************)
(* The parser of PAN-OS configurations, which are XML documents: one that  *)
(* is not well formed is read as nothing at all and marked so.  A firewall *)
(* may hold several virtual systems, each with its objects and rules,      *)
(* beside the objects all of them share.                                   *)
(***************************************************************************)

WellFormed == ~Has(config, "malformed")
Panos == IF WellFormed THEN config ELSE <<>>

PanosDevice == [hostname |-> FirstOf(Panos, "hostname"), ha |-> FirstOf(Panos, "ha enabled"), failed |-> ~WellFormed,
                version |-> FirstOf(Panos, "show system info"), serial |-> FirstOf(Panos, "show system info")]

\* Services are written as switched off; one that is not written is not known.
DisabledFlag(service) ==
    LET s == SelectSeq(Panos, LAMBDA x : x.is = "disable" /\ x.val[1] = service) IN IF s = <<>> THEN NotFound ELSE s[1].val[2]
ServiceEnabled(service) == IF DisabledFlag(service) = NotFound THEN NotFound ELSE ~DisabledFlag(service)
PanosManagement ==
    [services |-> [x \in {"telnet", "http", "https", "ssh", "snmp"} |-> ServiceEnabled(x)],
     acl |-> OrNotFound(Has(Panos, "permitted-ip")), complexity |-> FirstOf(Panos, "password-complexity"),
     timeout |-> IF FirstOf(Panos, "idle-timeout") = NotFound THEN NotFound ELSE 60 * FirstOf(Panos, "idle-timeout")]

\* A hash that is not recognised is not accused of being weak.
WeakPhash(phash) == CASE phash \in {NotFound, "unheard of"} -> NotFound [] OTHER -> phash = "$1$"
PanosUsers == EachOf(Panos, "user", LAMBDA s : [privilege |-> IF s.val = "superuser" THEN 15 ELSE NotFound,
                                                 weak |-> WeakPhash(FirstOf(s.body, "phash"))])

\* Time is authenticated when every server is; what is not written is not.
NtpServers == EachOf(Panos, "ntp server", LAMBDA s : s.val \notin {NotFound, "none"})
PanosNtp == IF NtpServers = <<>> THEN NotFound ELSE \A i \in DOMAIN NtpServers : NtpServers[i]
\* Destinations that only one virtual system has are not read.
PanosLogging == EachOf(SelectSeq(Panos, LAMBDA s : s.is = "syslog" /\ s.body = <<>>), "syslog", LAMBDA s : s.val)
PanosSnmp == [communities |-> EachOf(Panos, "snmp v2c", LAMBDA s : [default |-> s.val = "public", rw |-> FALSE]),
              users |-> EachOf(Panos, "snmp v3", LAMBDA s : "authPriv")]

\* An interface is in the zone that names it.
PanosInterfaces == EachOf(Panos, "interface", LAMBDA s : [name |-> s.val, addresses |-> EachOf(s.body, "ip", LAMBDA a : a.val),
    zone |-> LET in == SelectSeq(Panos, LAMBDA z : z.is = "zone" /\ Has(z.body, s.val)) IN IF in = <<>> THEN NotFound ELSE in[Len(in)].val])
\* A route that discards is one without a next hop.
PanosRoutes == EachOf(Panos, "static-route", LAMBDA s : [to |-> s.val, hop |-> FirstOf(s.body, "ip-address"), vrf |-> FirstOf(s.body, "virtual-router")])
-----------------------------------------------------------------------------
\* The systems of the firewall, in which order they stand; a thing shared is in none.
Shared == "shared"
Systems == IF Has(Panos, "vsys") THEN FirstOf(Panos, "vsys") ELSE <<>>
In(system, kind) == SelectSeq(Panos, LAMBDA s : s.is = kind /\ ~s.no /\ FirstOf(s.body, "in") = system)
\* With several systems a name is qualified by its own.
Qualified(system, name) == IF Len(Systems) > 1 /\ system # Shared THEN <<system, name>> ELSE <<name>>

PanosAddress(x) == CASE x.form \in {"ip-netmask", "ip-range"} -> <<x.form, x.of>> [] OTHER -> <<"nothing">>
\* Of ports of both protocols those of the first are kept; any other protocol is any.
PanosService(body) == CASE Has(body, "tcp") -> <<"tcp", FirstOf(body, "tcp")>> [] Has(body, "udp") -> <<"udp", FirstOf(body, "udp")>> [] OTHER -> <<"any">>

\* Members of a group are qualified with it, those that all systems share too; what is
\* in a dynamic group is decided elsewhere.
CollectObjects(system) ==
    LET each(kind, f(_)) == LET s == In(system, kind) IN [i \in DOMAIN s |-> [name |-> Qualified(system, s[i].val)] @@ f(s[i])]
    IN each("address", LAMBDA s : [value |-> PanosAddress(FirstOf(s.body, "is"))])
       \o each("address-group", LAMBDA s : [members |-> EachOf(s.body, "member", LAMBDA m : Qualified(system, m.val))])
       \o each("service", LAMBDA s : [value |-> PanosService(s.body)])
PanosObjects == CollectObjects(Shared) \o FlattenSeq([i \in DOMAIN Systems |-> CollectObjects(Systems[i])])

\* Counters are asked for the first system only, and found by the name of the rule.
HitsOf(system, name) == LET s == SelectSeq(In(system, "rule-hit-count"), LAMBDA x : x.val = name)
                        IN IF s = <<>> THEN NotFound ELSE FirstOf(s[Len(s)].body, "hits")
SecurityRule(system, s) ==
    LET members(kind) == EachOf(s.body, kind, LAMBDA m : <<m.val>>)
        named(kind) == IF members(kind) = <<>> THEN {<<"any">>} ELSE ToSet(members(kind))
    IN [name |-> Qualified(system, s.val), src |-> named("source"), dst |-> named("destination"), services |-> named("service"),
        enabled |-> IF Has(s.body, "disabled") THEN ~FirstOf(s.body, "disabled") ELSE TRUE,
        action |-> IF Has(s.body, "action") THEN FirstOf(s.body, "action") ELSE "allow",
        log |-> FirstOf(s.body, "log-end"), profiles |-> {p \in {"group", "virus", "vulnerability"} : Has(s.body, p)}, hits |-> HitsOf(system, s.val)]
PanosRules == FlattenSeq([i \in DOMAIN Systems |-> LET s == In(Systems[i], "rule") IN [k \in DOMAIN s |-> SecurityRule(Systems[i], s[k])]])

\* What the address of an interface or one of a pool becomes is not in the rule; what a
\* pool without ports becomes is not in it either, which is not said.
NormaliseNat(body) ==
    LET ports == FirstOf(body, "dynamic-ip-and-port") IN
    [to_dst |-> FirstOf(body, "destination-translation"),
     to_src |-> IF Has(body, "static-ip") THEN FirstOf(body, "static-ip") ELSE IF ports = "one" THEN ports ELSE NotFound,
     unread |-> ~Has(body, "static-ip") /\ ports \in {"interface", "several"}]
PanosNat == FlattenSeq([i \in DOMAIN Systems |-> LET s == In(Systems[i], "nat rule") IN [k \in DOMAIN s |-> NormaliseNat(s[k].body)]])
PanosCertificates == EachOf(Panos, "certificate", LAMBDA s : [name |-> s.val, ends |-> FirstOf(s.body, "not-valid-after")])
-----------------------------------------------------------------------------
PanosRisks == {"telnet", "no limit", "weak hash", "superuser", "time", "community", "any to any", "no log", "no profiles", "unused",
               "names", "hidden translation"}
PanosExposes ==
    LET some(kind, test(_)) == \E s \in ToSet(Of(config, kind)) : test(s)
        rule(test(_)) == some("rule", LAMBDA s : FirstOf(s.body, "disabled") # TRUE /\ FirstOf(s.body, "action") # "deny" /\ test(s.body)
                                                  /\ some("vsys", LAMBDA v : FirstOf(s.body, "in") \in ToSet(v.val)))
    IN {x \in PanosRisks :
        CASE x = "telnet" -> some("disable", LAMBDA s : s.val = <<"telnet", FALSE>>)
          [] x = "no limit" -> some("idle-timeout", LAMBDA s : s.val = 0)
          [] x = "weak hash" -> some("user", LAMBDA s : FirstOf(s.body, "phash") = "$1$")
          [] x = "superuser" -> some("user", LAMBDA s : s.val = "superuser")
          [] x = "time" -> some("ntp server", LAMBDA s : s.val \in {NotFound, "none"})
          [] x = "community" -> some("snmp v2c", LAMBDA s : s.val = "public")
          [] x = "any to any" -> rule(LAMBDA b : ~Has(b, "source") /\ ~Has(b, "destination"))
          [] x = "no log" -> rule(LAMBDA b : FirstOf(b, "log-end") = FALSE)
          [] x = "no profiles" -> rule(LAMBDA b : ~Has(b, "group") /\ ~Has(b, "vulnerability"))
          [] x = "unused" -> rule(LAMBDA b : \E h \in ToSet(Of(config, "rule-hit-count")) : FirstOf(h.body, "hits") = 0 /\ FirstOf(h.body, "in") = FirstOf(b, "in"))
          \* A rule about an object of its own system, or a shared one.
          [] x = "names" -> rule(LAMBDA b : \E s \in ToSet(Of(config, "address")) :
                                 s.val = FirstOf(b, "source") /\ FirstOf(s.body, "in") \in {Shared, FirstOf(b, "in")})
          [] x = "hidden translation" -> some("nat rule", LAMBDA s : FirstOf(s.body, "dynamic-ip-and-port") \in {"interface", "several"}
                                           /\ some("vsys", LAMBDA v : FirstOf(s.body, "in") \in ToSet(v.val)))}
PanosShows ==
    LET rules == {r \in ToSet(PanosRules) : r.enabled /\ r.action # "deny"}
        objects == {o.name : o \in ToSet(PanosObjects)}
    IN {x \in PanosRisks :
        CASE x = "telnet" -> PanosManagement.services.telnet = TRUE
          [] x = "no limit" -> PanosManagement.timeout = 0
          [] x = "weak hash" -> \E u \in ToSet(PanosUsers) : u.weak = TRUE
          [] x = "superuser" -> \E u \in ToSet(PanosUsers) : u.privilege = 15
          [] x = "time" -> PanosNtp = FALSE
          [] x = "community" -> \E c \in ToSet(PanosSnmp.communities) : c.default
          [] x = "any to any" -> \E r \in rules : r.src = {<<"any">>} /\ r.dst = {<<"any">>}
          [] x = "no log" -> \E r \in rules : r.log = FALSE
          [] x = "no profiles" -> \E r \in rules : r.profiles = {}
          [] x = "unused" -> \E r \in rules : r.hits = 0
          [] x = "names" -> \E r \in rules : r.src \cap objects # {}
          [] x = "hidden translation" -> \E n \in ToSet(PanosNat) : n.unread}

\* A document that is not well formed shows nothing, and says so; with several systems
\* a rule finds the objects they share and not those of its own, whose names are
\* qualified where the rule's are not.
PanosHides ==
    IF ~WellFormed THEN PanosRisks
    ELSE IF Len(Systems) > 1 /\ In(Shared, "address") = <<>> THEN {"names"} ELSE {}
PanosInvents == {}
=============================================================================
