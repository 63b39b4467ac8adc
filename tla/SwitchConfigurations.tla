------------------------ MODULE SwitchConfigurations ------------------------
(***************************************************************************)
(* The parsers of data-centre switches: NX-OS and EOS configurations.      *)
(***************************************************************************)
EXTENDS ConfigReader, FiniteSetsExt
-----------------------------------------------------------------------------
(***************************************************************************)
(* The parser of NX-OS configurations.  NX-OS lists the features that are  *)
(* on, so that one that is not listed is off; otherwise it reads like IOS, *)
(* and its lists and routes are read by the same readers.                  *)
(***************************************************************************)

Features == {s.val : s \in ToSet(Of(config, "feature"))}

NexusDevice == [hostname |-> FirstOf(config, "hostname"), version |-> FirstOf(config, "version"),
                model |-> FirstOf(config, "chassis"), serial |-> FirstOf(config, "serial")]

\* A feature that is not listed is off; the rest of it is read where it stands.
NexusManagement ==
    [ssh |-> "ssh" \in Features, telnet |-> "telnet" \in Features, https |-> OrNotFound("nxapi" \in Features),
     key_bits |-> FirstOf(config, "ssh key"), timeout |-> LastOf(Bodies(config, "line vty"), "exec-timeout"),
     banner |-> FirstOf(config, "banner"),
     complexity |-> LET s == SelectSeq(config, LAMBDA t : t.is = "strength-check")
                    IN IF s = <<>> THEN NotFound ELSE ~s[1].no]

NexusUsers ==
    EachOf(config, "username", LAMBDA s :
        [privilege |-> IF Has(s.body, "role") /\ FirstOf(s.body, "role") = "network-admin" THEN 15 ELSE NotFound,
         weak |-> IF s.val = NotFound THEN NotFound ELSE s.val \in {0, 7}])

\* A line is a list of methods if it has four words, whatever the fourth is.
NexusAaa ==
    LET lists == SelectSeq(Of(config, "aaa authentication"), LAMBDA s : s.val # NotFound)
    IN [fallback |-> IF lists = <<>> THEN NotFound ELSE \E l \in ToSet(lists) : "local" \in l.val,
        servers |-> EachOf(config, "aaa host", LAMBDA s : [type |-> s.val, key |-> Has(s.body, "key")])]

NexusLogging == [servers |-> EachOf(config, "logging server", LAMBDA s : s.val),
                 buffered |-> OrNotFound(Has(config, "logging logfile")), timestamps |-> FirstOf(config, "logging timestamp")]

NexusNtp == IF Has(config, "ntp authenticate") THEN TRUE
            ELSE IF Has(config, "ntp server") THEN \E s \in ToSet(Of(config, "ntp server")) : s.val ELSE NotFound

\* A community writes by its word, or by a group whose name ends in admin.
NexusSnmp ==
    [enabled |-> Has(config, "snmp community"),
     communities |-> EachOf(config, "snmp community", LAMBDA s :
         [default |-> s.val = "public", rw |-> Has(s.body, "rw") \/ LastOf(s.body, "group") \in {"admin", "network-admin"}]),
     users |-> EachOf(config, "snmp user", LAMBDA s :
         IF Has(s.body, "priv") THEN "authPriv" ELSE IF Has(s.body, "auth") THEN "authNoPriv" ELSE "noAuthNoPriv")]

\* Routed and down unless it says otherwise, so that only what is said is read; and a
\* protection is there or not known, negated or not.
NexusInterfaces ==
    EachOf(config, "interface", LAMBDA s :
        [name |-> s.val, addresses |-> EachOf(s.body, "ip address", LAMBDA a : a.val), mode |-> LastOf(s.body, "switchport mode"),
         admin_up |-> IF Negated(s.body, "shutdown") THEN TRUE ELSE IF Has(s.body, "shutdown") THEN FALSE ELSE NotFound,
         bpduguard |-> OrNotFound(Mentions(s.body, "bpduguard")), port_security |-> OrNotFound(Mentions(s.body, "port-security"))])

NexusL2 == [vlans |-> EachOf(config, "vlan", LAMBDA s : s.val), mode |-> FirstOf(config, "spanning-tree mode"),
            bpduguard |-> OrNotFound(Has(config, "bpduguard default")),
            snooping |-> OrNotFound(Has(config, "ip dhcp snooping")), neighbours |-> EachOf(config, "cdp neighbour", LAMBDA s : s.val)]

NexusRouting ==
    EachOf(config, "router", LAMBDA s : [authenticated |-> OrNotFound(Mentions(s.body, "authentication") \/ Mentions(s.body, "password"))])

\* Each list is a rulebase of its own, numbered through; what an entry means is read
\* as for IOS, and an entry of which only a part is, is kept as one that is inert.
NexusRules ==
    FlattenSeq(EachOf(config, "ip access-list", LAMBDA s :
        EachOf(s.body, "entry", LAMBDA e :
            [rulebase |-> s.val, action |-> IF e.val.action = "permit" THEN "allow" ELSE "deny",
             services |-> IF e.val.partial THEN <<"unreadable">> ELSE e.val.services,
             applied |-> \E i \in ToSet(Of(config, "interface")) :
                             s.val \in {b.val : b \in ToSet(Of(i.body, "access-group"))}])))
-----------------------------------------------------------------------------
NexusRisks == {"telnet", "no limit", "api", "password", "complexity", "community", "time", "no fallback", "user",
               "port", "open routing", "inert rule", "unbound list"}

NexusExposes ==
    LET some(kind, test(_)) == \E s \in ToSet(Of(config, kind)) : test(s) IN
    {x \in NexusRisks :
        CASE x = "telnet" -> some("feature", LAMBDA s : s.val = "telnet")
          [] x = "no limit" -> some("line vty", LAMBDA s : \E t \in ToSet(Of(s.body, "exec-timeout")) : t.val = 0)
          [] x = "api" -> some("feature", LAMBDA s : s.val = "nxapi")
          [] x = "password" -> some("username", LAMBDA s : s.val \in {0, 7})
          [] x = "complexity" -> Negated(config, "strength-check")
          [] x = "community" -> some("snmp community", LAMBDA s : s.val = "public" \/ Has(s.body, "rw"))
          [] x = "time" -> some("ntp server", LAMBDA s : ~s.val) /\ ~Has(config, "ntp authenticate")
          [] x = "no fallback" -> /\ some("aaa authentication", LAMBDA s : s.val \notin {NotFound, {}})
                                  /\ ~some("aaa authentication", LAMBDA s : s.val # NotFound /\ "local" \in s.val)
          [] x = "user" -> some("snmp user", LAMBDA s : ~Has(s.body, "priv"))
          [] x = "port" -> some("interface", LAMBDA s : Negated(s.body, "bpduguard"))
          [] x = "open routing" -> some("router", LAMBDA s : ~Has(s.body, "authentication"))
          [] x = "inert rule" -> some("ip access-list", LAMBDA s : \E e \in ToSet(s.body) : e.val.partial)
          [] x = "unbound list" -> some("ip access-list", LAMBDA s : Has(s.body, "entry") /\
                                       ~some("interface", LAMBDA i : \E b \in ToSet(i.body) : b.is = "access-group" /\ b.val = s.val))}

NexusShows ==
    LET rules == ToSet(NexusRules) IN
    {x \in NexusRisks :
        CASE x = "telnet" -> NexusManagement.telnet
          [] x = "no limit" -> NexusManagement.timeout = 0
          [] x = "api" -> NexusManagement.https = TRUE
          [] x = "password" -> \E u \in ToSet(NexusUsers) : u.weak = TRUE
          [] x = "complexity" -> NexusManagement.complexity = FALSE
          [] x = "community" -> \E c \in ToSet(NexusSnmp.communities) : c.default \/ c.rw
          [] x = "time" -> NexusNtp = FALSE
          [] x = "no fallback" -> NexusAaa.fallback = FALSE
          [] x = "user" -> \E l \in ToSet(NexusSnmp.users) : l # "authPriv"
          [] x = "port" -> \E i \in ToSet(NexusInterfaces) : i.bpduguard = FALSE
          [] x = "open routing" -> \E r \in ToSet(NexusRouting) : r.authenticated = FALSE
          [] x = "inert rule" -> \E r \in rules : r.services = <<"unreadable">>
          [] x = "unbound list" -> \E r \in rules : ~r.applied}

\* One server with a key stands for all; a protection that is switched off and a
\* routing protocol without authentication are not known to be so.
NexusHides == {"port", "open routing"} \cup IF Len(Of(config, "ntp server")) > 1 THEN {"time"} ELSE {}
\* A line of four words that is no list of methods falls back on nothing.
NexusInvents == IF \E s \in ToSet(Of(config, "aaa authentication")) : s.val = {} THEN {"no fallback"} ELSE {}
-----------------------------------------------------------------------------
(***************************************************************************)
(* The parser of EOS configurations.  Services are blocks, which may be    *)
(* there and off; a file without a block or an account is refused.         *)
(***************************************************************************)

EosRefused == ~\E i \in DOMAIN config : config[i].is \in {"hostname", "interface", "username", "management ssh",
                                                          "management api", "management telnet"}

EosDevice == [hostname |-> FirstOf(config, "hostname"), domain |-> FirstOf(config, "dns domain"),
              banner |-> LET body == IF Has(config, "banner login") THEN FirstOf(config, "banner login") ELSE <<>>
                         IN IF body = <<>> THEN NotFound ELSE body,
              version |-> FirstOf(config, "image version"), model |-> FirstOf(config, "Arista"),
              serial |-> FirstOf(config, "Serial number")]

\* SSH is on unless its block says shutdown, the API off unless its block says no
\* shutdown; telnet is on if it has a block.
EosApi == LET body == Of(config, "management api")[1].body
              protocols == {s.val : s \in ToSet(Of(body, "protocol"))}
          IN IF ~Has(config, "management api") THEN {}
             ELSE IF ~Negated(body, "shutdown") THEN {}
             ELSE IF protocols = {} THEN {"https"} ELSE protocols
EosManagement ==
    [ssh |-> IF Has(config, "management ssh") THEN ~Has(Of(config, "management ssh")[1].body, "shutdown") ELSE NotFound,
     timeout |-> IF Has(config, "management ssh") /\ Has(Of(config, "management ssh")[1].body, "idle-timeout")
                 THEN 60 * LastOf(Of(config, "management ssh")[1].body, "idle-timeout") ELSE NotFound,
     http |-> IF Has(config, "management api") THEN "http" \in EosApi ELSE NotFound, http_feature |-> "http" \in EosApi,
     https |-> IF Has(config, "management api") THEN "https" \in EosApi ELSE NotFound,
     telnet |-> Has(config, "management telnet")]

\* Privilege, role and the way of authentication, in that order or not at all.
EosUsers == EachOf(config, "username", LAMBDA s : [role |-> FirstOf(s.body, "role"), secret |-> IF s.val = "nopassword" THEN "none" ELSE NotFound])

EosAaa ==
    LET servers == EachOf(config, "aaa host", LAMBDA s : [type |-> s.val, key |-> Has(s.body, "key")])
    IN [servers |-> servers, new_model |-> OrNotFound(servers # <<>>),
        fallback |-> IF Has(config, "aaa authentication") THEN "local" \in FirstOf(config, "aaa authentication") ELSE NotFound]

\* The word after the name is the access; one further on is not seen.
EosSnmp == EachOf(config, "snmp community", LAMBDA s :
               [default |-> s.val = "public", rw |-> s.body # <<>> /\ s.body[1].is = "rw"])

EosTime == [servers |-> EachOf(config, "ntp server", LAMBDA s : s.val), syslog |-> EachOf(config, "logging host", LAMBDA s : s.val)]

EosInterfaces ==
    EachOf(config, "interface", LAMBDA s :
        [name |-> s.val, addresses |-> EachOf(s.body, "ip address", LAMBDA a : a.val), admin_up |-> ~Has(s.body, "shutdown"),
         mode |-> IF Negated(s.body, "switchport") THEN "routed" ELSE NotFound])

\* An interface in place of a gateway is the interface, and nothing after it is read.
EosRoutes ==
    EachOf(config, "ip route", LAMBDA s :
        LET first == s.body[1] IN
        [to |-> s.val, hop |-> IF first.is = "hop" THEN first.val ELSE NotFound,
         out |-> IF first.is = "interface" THEN first.val ELSE NotFound])
-----------------------------------------------------------------------------
EosRisks == {"telnet", "ssh", "no limit", "http", "https", "no password", "community", "no fallback", "lost hop"}

\* What a switch exposes: a block that is shut down exposes nothing.
EosExposes ==
    LET some(kind, test(_)) == \E s \in ToSet(Of(config, kind)) : test(s)
        api(p) == some("management api", LAMBDA s : /\ Negated(s.body, "shutdown")
                                                    /\ \/ \E t \in ToSet(Of(s.body, "protocol")) : t.val = p
                                                       \/ p = "https" /\ ~Mentions(s.body, "protocol"))
    IN {x \in EosRisks :
        CASE x = "telnet" -> some("management telnet", LAMBDA s : ~Has(s.body, "shutdown"))
          [] x = "ssh" -> some("management ssh", LAMBDA s : ~Has(s.body, "shutdown"))
          [] x = "no limit" -> some("management ssh", LAMBDA s : \E t \in ToSet(Of(s.body, "idle-timeout")) : t.val = 0)
          [] x = "http" -> api("http") [] x = "https" -> api("https")
          [] x = "no password" -> some("username", LAMBDA s : s.val = "nopassword")
          [] x = "community" -> some("snmp community", LAMBDA s : s.val = "public" \/ Has(s.body, "rw"))
          [] x = "no fallback" -> some("aaa authentication", LAMBDA s : "local" \notin s.val)
          [] x = "lost hop" -> some("ip route", LAMBDA s : Has(s.body, "interface") /\ ~Has(s.body, "hop"))}

EosShows ==
    {x \in EosRisks :
        CASE x = "telnet" -> EosManagement.telnet
          [] x = "ssh" -> EosManagement.ssh = TRUE
          [] x = "no limit" -> EosManagement.timeout = 0
          [] x = "http" -> EosManagement.http_feature
          [] x = "https" -> EosManagement.https = TRUE
          [] x = "no password" -> \E u \in ToSet(EosUsers) : u.secret = "none"
          [] x = "community" -> \E c \in ToSet(EosSnmp) : c.default \/ c.rw
          [] x = "no fallback" -> EosAaa.fallback = FALSE
          [] x = "lost hop" -> \E r \in ToSet(EosRoutes) : r.hop = NotFound}

\* A community's view hides its access; of two lists of methods the first is read; a
\* configuration without a name or a block may be refused altogether.
EosHides ==
    IF EosRefused THEN EosRisks ELSE
    {x \in {"community", "no fallback"} :
        IF x = "community" THEN \E s \in ToSet(Of(config, "snmp community")) : Len(s.body) > 1
        ELSE Len(Of(config, "aaa authentication")) > 1}
\* Telnet that is shut down is on; a protocol that is negated is the default one; a
\* gateway behind an interface is lost.
EosInvents ==
    {x \in {"telnet", "https", "lost hop"} :
        CASE x = "telnet" -> \E s \in ToSet(Of(config, "management telnet")) : Has(s.body, "shutdown")
          [] x = "https" -> \E s \in ToSet(Of(config, "management api")) : Negated(s.body, "protocol")
          [] x = "lost hop" -> \E s \in ToSet(Of(config, "ip route")) : Len(s.body) > 1}
=============================================================================
