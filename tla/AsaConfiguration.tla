-------------------------- MODULE AsaConfiguration --------------------------
(***************************************************************************)
(* The parser of ASA configurations: a firewall's services, objects and    *)
(* lists, its translations, and the counters of its lists, which are       *)
(* printed apart and have to be brought together with the rules.           *)
(***************************************************************************)
EXTENDS ConfigReader, FiniteSetsExt

AsaDevice == [hostname |-> FirstOf(config, "hostname"), version |-> FirstOf(config, "ASA Version"),
              model |-> FirstOf(config, "show version"), ha |-> OrNotFound(Has(config, "failover"))]

\* Telnet is off where nothing allows it; the web server and SSH are not known.
AsaManagement ==
    [ssh |-> OrNotFound(Has(config, "ssh from")), telnet |-> Has(config, "telnet from"),
     https |-> IF Has(config, "http server") THEN TRUE
               ELSE IF Negated(config, "http server") THEN FALSE ELSE NotFound,
     console_timeout |-> FirstOf(config, "console timeout"), banner |-> FirstOf(config, "banner login")]

AsaUsers == EachOf(config, "username", LAMBDA s : [weak |-> s.val # "pbkdf2"])

\* What kind of server it is, is told from the name of its group.
AsaServers ==
    EachOf(config, "aaa host", LAMBDA s : [type |-> IF s.val = "TACACS" THEN "tacacs" ELSE "radius", key |-> Has(s.body, "key")])

AsaLogging == [servers |-> EachOf(config, "logging host", LAMBDA s : s.val),
               buffered |-> OrNotFound(Has(config, "logging buffered")), timestamps |-> OrNotFound(Has(config, "logging timestamp"))]

AsaNtp == IF Has(config, "ntp server") THEN \E s \in ToSet(Of(config, "ntp server")) : s.val ELSE NotFound

\* Communities are read where traps are sent, and nowhere else.
AsaSnmp == LET hosts == SelectSeq(Of(config, "snmp host"), LAMBDA s : s.val # NotFound)
           IN [i \in DOMAIN hosts |-> [default |-> hosts[i].val = "public", rw |-> FALSE]]

\* The name of an interface is its zone; a block that mentions shutdown is down.
AsaInterfaces ==
    EachOf(config, "interface", LAMBDA s :
        [zone |-> LastOf(s.body, "nameif"), addresses |-> EachOf(s.body, "ip address", LAMBDA a : a.val),
         admin_up |-> ~Mentions(s.body, "shutdown")])
AsaZones == {i.zone : i \in ToSet(AsaInterfaces)} \ {NotFound}
-----------------------------------------------------------------------------
(* Addresses of objects, groups and entries, in the words of the resolver. *)
Refused == <<"unreadable">>
AddressToken(x) ==
    CASE x.form \in {"any", "any4"} -> <<"any">>
      [] x.form \in {"host", "subnet", "masked"} -> <<"address", x.of>>
      [] x.form \in {"range", "fqdn"} -> Refused
      [] x.form \in {"object", "object-group", "group-object"} -> <<"name", x.of>>
      [] OTHER -> <<"as written", x.of>>

AsaObjects ==
    EachOf(config, "object network", LAMBDA s :
        [name |-> s.val, value |-> IF Has(s.body, "is") THEN AddressToken(FirstOf(s.body, "is")) ELSE NotFound])
    \o EachOf(config, "object-group network", LAMBDA s :
        [name |-> s.val, members |-> EachOf(s.body, "member", LAMBDA m : AddressToken(m.val))])

\* An entry's address is one to two words; an interface's stands for what it holds.
TakeAddress(x) == IF x.form = "interface" THEN Refused
                  ELSE IF x.form \in {"host", "object", "object-group"} /\ x.of = NotFound THEN Refused
                  ELSE AddressToken(x)

\* Every protocol is any; ports that cannot be expressed are refused, not widened.
AsaServices(protocol, ports) ==
    IF protocol = "ip" THEN <<"any">> ELSE IF ports = "neq" THEN Refused
    ELSE IF ports = NotFound THEN <<protocol>> ELSE <<protocol, ports>>

\* Remarks and standard lists are no rules; each list is a rulebase, and is bound by
\* the groups of its name: by none of them it filters nothing.
Binding(s) == IF s.val.interface = NotFound THEN [interface |-> NotFound, direction |-> "in"]
              ELSE [interface |-> s.val.interface, direction |-> s.val.direction]
AsaRules ==
    LET entries == SelectSeq(Of(config, "access-list"), LAMBDA s : s.val.kind = "extended")
    IN [i \in DOMAIN entries |-> LET e == entries[i].val IN
          [rulebase |-> e.list, action |-> IF e.action = "permit" THEN "allow" ELSE "deny",
           src |-> TakeAddress(e.src), dst |-> TakeAddress(e.dst), services |-> AsaServices(e.protocol, e.ports),
           bindings |-> {Binding(b) : b \in {g \in ToSet(Of(config, "access-group")) : g.val.list = e.list}}]]
-----------------------------------------------------------------------------
(* Counters.  Lines of one number are one entry: its own, and one for each *)
(* combination of its groups.                                              *)
ReadHitCounts(lines) ==
    LET entries == SelectSeq(lines, LAMBDA l : l.action \in {"permit", "deny"})
        numbers == SetToSortSeq({l.number : l \in ToSet(entries)}, LAMBDA a, b : a < b)
        of(n) == SelectSeq(entries, LAMBDA l : l.number = n)
        counted(n) == SelectSeq(of(n), LAMBDA l : l.hits # NotFound)
    IN [i \in DOMAIN numbers |->
          [action |-> of(numbers[i])[1].action, protocol |-> of(numbers[i])[1].protocol,
           hits |-> IF counted(numbers[i]) = <<>> THEN NotFound
                    ELSE FoldSeq(LAMBDA l, sum : l.hits + sum, 0, counted(numbers[i]))]]

\* Rules and counters are paired by their place, and verified: one pair that does not
\* agree gives up the list.
ApplyHitCounts(rules, lines) ==
    LET observed == ReadHitCounts(lines)
        agree(r, o) == r.action = o.action /\ (r.protocol = "ip" \/ r.protocol = o.protocol)
        given == Len(rules) = Len(observed) /\ \A i \in DOMAIN rules : agree(rules[i], observed[i])
    IN [i \in DOMAIN rules |-> IF given THEN observed[i].hits ELSE NotFound]
-----------------------------------------------------------------------------
(* Translations.  A destination is written the other way round: what it is *)
(* changed from comes first.                                               *)
NoNat == [src |-> {}, to_src |-> NotFound, dst |-> {}, to_dst |-> NotFound, unreadable |-> FALSE]
TwiceNat(line) ==
    LET with_source == IF line.source.kind \notin {"static", "dynamic"} THEN NoNat
                       ELSE [NoNat EXCEPT
                          !.src = {line.source.first} \ {"any"},
                          !.unreadable = line.source.second = "interface" \/ (line.source.kind = "dynamic" /\ line.source.second = "any"),
                          !.to_src = IF line.source.second = "interface" \/ (line.source.kind = "dynamic" /\ line.source.second = "any")
                                     THEN NotFound ELSE line.source.second]
    IN IF line.destination.kind \notin {"static", "dynamic"} THEN with_source
       ELSE IF line.destination.first = "interface" THEN [with_source EXCEPT !.unreadable = TRUE]
       ELSE [with_source EXCEPT !.dst = {line.destination.first} \ {"any"}, !.to_dst = line.destination.second]

\* The object a line stands in is what it translates.
ObjectNat(object, mapped) ==
    IF mapped = "interface" THEN [NoNat EXCEPT !.src = {object}, !.unreadable = TRUE]
    ELSE [NoNat EXCEPT !.src = {object}, !.to_src = mapped]

AsaNat == EachOf(config, "nat", LAMBDA s : TwiceNat(s.val))
          \o FlattenSeq(EachOf(config, "object network", LAMBDA s :
                 EachOf(s.body, "nat", LAMBDA n : ObjectNat(s.val, n.val))))
-----------------------------------------------------------------------------
\* What a line means by its two addresses is what is read of it, or the rule says that
\* it could not be read.
NatMeans(line, rule) ==
    LET real == line.source.first  mapped == line.source.second IN
    /\ line.source.kind = "none" => rule.to_src = NotFound /\ rule.src = {}
    /\ line.source.kind # "none" => rule.src = {real} \ {"any"} /\ (rule.to_src = mapped \/ rule.unreadable)
    /\ line.destination.kind # "none" =>
          \/ rule.dst = {line.destination.first} \ {"any"} /\ rule.to_dst = line.destination.second
          \/ line.destination.first = "interface" /\ rule.unreadable /\ rule.to_dst = NotFound

AsaExposes ==
    LET some(kind, test(_)) == \E s \in ToSet(Of(config, kind)) : test(s)
        list(e) == \E b \in ToSet(Of(config, "access-group")) : b.val.list = e.val.list
    IN {x \in {"telnet", "password", "community", "time", "radius", "any to any", "inert rule", "unbound list"} :
         CASE x = "telnet" -> some("telnet from", LAMBDA s : TRUE)
           [] x = "password" -> some("username", LAMBDA s : s.val # "pbkdf2")
           [] x = "community" -> some("snmp host", LAMBDA s : s.val = "public") \/ some("snmp community", LAMBDA s : s.val = "public")
           [] x = "time" -> some("ntp server", LAMBDA s : ~s.val)
           [] x = "radius" -> some("aaa host", LAMBDA s : s.val = "RADIUS")
           [] x = "any to any" -> some("access-list", LAMBDA e : /\ e.val.kind = "extended" /\ e.val.action = "permit" /\ e.val.src.form = "any"
                                                                 /\ e.val.dst.form = "any" /\ e.val.protocol = "ip")
           [] x = "inert rule" -> some("access-list", LAMBDA e : e.val.kind = "extended" /\ e.val.ports = "neq" /\ e.val.protocol # "ip")
           [] x = "unbound list" -> some("access-list", LAMBDA e : e.val.kind = "extended" /\ ~list(e))}

AsaShows ==
    LET rules == ToSet(AsaRules) IN
    {x \in {"telnet", "password", "community", "time", "radius", "any to any", "inert rule", "unbound list"} :
        CASE x = "telnet" -> AsaManagement.telnet
          [] x = "password" -> \E u \in ToSet(AsaUsers) : u.weak
          [] x = "community" -> \E c \in ToSet(AsaSnmp) : c.default
          [] x = "time" -> AsaNtp = FALSE
          [] x = "radius" -> \E s \in ToSet(AsaServers) : s.type = "radius"
          [] x = "any to any" -> \E r \in rules : r.action = "allow" /\ r.src = <<"any">> /\ r.dst = <<"any">> /\ r.services = <<"any">>
          [] x = "inert rule" -> \E r \in rules : r.services = Refused
          [] x = "unbound list" -> \E r \in rules : r.bindings = {}}

\* A community that is not a host's, and one of several clocks, are not seen.
AsaHides == {x \in {"community", "time"} :
               IF x = "community" THEN Has(config, "snmp community") ELSE Len(Of(config, "ntp server")) > 1}
\* A TACACS server in a group of another name is one of RADIUS.
AsaInvents == IF \E s \in ToSet(Of(config, "aaa host")) : s.val = "GROUP" THEN {"radius"} ELSE {}
=============================================================================
