----------------------------- MODULE MCAnalysis -----------------------------
(* The instances of the analyses: one run explores each in turn.  They    *)
(* share no state, so `study` is chosen once and the others never move.   *)
EXTENDS IntervalSets, PathTrace, CheckEngine, Advisories, RuleReview, AaaCorrelation

VARIABLE study

\* Rules over three sources, one of them IPv6.
Plain == [enabled |-> TRUE, action |-> "allow", rulebase |-> "", src_zones |-> {}, dst_zones |-> {},
          source |-> {1}, destination |-> V4 \cup V6, services |-> {<<"tcp", 1>>},
          applications |-> {}, users |-> {}, unresolved |-> {}]
MCShapes ==
    {[Plain EXCEPT !.source = s, !.action = a] : s \in {{1}, {2}, V4 \cup V6}, a \in {"allow", "deny"}}
    \cup {[Plain EXCEPT !.source = V4 \cup V6, !.action = "deny", !.services = {<<AnyProtocol, 0>>}],
          [Plain EXCEPT !.source = V4 \cup V6, !.action = "monitor"], [Plain EXCEPT !.src_zones = {"z"}],
          [Plain EXCEPT !.action = "deny", !.applications = {"app"}],
          [Plain EXCEPT !.action = "deny", !.source = {}, !.unresolved = {"src"}],
          [Plain EXCEPT !.enabled = FALSE, !.source = V4 \cup V6],
          [Plain EXCEPT !.rulebase = "other", !.source = V4 \cup V6]}
\* Every source, and every zone, port and application beside what is usual.
MCPackets == [rulebase : {"", "other"}, src_zone : {"z", "y", NoZone}, dst_zone : {"y"}, src : {1, 2, 9}, dst : {1},
              protocol : {"tcp"}, port : {1, 2}, app : {"app", "web"}, user : {"u"}]
-----------------------------------------------------------------------------
\* A server with an address and a name, a switch without a name, and a second
\* server; their lists of clients name each other, a stranger and a ghost.
MCRecorded == [h \in Host |->
    CASE h = "ise" -> [address |-> 1, name |-> "ise", manager |-> FALSE]
      [] h = "switch" -> [address |-> 2, name |-> NoHostName, manager |-> FALSE]
      [] h = "radius" -> [address |-> 3, name |-> "radius", manager |-> FALSE]]
MCAddressOf == [s \in Spelling |-> CASE s = "1/32" -> 1 [] s = "2" -> 2 [] s = "9" -> 9]
Client(name, address, key) == [name |-> name, address |-> address, key |-> key]
AaaServer(clients, age) ==
    [server |-> TRUE, clients |-> clients, aaa |-> FALSE, points |-> {}, age |-> age,
     accepts |-> {"pap", "eap"}, ends |-> IF age = 0 THEN {0, 90, Undated} ELSE {}]
AaaDevice(points) == [server |-> FALSE, clients |-> {}, aaa |-> TRUE, points |-> points, age |-> 0,
                      accepts |-> {}, ends |-> {-1, 0}]
MCSnapshots ==
    {AaaServer({}, 0), AaaServer({Client("sw", "2", HiddenKey), Client("ghost", "9", "k")}, 40),
     AaaServer({Client("radius", NoHostName, "k"), Client("other", "9", "k")}, 0)}
    \cup {AaaDevice(p) : p \in {{}, {"1/32", "9"}}}
-----------------------------------------------------------------------------
\* Three devices in a ring, users 0-1 behind device 1 and servers 8-9 behind
\* device 3: a prefix is the 2^(4 - len) addresses from lo.
Prefix(lo, len) == [set |-> lo .. lo + 2^(4 - len) - 1, len |-> len]
Route(p, hop, i) == [prefix |-> p, next_hop |-> hop, interface |-> i, connected |-> FALSE, global |-> TRUE,
                     distance |-> 1, metric |-> 0]
Attached(p, i) == [Route(p, NoAddress, i) EXCEPT !.connected = TRUE]
Net(i, p) == [interface |-> i, prefix |-> p]
Rule(a, dst) == [enabled |-> TRUE, action |-> a, applied |-> TRUE, rulebase |-> NoBase, src_zones |-> {},
                 dst_zones |-> {}, source |-> Address, destination |-> dst,
                 services |-> {<<AnyProtocol, 0>>}, unresolved |-> {}]
Dnat(dst, to) == [normalised |-> TRUE, src |-> [known |-> Address, unread |-> FALSE],
                  dst |-> [known |-> dst, unread |-> FALSE], to_src |-> NoAddress, to_dst |-> to,
                  to_port |-> NoAddress, unreadable |-> FALSE]
Networks(d) == CASE d = 1 -> {Net("lan", Prefix(0, 3)), Net("out", Prefix(2, 3)), Net("in", Prefix(6, 3))}
                 [] d = 2 -> {Net("in", Prefix(2, 3)), Net("out", Prefix(4, 3))}
                 [] d = 3 -> {Net("in", Prefix(4, 3)), Net("out", Prefix(6, 3)), Net("lan", Prefix(8, 3))}
Own(d) == CASE d = 1 -> {2, 6} [] d = 2 -> {3, 4} [] d = 3 -> {5, 7}
Bare(d, routes) ==
    [routes |-> routes \o SetToSeq({Attached(n.prefix, n.interface) : n \in Networks(d)}),
     addresses |-> Own(d), networks |-> Networks(d), zones |-> [i \in {"in", "out", "lan"} |-> NoZone],
     routes_known |-> TRUE, truncated |-> FALSE, rules |-> <<>>, bindings |-> {}, nat |-> <<>>]

Edges == {Bare(1, r) : r \in {
            <<Route(Prefix(8, 1), 3, "out")>>,
            <<Route(Prefix(8, 1), 7, "in"), Route(Prefix(8, 1), 3, "out")>>,
            <<Route(Prefix(0, 0), 3, "out"), Route(Prefix(8, 4), 7, "in")>>,
            <<Route(Prefix(8, 2), 15, "out")>>, <<>>, <<Route(Prefix(9, 4), 3, "out")>>,
            <<Route(Prefix(8, 1), 3, "out"), Route(Prefix(8, 1), NoAddress, "in")>>}}
         \cup {[Bare(1, <<>>) EXCEPT !.routes_known = FALSE]}
Middles == {Bare(2, r) : r \in {<<Route(Prefix(8, 2), 5, "out")>>, <<Route(Prefix(8, 1), 2, "in")>>,
                                <<[Route(Prefix(8, 2), 5, "out") EXCEPT !.global = FALSE]>>}}
           \cup {[Bare(2, <<Route(Prefix(0, 2), 2, "in")>>) EXCEPT !.truncated = TRUE]}
Lists(interface) == {[rulebase |-> "a", interface |-> "in", direction |-> "in"],
                     [rulebase |-> "b", interface |-> interface, direction |-> "out"]}
Ruled(n) == {n}
    \cup {[n EXCEPT !.rules = r] : r \in {
            <<Rule("allow", Address)>>, <<Rule("deny", {9}), Rule("allow", Address)>>,
            <<[Rule("deny", {}) EXCEPT !.unresolved = {"dst"}], Rule("allow", Address)>>,
            <<[Rule("allow", {}) EXCEPT !.unresolved = {"dst"}], Rule("deny", {8, 9})>>,
            <<Rule("drop", {8}), Rule("allow", Address)>>}}
    \cup {[n EXCEPT !.bindings = Lists(i), !.rules =
             <<[Rule("allow", Address) EXCEPT !.rulebase = "a"], [Rule("deny", {8}) EXCEPT !.rulebase = "b"],
               [Rule("allow", Address) EXCEPT !.rulebase = "b"]>>] : i \in {"out", "in"}}
    \cup {[n EXCEPT !.bindings = {b \in Lists("out") : b.rulebase = "a"}, !.rules =
             <<[Rule("allow", Address) EXCEPT !.rulebase = "a"], [Rule("deny", {8}) EXCEPT !.rulebase = "b"]>>],
           [n EXCEPT !.bindings = Lists("in"), !.rules = <<[Rule("deny", {8}) EXCEPT !.rulebase = "b"]>>]}
Natted(n) == {n} \cup {[n EXCEPT !.nat = <<m>>] : m \in {
                Dnat({12}, 8), [Dnat({8}, NoAddress) EXCEPT !.dst.unread = TRUE, !.to_dst = 9],
                [Dnat({9}, NoAddress) EXCEPT !.normalised = FALSE], Dnat({9}, Pool),
                [Dnat({8}, 9) EXCEPT !.src.known = {1}]}}
Servers == {[Bare(3, <<>>) EXCEPT !.rules = r] : r \in {
              <<>>, <<Rule("deny", {9}), Rule("allow", {8})>>, <<Rule("allow", Address)>>}}
\* Every rulebase or every translation, and each translation under some lists.
Both(n) == Ruled(n) \cup Natted(n)
    \cup UNION {{m \in Ruled(t) : m.bindings # {} \/ Len(m.rules) = 1} : t \in Natted(n)}
MCEstates == {<<n1, n2, n3>> : n1 \in Edges, n3 \in Servers, n2 \in UNION {Both(n) : n \in Middles}}
Question(s, d) == [srcs |-> s, dsts |-> d, protocol |-> "tcp", port |-> 1]
MCQueries == {Question({0}, d) : d \in {{8}, {9}, {1}, {12}}}
             \cup {Question({0, 1}, d) : d \in {{8}, {8, 9}}} \cup {Question({13}, {8})}
-----------------------------------------------------------------------------
\* Checks of every kind over three paths and a configuration of three lines.
MCReadings == [p \in {"aaa", "timeout", "users"} |->
                 CASE p = "aaa" -> {Text("on"), Text("off")}
                   [] p = "timeout" -> {Num(5), Num(20), Text("never")}
                   [] p = "users" -> {Items(<<>>), Items(<<Text("admin")>>), Items(<<Text("admin"), Text("bob")>>)}]
NcmCheck(path, op, expected) ==
    [vendors |-> {}, platforms |-> {}, device_classes |-> {}, min_version |-> Unknown, max_version |-> Unknown,
     features |-> {}, requires |-> {}, type |-> "ncm", expression |-> path,
     assertion |-> [op |-> op, expected |-> expected], missing |-> "not_evaluated", broken |-> FALSE]
RegexCheck(pattern, expect) ==
    [NcmCheck("aaa", "equals", Text("on")) EXCEPT !.type = "regex"] @@ [pattern |-> pattern, expect |-> expect]
GoldenCheck(blocks) == [NcmCheck("aaa", "equals", Text("on")) EXCEPT !.type = "golden"] @@ [blocks |-> blocks]
Block(ls, expect, contiguous) == [lines |-> ls, expect |-> expect, contiguous |-> contiguous]
MCLibrary ==
    {NcmCheck("aaa", "equals", Text("on")), NcmCheck("aaa", "not_equals", Text("off")),
     NcmCheck("aaa", "in", {Text("on")}), NcmCheck("aaa", "not_in", {Text("off")}),
     NcmCheck("timeout", "gt", 10), NcmCheck("timeout", "lt", 10),
     NcmCheck("users", "contains", Text("admin")), NcmCheck("users", "not_contains", Text("bob")),
     NcmCheck("users", "all_equal", Text("admin")),
     NcmCheck("users", "empty", TRUE), NcmCheck("users", "count_lte", 1),
     [NcmCheck("users", "empty", FALSE) EXCEPT !.requires = {"users"}],
     [NcmCheck("users", "count_lte", 1) EXCEPT !.requires = {"users"}],
     [NcmCheck("users", "count_gte", 1) EXCEPT !.requires = {"users"}],
     [NcmCheck("timeout", "lt", 10) EXCEPT !.features = {"users"}, !.min_version = 2, !.max_version = 4],
     [NcmCheck("timeout", "lt", 10) EXCEPT !.max_version = 3],
     [NcmCheck("aaa", "equals", Text("on")) EXCEPT !.broken = TRUE],
     RegexCheck({"ntp"}, "present"), RegexCheck({"telnet"}, "absent"),
     GoldenCheck({Block(<<{"ntp"}, {"telnet"}>>, "present", TRUE)}),
     GoldenCheck({Block(<<{"ntp"}, {"telnet"}>>, "present", FALSE), Block(<<{"telnet"}, {"ntp"}>>, "present", TRUE)}),
     GoldenCheck({Block(<<{"telnet"}>>, "absent", FALSE)})}
MCDevice == [vendor |-> "v", platform |-> "p", device_class |-> "c", version |-> 3]
-----------------------------------------------------------------------------
\* IOS versions on two trains of two release families, and a dotted scheme.
Ios(release, train, rebuild) == [scheme |-> "ios", release |-> release, train |-> train, rebuild |-> rebuild]
Dotted(release, rebuild) == [scheme |-> "dotted", release |-> release, train |-> NoTrain, rebuild |-> rebuild]
Letter(n) == 1000 + n
MCVersions ==
    {Ios(<<15, 2, 4>>, "M", <<5>>), Ios(<<15, 2, 7>>, "E", <<3>>), Ios(<<15, 2, 7>>, "E", <<6>>),
     Ios(<<15, 2, 7>>, "E", <<Letter(1), 3>>), Ios(<<15, 1, 2>>, "M", <<>>), Ios(<<15, 2, 7>>, NoTrain, <<>>),
     Ios(<<16>>, NoTrain, <<>>), Ios(<<12, 0>>, NoTrain, <<>>),
     Dotted(<<7, 2>>, <<>>), Dotted(<<7, 2, 0>>, <<>>), Dotted(<<7, 2>>, <<Letter(2)>>)}
MCDevices == {[version |-> v, software |-> s, hardware |-> h, vendor |-> "v", platform |-> "os", facts |-> [http |-> f]] :
                 v \in {Ios(<<15, 2, 7>>, "E", <<3>>), Unreadable}, s \in {"os", NoCpe},
                 h \in {"chassis", NoCpe}, f \in {"on", NotFound}}
From(op, v) == [kind |-> "range", from |-> v, from_op |-> op, to |-> NoBound, to_op |-> "none"]
To(op, v) == [kind |-> "range", from |-> NoBound, from_op |-> "none", to |-> v, to_op |-> op]
Specs == {[kind |-> "all"], [kind |-> "unparsed"], [kind |-> "exact", version |-> Unreadable],
          [kind |-> "exact", version |-> Ios(<<15, 2, 7>>, "E", <<3>>)],
          From(">=", Ios(<<15, 2, 4>>, "M", <<5>>)), From(">", Ios(<<15, 2, 7>>, "E", <<3>>)),
          To("<", Ios(<<15, 2, 7>>, "E", <<3>>)), To("<=", Ios(<<15, 2, 7>>, "E", <<3>>)),
          [From(">=", Ios(<<12, 0>>, NoTrain, <<>>)) EXCEPT !.to = Ios(<<15, 2, 7>>, "E", <<6>>), !.to_op = "<"],
          [From(">=", Ios(<<12, 0>>, NoTrain, <<>>)) EXCEPT !.to = Ios(<<15, 1, 2>>, "M", <<>>), !.to_op = "<="],
          [From(">=", Unreadable) EXCEPT !.to = Ios(<<15, 1, 2>>, "M", <<>>), !.to_op = "<"]}
Says(source, cpe, vendor, product, spec) ==
    [source |-> source, cpe |-> cpe, vendor |-> vendor, product |-> product, spec |-> spec]
MCStatements == {Says(source, "os", "v", "os", spec) : source \in {"nvd", "csaf"}, spec \in Specs}
    \cup {Says("csaf", i[1], i[2], i[3], spec) : spec \in {[kind |-> "all"], To("<", Ios(<<15, 2, 7>>, "E", <<3>>))},
             i \in {<<NoCpe, "v", "os">>, <<NoCpe, NoName, "os">>, <<"other", "v", "other">>, <<"chassis", "v", "x">>}}
MCConditions == {[path |-> "http", expected |-> x] : x \in {"on", "off"}}
-----------------------------------------------------------------------------
\* Two rules over three objects and two groups, on a device of three networks.
MCHolds == "web" :> {1} @@ "db" :> {2, 3} @@ "six" :> {9}
MCMembers == "servers" :> {"web", "db"} @@ "farm" :> {"servers", "six"}
Form == [enabled |-> TRUE, action |-> "allow", src |-> <<"any">>, dst |-> <<"web">>, negate |-> {},
         written |-> {<<"tcp", 1>>}, src_zones |-> {"out"}, dst_zones |-> {}, logs |-> TRUE, hits |-> "recent",
         profiles |-> "content", documented |-> TRUE, applications |-> {}, lost |-> {}]
MCForms ==
    {[Form EXCEPT !.dst = d] : d \in {<<"any">>, <<"farm">>, <<"db", "six">>, <<"any", "db">>}}
    \cup {[Form EXCEPT !.dst = d, !.action = "deny", !.documented = FALSE] : d \in {<<"web">>, <<"servers">>}}
    \cup {[Form EXCEPT !.negate = {side}] : side \in {"src", "dst"}}
    \cup {[Form EXCEPT !.src = <<"servers">>, !.negate = {"src"}, !.dst = <<"any">>, !.written = {<<AnyProtocol, 0>>}],
          [Form EXCEPT !.written = {<<"udp", 1>>, <<"tcp", 2>>}, !.src = <<"db">>],
          [Form EXCEPT !.src_zones = {"in"}, !.lost = {"svc"}], [Form EXCEPT !.src_zones = {"in"}, !.dst = <<"servers">>],
          [Form EXCEPT !.src_zones = {}], [Form EXCEPT !.enabled = FALSE]}
    \cup {[Form EXCEPT !.applications = {"any"}, !.lost = x] : x \in {{}, {"applications"}}}
    \cup {[Form EXCEPT !.logs = FALSE, !.hits = "none", !.profiles = "none", !.lost = x] :
             x \in {{}, {"logs", "hits"}, {"profiles"}}}
    \cup {[Form EXCEPT !.hits = "old", !.profiles = f, !.lost = {"profiles"}] : f \in {"content", "blind"}}
MCTables == {[routes |-> r, lost |-> "none"] : r \in {<<{4}, {1}>>, <<{4}, {9}>>, <<{1, 2, 3, 4}>>}}
    \cup {[routes |-> <<{4}, {1}>>, lost |-> x] : x \in {"tail", "all", "value"}}
Publication(to, port) == [direction |-> "destination", to |-> to, port |-> port]
MCPublications == {Publication("web", 1), Publication("servers", NoPort), Publication("six", 2),
                   [Publication("db", 1) EXCEPT !.direction = "source"]}
MCArrivals == [src_zone : {"out", "in"}, dst_zone : {"in"}, src : {1, 2}, dst : {1, 3},
               protocol : {"tcp", "udp"}, port : {1, 2}]

MCInsecure == {<<"tcp", 2>>}
MCBlocks == LET plain == [routes |-> <<{1}>>, lost |-> "none"] IN
    {[unread |-> u, table |-> t, nat |-> Publication("web", 1), outside |-> {"out"}, comments |-> TRUE] :
        u \in {{}, {"db"}, {"web", "six"}}, t \in MCTables}
    \cup {[unread |-> u, table |-> plain, nat |-> n, outside |-> o, comments |-> FALSE] :
             u \in {{}, {"db"}}, n \in MCPublications, o \in {{"out"}, {}}}
MCBlank == [rules |-> <<>>, unread |-> {}, table |-> [routes |-> <<{1}>>, lost |-> "none"], nat |-> Publication("web", 1),
            outside |-> {"out"}, comments |-> FALSE]
-----------------------------------------------------------------------------
Init == /\ IntervalInit /\ RulesInit /\ PathInit /\ CheckInit /\ AdvisoryInit /\ RowInit /\ AaaInit
        /\ study \in {"intervals", "rules", "paths", "checks", "advisories", "reviews", "rows", "aaa"}
        /\ ReviewInit /\ (study # "reviews" => reviewed = MCBlank)

Next == /\ UNCHANGED study
        /\ \/ study = "intervals" /\ IntervalNext /\ UNCHANGED <<rules, pathVars, checkVars, advisory, reviewed, rowVars, aaaVars>>
           \/ study = "rules" /\ RulesNext /\ UNCHANGED <<intervalVars, pathVars, checkVars, advisory, reviewed, rowVars, aaaVars>>
           \/ study = "paths" /\ PathNext /\ UNCHANGED <<intervalVars, rules, checkVars, advisory, reviewed, rowVars, aaaVars>>
           \/ study = "checks" /\ CheckNext /\ UNCHANGED <<intervalVars, rules, pathVars, advisory, reviewed, rowVars, aaaVars>>
           \/ study = "reviews" /\ ReviewNext /\ UNCHANGED <<intervalVars, rules, pathVars, checkVars, advisory, rowVars, aaaVars>>
           \/ study = "rows" /\ RowNext /\ UNCHANGED <<intervalVars, rules, pathVars, checkVars, advisory, reviewed, aaaVars>>
           \/ study = "advisories" /\ AdvisoryNext /\ UNCHANGED <<intervalVars, rules, pathVars, checkVars, reviewed, rowVars, aaaVars>>
           \/ study = "aaa" /\ AaaNext /\ UNCHANGED <<intervalVars, rules, pathVars, checkVars, advisory, reviewed, rowVars>>

vars == <<study, intervalVars, rules, pathVars, checkVars, advisory, reviewed, rowVars, aaaVars>>

Spec == Init /\ [][Next]_vars
=============================================================================
