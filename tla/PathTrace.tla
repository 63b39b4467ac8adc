----------------------------- MODULE PathTrace -----------------------------
(* Tracing a packet across the estate (topology/path.py, graph.py,        *)
(* translation.py) and judging a segmentation intent by it (services/     *)
(* segmentation.py).  An estate gives every device its routes, networks,  *)
(* rules and NAT; the walk takes one device per step and ends with the    *)
(* two axes, how far routing was followed and what policy decided.        *)
EXTENDS Rulebase, FiniteSetsExt

CONSTANTS
    Device,       \* a finite set of integers, in the order of the hostnames
    Address,      \* integers: a range is asked about by its lowest address
    Estates,      \* the estates considered: functions on Device
    Queries,      \* the questions considered
    MaxHops,      \* hops before a path is called a loop
    NoAddress,    \* no next hop
    NoDevice,
    NoBase,       \* a rule of a platform with one ordered policy
    Pool          \* a translation to more than one address

ASSUME PathAssumption ==
    /\ Device \subseteq Nat /\ IsFiniteSet(Device) /\ NoDevice \notin Device
    /\ Address \subseteq Nat /\ NoAddress \notin Address /\ MaxHops \in Nat \ {0}
    /\ \A e \in Estates, d \in Device :
        /\ e[d].addresses \subseteq Address
        /\ \A list \in {e[d].routes, e[d].rules, e[d].nat} : DOMAIN list \subseteq Nat
        /\ \A i \in DOMAIN e[d].routes : e[d].routes[i].prefix.len \in 0 .. 128
    /\ \A q \in Queries : {q.srcs, q.dsts} \subseteq (SUBSET Address) \ {{}}

VARIABLES estate, query, trace

pathVars == <<estate, query, trace>>

First(S) == CHOOSE x \in S : \A y \in S : x <= y
Several(S) == \E x, y \in S : x # y
-----------------------------------------------------------------------------
(* The graph: a prefix is [set, len], a route [prefix, next_hop,          *)
(* interface, connected, global, distance, metric].                       *)
Better(a, b) == \/ a.prefix.len > b.prefix.len
                \/ a.prefix.len = b.prefix.len /\ a.distance < b.distance
                \/ a.prefix.len = b.prefix.len /\ a.distance = b.distance /\ a.metric < b.metric

Reaching(node, address) ==
    {i \in DOMAIN node.routes : node.routes[i].global /\ address \in node.routes[i].prefix.set}

Best(node, S) == {i \in S : \A j \in S : ~Better(node.routes[j], node.routes[i])}

\* The longest prefix, then the distance, the metric and the table's order.
Lookup(node, address) ==
    LET S == Best(node, Reaching(node, address)) IN IF S = {} THEN {} ELSE {node.routes[First(S)]}

\* Mutant: an equal-cost sibling goes unnoticed.
EqualCostNextHops_None(node, address) == {}

\* The next hops that tie for best, when there is more than one.
EqualCostNextHops(node, address) ==
    LET S == {i \in Reaching(node, address) : node.routes[i].next_hop # NoAddress}
        hops == {node.routes[i].next_hop : i \in Best(node, S)}
    IN  IF Several(hops) THEN hops ELSE {}

RoutesSubdividing(node, range) ==
    {i \in DOMAIN node.routes :
        LET r == node.routes[i]
        IN  r.global /\ r.prefix.set \cap range # {} /\ ~(range \subseteq r.prefix.set)}

OtherVrfsMatching(node, address) ==
    \E i \in DOMAIN node.routes : ~node.routes[i].global /\ address \in node.routes[i].prefix.set

Connected(node) == {node.routes[i].prefix : i \in {i \in DOMAIN node.routes : node.routes[i].connected}}
Serves(node, address) == \E c \in Connected(node) : address \in c.set
SameConnectedSubnet(node, a, b) == \E c \in Connected(node) : {a, b} \subseteq c.set

\* The device attached to the most specific subnet that holds the address.
DeviceServing(e, address) ==
    LET Lengths(d) == {c.len : c \in {c \in Connected(e[d]) : address \in c.set}}
        attached == {d \in Device : Lengths(d) # {}}
    IN  IF attached = {} THEN NoDevice
        ELSE First({d \in attached : \A f \in attached : Max(Lengths(d)) >= Max(Lengths(f))})

DeviceAt(e, address) ==
    LET owners == {d \in Device : address \in e[d].addresses}
    IN  IF owners = {} THEN NoDevice ELSE First(owners)

\* Networks are [interface, prefix]; a host entry has no segment behind it.
Nearest(nets, address) ==
    LET S == {n \in nets : address \in n.prefix.set}
    IN  {n \in S : \A o \in S : n.prefix.len >= o.prefix.len}

InterfaceContaining(node, address) ==
    {n.interface : n \in Nearest({n \in node.networks : Cardinality(n.prefix.set) > 1}, address)}

ZoneContaining(node, address) ==
    LET S == Nearest({n \in node.networks : node.zones[n.interface] # NoZone}, address)
    IN  IF S = {} THEN NoZone ELSE node.zones[(CHOOSE n \in S : TRUE).interface]
-----------------------------------------------------------------------------
(* NAT: the first rule whose conditions the packet may meet is followed.  *)
(* A condition is the addresses it names and whether a name was not       *)
(* defined.                                                               *)
Meets(condition, address) ==
    IF address \in condition.known THEN "yes" ELSE IF condition.unread THEN "unknown" ELSE "no"

Translate(node, src, dst, port) ==
    LET meeting == {i \in DOMAIN node.nat :
                        LET r == node.nat[i]
                        IN  r.normalised /\ Meets(r.src, src) # "no" /\ Meets(r.dst, dst) # "no"}
        r == node.nat[First(meeting)]
        Or(new, old) == IF new = NoAddress THEN old ELSE new
    IN  IF meeting = {} THEN [applied |-> FALSE, unreadable |-> FALSE]
        ELSE IF \/ "unknown" \in {Meets(r.src, src), Meets(r.dst, dst)}
                \/ r.unreadable \/ Pool \in {r.to_src, r.to_dst}
             THEN [applied |-> FALSE, unreadable |-> TRUE]
        ELSE [applied |-> TRUE, unreadable |-> FALSE, src |-> Or(r.to_src, src),
              dst |-> Or(r.to_dst, dst), port |-> Or(r.to_port, port)]

\* Does any rule match on an address of the range?
NatTouches(node, range) ==
    \E i \in DOMAIN node.nat :
        LET r == node.nat[i] IN r.normalised /\ (r.dst.unread \/ r.dst.known \cap range # {})

\* A ranged destination is reported, never translated.
TranslateAt(node, src, dst, port, range) ==
    IF Several(range) THEN [applied |-> FALSE, unreadable |-> NatTouches(node, range)]
    ELSE Translate(node, src, dst, port)

UnnormalisedNat(node) == \E i \in DOMAIN node.nat : ~node.nat[i].normalised
-----------------------------------------------------------------------------
(* One hop's rulebase: the lists that are in force there, each asked      *)
(* about the range, and the strongest of their answers.                   *)
Contexts(rules) == {rules[i].rulebase : i \in DOMAIN rules} \ {NoBase}
InForce(node) == Restrict(node.rules, {i \in DOMAIN node.rules : node.rules[i].applied})
OfBase(rules, name) == Restrict(rules, {i \in DOMAIN rules : rules[i].rulebase = name})

\* The lists bound inbound where the packet arrived or outbound where it leaves.
\* A binding with no interface is in force everywhere.
GoverningRulebases(node, hop, names) ==
    {n \in names : \E b \in node.bindings : b.rulebase = n
        /\ \/ b.interface = NoAddress
           \/ b.direction = "in" /\ b.interface \in hop.ingress \cup {hop.src_zone}
           \/ b.direction = "out" /\ b.interface \in hop.egress \cup {hop.dst_zone}}

\* The lists that have rules.
Filled(lists) == {list \in lists : DOMAIN list # {}}

NoVerdict == [action |-> "none", undecidable |-> FALSE]

\* One ordered list: its action is the rule's own word for it.
Ask(rules, hop, q, port) ==
    LET asked == [srcs |-> q.srcs, dsts |-> q.dsts, protocol |-> q.protocol, port |-> port,
                  src_zone |-> hop.src_zone, dst_zone |-> hop.dst_zone]
        r == FirstMatchOverRange(rules, asked)
    IN  IF r.outcome = "mixed" THEN [action |-> "mixed", undecidable |-> FALSE]
        ELSE IF r.undecidable # {} THEN [action |-> "none", undecidable |-> TRUE]
        ELSE [action |-> IF r.outcome = "no-match" THEN "deny" ELSE r.decided_by.action,
              undecidable |-> FALSE]

Precedence(action) == CASE action = "deny" -> 3 [] action = "mixed" -> 2 [] action = "allow" -> 0
                        [] OTHER -> 1

\* A deny in any list drops the packet; an unread list outranks a permit.
Combine(verdicts) ==
    IF verdicts = {} THEN NoVerdict
    ELSE [action |-> (CHOOSE v \in verdicts : \A w \in verdicts :
                         Precedence(v.action) >= Precedence(w.action)).action,
          undecidable |-> \E v \in verdicts : v.undecidable]

\* The device's answer.  With one list, or none named, its bindings are not
\* looked at; with several and none bound to the hop nothing is claimed.
Evaluate(node, hop, q, port) ==
    LET rules == InForce(node)
        names == Contexts(rules)
        governing == GoverningRulebases(node, hop, names)
        lists == IF Several(names) THEN {OfBase(rules, n) : n \in governing} ELSE {rules}
    IN  Combine({Ask(list, hop, q, port) : list \in Filled(lists)})
-----------------------------------------------------------------------------
(* The walk: the packet as it is now, and what the hops so far decided.   *)
Start(e, q) ==
    LET src == First(q.srcs)
        dst == First(q.dsts)
        at == DeviceServing(e, src)
        same == /\ at # NoDevice
                /\ Serves(e[at], dst) /\ SameConnectedSubnet(e[at], src, dst)
    IN  [pc |-> IF at = NoDevice \/ same THEN "done" ELSE "walking",
         routing |-> IF same THEN "same-zone" ELSE "unknown",
         policy |-> CASE at = NoDevice -> "partially-allowed" [] OTHER -> "not-routed",
         at |-> at, src |-> src, dst |-> dst, port |-> q.port, from |-> src,
         visited |-> {}, hops |-> <<>>, branched |-> FALSE, translated |-> FALSE,
         nat_unknown |-> FALSE]

\* The policy axis, from the hops and the routing axis.
Finalise(t) ==
    LET acts == {t.hops[i].action : i \in DOMAIN t.hops} \ {"none"}
        undecided == \E i \in DOMAIN t.hops : t.hops[i].undecidable
    IN  CASE "deny" \in acts -> "blocked"
          [] "deny" \notin acts /\ t.routing = "unreachable" -> "not-routed"
          [] "deny" \notin acts /\ t.routing # "unreachable" ->
                 IF \/ undecided \/ t.routing # "routed" \/ "mixed" \in acts
                    \/ acts # {} /\ (t.branched \/ t.nat_unknown)
                 THEN "partially-allowed" ELSE "allowed"

Ended(t, routing) ==
    LET u == [t EXCEPT !.routing = routing] IN [u EXCEPT !.pc = "done", !.policy = Finalise(u)]
Looping(t) == t.at \in t.visited \/ Len(t.hops) = MaxHops

\* Only a table that was read to its end, in the one VRF looked at, says no.
RoutingWithoutRoute(node, address) ==
    IF node.routes_known /\ ~node.truncated /\ ~OtherVrfsMatching(node, address)
    THEN "unreachable" ELSE "unknown"

\* Where the packet arrives at a device and where it leaves.
HopAt(node, from, egress, zone) ==
    [ingress |-> InterfaceContaining(node, from), src_zone |-> ZoneContaining(node, from),
     egress |-> egress, dst_zone |-> zone]

\* The packet at a device, after the device's NAT.
NatOf(e, q, t) == TranslateAt(e[t.at], t.src, t.dst, t.port, q.dsts)
DstOf(e, q, t) == IF NatOf(e, q, t).applied THEN NatOf(e, q, t).dst ELSE t.dst
PortOf(e, q, t) == IF NatOf(e, q, t).applied THEN NatOf(e, q, t).port ELSE t.port
Taken(e, q, t) ==
    [t EXCEPT !.visited = @ \cup {t.at}, !.dst = DstOf(e, q, t),
              !.src = IF NatOf(e, q, t).applied THEN NatOf(e, q, t).src ELSE @,
              !.port = PortOf(e, q, t),
              !.translated = @ \/ NatOf(e, q, t).applied, !.nat_unknown = @ \/ NatOf(e, q, t).unreadable]

\* What the rules say of it where it arrives and where its route leaves.
RouteOf(e, q, t) == CHOOSE r \in Lookup(e[t.at], DstOf(e, q, t)) : TRUE
VerdictAt(e, q, t, egress, zone) == Evaluate(e[t.at], HopAt(e[t.at], t.from, egress, zone), q, PortOf(e, q, t))
VerdictIn(e, q, t) ==
    VerdictAt(e, q, t, InterfaceContaining(e[t.at], DstOf(e, q, t)), ZoneContaining(e[t.at], DstOf(e, q, t)))
VerdictOut(e, q, t) ==
    VerdictAt(e, q, t, {RouteOf(e, q, t).interface}, e[t.at].zones[RouteOf(e, q, t).interface])

\* The trace with the device's hop, and with its branch where it is sent on.
Passed(t, verdict) == Append(t.hops, [device |-> t.at, action |-> verdict.action,
                                      undecidable |-> verdict.undecidable])
Reached(e, q, t, verdict) == [Taken(e, q, t) EXCEPT !.hops = Passed(t, verdict)]
Crossed(e, q, t) ==
    [Taken(e, q, t) EXCEPT !.hops = Passed(t, VerdictOut(e, q, t)),
                           !.branched = @ \/ EqualCostNextHops(e[t.at], DstOf(e, q, t)) # {}]

\* One device: NAT, arrival, the route, the rulebase, the next device.
Step(e, q, t) ==
    LET node == e[t.at]
        dst == DstOf(e, q, t)
        route == RouteOf(e, q, t)
    IN  IF Looping(t) THEN Ended(t, "unknown")
        ELSE IF Serves(node, dst) THEN Ended(Reached(e, q, t, VerdictIn(e, q, t)), "routed")
        ELSE IF Lookup(node, dst) = {}
             THEN Ended(Reached(e, q, t, NoVerdict), RoutingWithoutRoute(node, dst))
        ELSE IF Several(q.dsts) /\ RoutesSubdividing(node, q.dsts) # {}
             THEN Ended(Reached(e, q, t, NoVerdict), "unknown")
        ELSE IF VerdictOut(e, q, t).action = "deny"
             THEN Ended(Crossed(e, q, t), IF route.next_hop = NoAddress THEN t.routing ELSE "routed")
        ELSE IF DeviceAt(e, route.next_hop) = NoDevice THEN Ended(Crossed(e, q, t), "partially-routed")
        ELSE [Crossed(e, q, t) EXCEPT !.at = DeviceAt(e, route.next_hop), !.from = route.next_hop,
                 !.nat_unknown = @ \/ (UnnormalisedNat(node) /\ ~NatOf(e, q, t).applied)]
-----------------------------------------------------------------------------
NoTrace == [pc |-> "ask"]

PathInit == estate = <<>> /\ query = <<>> /\ trace = NoTrace

AskPath ==
    /\ trace.pc = "ask"
    /\ \E e \in Estates, q \in Queries : estate' = e /\ query' = q /\ trace' = Start(e, q)

TakeHop == trace.pc = "walking" /\ trace' = Step(estate, query, trace) /\ UNCHANGED <<estate, query>>

PathNext == AskPath \/ TakeHop

PathSpec == PathInit /\ [][PathNext]_pathVars
-----------------------------------------------------------------------------
(* Judging an intent for a pair of zones by the walk of one prefix pair. *)

\* Only a definitive answer upholds or violates anything.
Judge(expectation, t) ==
    LET through == t.policy = "allowed" /\ t.routing = "routed"
        stopped == t.policy = "blocked" \/ t.routing = "unreachable"
    IN  CASE expectation = "denied" ->
                 IF stopped THEN "upheld"
                 ELSE IF through \/ t.routing = "same-zone" THEN "violated" ELSE "unverified"
          [] expectation = "allowed" ->
                 IF through THEN "upheld" ELSE IF stopped THEN "violated" ELSE "unverified"
-----------------------------------------------------------------------------
(* What the estate does to one packet, for comparison.  A device whose    *)
(* table, rules or NAT could not be read or that translates the packet,   *)
(* and everything beyond the estate, may do anything; a list that is      *)
(* bound to interfaces is in force there, and any other everywhere.       *)
RealLists(node, hop) ==
    LET rules == InForce(node)
        names == Contexts(rules)
        bound == {b.rulebase : b \in node.bindings}
    IN  Filled({OfBase(rules, n) : n \in GoverningRulebases(node, hop, names) \cup (names \ bound) \cup {NoBase}})

\* The answers a list may give: a rule that could not be read may match.
Answers(rules, p) ==
    LET open == {i \in DOMAIN rules : MayMatch(rules[i], p) /\ Terminates(rules[i])}
        certain == {i \in open : rules[i].unresolved = {}}
    IN  {Permits(rules[i]) : i \in {i \in open : \A j \in certain : i <= j}}
          \cup (IF certain = {} THEN {FALSE} ELSE {})

\* The packet is dropped by a list that may deny it, and goes on if all may permit it.
Filtered(node, hop, p, onward) ==
    LET asked == [src |-> p.src, dst |-> p.dst, protocol |-> p.protocol, port |-> p.port,
                  src_zone |-> hop.src_zone, dst_zone |-> hop.dst_zone]
        says == {Answers(list, asked) : list \in RealLists(node, hop)}
    IN  (IF \E a \in says : FALSE \in a THEN {"dropped"} ELSE {}) \cup (IF \A a \in says : TRUE \in a THEN onward ELSE {})

Anything == {"dropped", "delivered"}

\* The ends the packet p may come to at device d, given those beyond it.
Fate(e, p, d, from, beyond) ==
    LET node == e[d]
        nat == Translate(node, p.src, p.dst, p.port)
        best == Best(node, Reaching(node, p.dst))
        Through(egress, zone, onward) == Filtered(node, HopAt(node, from, egress, zone), p, onward)
        Sent(r) == LET next == DeviceAt(e, r.next_hop)
                   IN  Through({r.interface}, node.zones[r.interface],
                              IF next = NoDevice THEN Anything ELSE beyond[<<next, r.next_hop>>])
    IN  IF nat.applied \/ nat.unreadable \/ UnnormalisedNat(node) THEN Anything
        ELSE IF Serves(node, p.dst)
             THEN Through(InterfaceContaining(node, p.dst), ZoneContaining(node, p.dst), {"delivered"})
        ELSE IF best = {}
             THEN IF ~node.routes_known \/ node.truncated \/ OtherVrfsMatching(node, p.dst)
                  THEN Anything ELSE {"dropped"}
        ELSE UNION {Sent(node.routes[i]) : i \in best}

\* Its ends where it may pass so many devices; one more than there are is a loop.
FatesWithin(e, p) ==
    LET fate[fuel \in 0 .. Cardinality(Device) + 1] ==
            [at \in Device \X Address |->
                IF fuel = 0 THEN {"dropped"} ELSE Fate(e, p, at[1], at[2], fate[fuel - 1])]
    IN  fate

Fates(e, p, d, from) == FatesWithin(e, p)[Cardinality(Device) + 1][<<d, from>>]

\* One packet, from the device its source is attached to.
Outcome(e, p) ==
    LET d == DeviceServing(e, p.src)
    IN  IF d = NoDevice THEN Anything
        ELSE IF SameConnectedSubnet(e[d], p.src, p.dst) THEN {"delivered"}
        ELSE Fates(e, p, d, p.src)

\* Every packet of the question.
PacketsOf(q) == {[src |-> s, dst |-> x, port |-> q.port, protocol |-> q.protocol] : s \in q.srcs, x \in q.dsts}
Outcomes(e, q) == UNION {Outcome(e, p) : p \in PacketsOf(q)}
-----------------------------------------------------------------------------
(* Where the verdicts are claimed to hold.  Outside it the walk and the    *)
(* estate disagree; README.md lists how.                                   *)

\* Every rule says allow or deny in the words the walk reads.
PlainWords(e) == \A d \in Device : \A i \in DOMAIN e[d].rules : e[d].rules[i].action \in {"allow", "deny"}

\* A device's only list is not bound to some interface of several, and no rule
\* stands outside the lists.
ListsApart(e) == \A d \in Device :
    LET rules == InForce(e[d])
    IN  Contexts(rules) # {} =>
            /\ Several(Contexts(rules)) \/ e[d].bindings = {}
            /\ \A i \in DOMAIN rules : rules[i].rulebase # NoBase

\* Of several lists it is known where each is bound.
ListsBound(e) == \A d \in Device :
    LET names == Contexts(InForce(e[d]))
    IN  Several(names) => names \subseteq {b.rulebase : b \in e[d].bindings}

\* No part of a range lies in a subnet, or under a NAT rule, that the rest is not in.
Whole(range, set) == set \cap range # {} => range \subseteq set
Subnets(node) ==
    {c.set : c \in Connected(node)}
    \cup {n.prefix.set : n \in {n \in node.networks : Cardinality(n.prefix.set) > 1 \/ node.zones[n.interface] # NoZone}}
WholeRanges(e, q) == \A d \in Device :
    /\ \A set \in Subnets(e[d]) : Whole(q.srcs, set) /\ Whole(q.dsts, set)
    /\ \A i \in DOMAIN e[d].nat : Whole(q.srcs, e[d].nat[i].src.known)

\* Routes that tie for best go one way, or different next hops tell them apart.
TiesAreSeen(e) == \A d \in Device, address \in Address :
    \A i, j \in Best(e[d], Reaching(e[d], address)) :
        LET r == e[d].routes[i]
            s == e[d].routes[j]
        IN  \/ r.next_hop = s.next_hop /\ r.interface = s.interface
            \/ r.next_hop # s.next_hop /\ NoAddress \notin {r.next_hop, s.next_hop}

Straight(e, q) == ListsApart(e) /\ WholeRanges(e, q) /\ TiesAreSeen(e)

\* The device the walk ended on has no NAT in a form nobody reads.
NatReadAtTheEnd(e, t) ==
    t.hops # <<>> => ~UnnormalisedNat(e[Last(t.hops).device])

\* A range is not called unreachable where a part of it has a route.
NoPartRouted(e, q, t) ==
    (t.routing = "unreachable" /\ t.hops # <<>>) =>
        LET node == e[Last(t.hops).device]
        IN  \A i \in DOMAIN node.routes : Whole(q.dsts, node.routes[i].prefix.set)

Single(t) == ~t.branched /\ ~t.translated /\ ~t.nat_unknown

\* The walk met a fork or a NAT it could not read; some device had an opinion.
Doubtful(t) == t.branched \/ t.nat_unknown
Heard(t) == \E i \in DOMAIN t.hops : t.hops[i].action # "none"

\* A block stands: no packet of the question gets through, whatever could not
\* be read.  (Not when the path branched or NAT may have changed the packet: it is
\* said there as well, of the one way that was walked.)
BlockIsDefinitive ==
    (/\ trace.pc = "done" /\ trace.policy = "blocked" /\ Single(trace)
     /\ Straight(estate, query) /\ NatReadAtTheEnd(estate, trace)) =>
        Outcomes(estate, query) = {"dropped"}

\* Where some device of the path had an opinion, "allowed" is never said of traffic
\* some device drops: not when a table, a rule or a NAT could not be read, nor when
\* an equal-cost path is filtered.  Where none had, "allowed" speaks of the route
\* that was walked, and is true of a path without doubts only.
AllowedIsDelivered ==
    (/\ trace.pc = "done" /\ trace.policy = "allowed" /\ ~trace.translated
     /\ PlainWords(estate) /\ ListsBound(estate) /\ Straight(estate, query) /\ NatReadAtTheEnd(estate, trace)
     /\ Heard(trace) \/ Single(trace)) =>
        Outcomes(estate, query) = {"delivered"}

\* What becomes of a doubt.  Where some device had an opinion and none denied, it
\* leaves the path an open question and the cell of a policy unverified.  A doubt is
\* passed over where no device had an opinion: the path is then "allowed", forks and
\* unread NAT or not, although the code says of both that they weaken every answer.
DoubtsAreTold ==
    trace.pc = "done" =>
        /\ (Doubtful(trace) /\ Heard(trace) /\ trace.policy # "blocked" /\ trace.routing # "unreachable") =>
              /\ trace.policy = "partially-allowed"
              /\ Judge("denied", trace) = "unverified" /\ Judge("allowed", trace) = "unverified"
        /\ (~Heard(trace) /\ trace.routing = "routed" /\ \A i \in DOMAIN trace.hops : ~trace.hops[i].undecidable) =>
              trace.policy = "allowed"

\* A cell judged upheld or violated without a doubt says what the estate does.
JudgementsHold ==
    (/\ trace.pc = "done" /\ Single(trace)
     /\ PlainWords(estate) /\ ListsBound(estate) /\ Straight(estate, query)
     /\ NatReadAtTheEnd(estate, trace) /\ NoPartRouted(estate, query, trace)) =>
        LET denied == Judge("denied", trace)
            allowed == Judge("allowed", trace)
            ends == Outcomes(estate, query)
        IN  /\ denied = "upheld" \/ allowed = "violated" => ends = {"dropped"}
            /\ denied = "violated" \/ allowed = "upheld" => ends = {"delivered"}

\* A path's verdict, and what a segmentation policy makes of it, are what the
\* estate does with the packets asked about, as far as the four parts say.
PathVerdictsHold == BlockIsDefinitive /\ AllowedIsDelivered /\ DoubtsAreTold /\ JudgementsHold
-----------------------------------------------------------------------------
(* What topology/path.py says of its own answers and its walk does not     *)
(* keep.                                                                   *)

\* "If a device on the path denies the packet, it dies there": a path on which
\* the deciding rule of a device refuses the packet, in whatever word its
\* vendor has for it, is not reported as allowed.
DenialStopsThePath ==
    (trace.pc = "done" /\ trace.policy = "allowed") =>
        \A i \in DOMAIN trace.hops :
            trace.hops[i].action # "none" => Permits([action |-> trace.hops[i].action])
=============================================================================
