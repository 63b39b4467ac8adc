------------------------------ MODULE Rulebase ------------------------------
(* A firewall rulebase with its names resolved, and the two questions     *)
(* asked of it (firewall/model.py, the queries of firewall/analysis.py).  *)
(* An address set is a set of addresses and a service set a set of        *)
(* <<protocol, port>>: IntervalSets shows that the code's sets behave so. *)
(* A side of a rule that could not be expanded is in `unresolved`.        *)
EXTENDS Integers, SequencesExt

CONSTANTS
    AnyProtocol,   \* the key `service any` is stored under
    NoZone,        \* a zone the caller does not know
    NoRule         \* no rule matched

Sides == {"src", "dst", "svc"}

Permits(rule) == rule.action \in {"allow", "permit", "accept"}
Terminates(rule) == rule.action # "monitor"

\* The port set of the packet's protocol, or that of `any` when it has none.
ServiceCovers(services, p) ==
    IF \E s \in services : s[1] = p.protocol
    THEN <<p.protocol, p.port>> \in services
    ELSE \E s \in services : s[1] = AnyProtocol

\* The filters every query starts with: a rule without zones is in every zone.
InZones(rule, p) ==
    /\ p.src_zone # NoZone /\ rule.src_zones # {} => p.src_zone \in rule.src_zones
    /\ p.dst_zone # NoZone /\ rule.dst_zones # {} => p.dst_zone \in rule.dst_zones

SideCovers(rule, side, p) ==
    CASE side = "src" -> p.src \in rule.source
      [] side = "dst" -> p.dst \in rule.destination
      [] side = "svc" -> ServiceCovers(rule.services, p)

\* No side that could be read excludes the packet.
MayMatch(rule, p) ==
    /\ rule.enabled /\ InZones(rule, p)
    /\ \A side \in Sides \ rule.unresolved : SideCovers(rule, side, p)

\* The rule at the first of some positions, and the positions ahead of that.
TheFirst(rules, S) == IF S = {} THEN NoRule ELSE rules[Min(S)]
Ahead(T, S) == {i \in T : \A j \in S : i < j}

\* Which rule matches a packet: the first that certainly does, and the rules
\* ahead of it that could not be excluded.
FirstMatch(rules, p) ==
    LET candidates == {i \in DOMAIN rules : MayMatch(rules[i], p)}
        certain == {i \in candidates : rules[i].unresolved = {}}
    IN  [matched |-> TheFirst(rules, certain), undecidable |-> Ahead(candidates, certain)]

\* A rule that cannot be ruled out for the whole range of packets.
Touches(rule, q) ==
    /\ rule.enabled /\ InZones(rule, q)
    /\ "src" \in rule.unresolved \/ rule.source \cap q.srcs # {}
    /\ "dst" \in rule.unresolved \/ rule.destination \cap q.dsts # {}
    /\ "svc" \in rule.unresolved \/ ServiceCovers(rule.services, q)

CoversRange(rule, q) == q.srcs \subseteq rule.source /\ q.dsts \subseteq rule.destination

\* Mutant: a catch-all decides the range although rules above took parts of it.
FirstMatchOverRange_CatchAll(rules, q) ==
    LET touching == {i \in DOMAIN rules : Touches(rules[i], q)}
        readable == {i \in touching : rules[i].unresolved = {}}
        covering == {i \in readable : CoversRange(rules[i], q)}
    IN  [outcome |-> CASE covering # {} -> IF Permits(TheFirst(rules, covering)) THEN "allowed" ELSE "blocked"
                       [] covering = {} /\ readable # {} -> "mixed"
                       [] OTHER -> "no-match",
         decided_by |-> TheFirst(rules, covering),
         undecidable |-> Ahead(touching, covering) \ readable]

\* What the rules do across a range of sources and destinations: the first rule
\* that covers all of it decides, unless a rule above it took a part.
FirstMatchOverRange(rules, q) ==
    LET touching == {i \in DOMAIN rules : Touches(rules[i], q)}
        readable == {i \in touching : rules[i].unresolved = {}}
        covering == {i \in readable : CoversRange(rules[i], q)}
        splitters == Ahead(readable, covering)
    IN  [outcome |-> CASE splitters # {} -> "mixed"
                       [] splitters = {} /\ covering # {} ->
                              IF Permits(TheFirst(rules, covering)) THEN "allowed" ELSE "blocked"
                       [] OTHER -> "no-match",
         decided_by |-> IF splitters = {} THEN TheFirst(rules, covering) ELSE NoRule,
         undecidable |-> Ahead(touching, covering) \ readable]
-----------------------------------------------------------------------------
\* What the device itself does, for comparison: it knows every side of its
\* rules and decides by the first enabled rule that matches and terminates.
\* Expand gives every rulebase the collected one may stand for.
Matches(rule, p) ==
    rule.enabled /\ InZones(rule, p) /\ \A side \in Sides : SideCovers(rule, side, p)

Decides(rules, p) ==
    TheFirst(rules, {i \in DOMAIN rules : Terminates(rules[i]) /\ Matches(rules[i], p)})

\* What a rule may really say, an unread side being any part of what is looked at.
Meanings(rule, addresses, services) ==
    LET Known(side, content, all) == IF side \in rule.unresolved THEN SUBSET all ELSE {content}
    IN  {[rule EXCEPT !.source = c.src, !.destination = c.dst, !.services = c.svc, !.unresolved = {}] :
            c \in [src : Known("src", rule.source, addresses), dst : Known("dst", rule.destination, addresses),
                   svc : Known("svc", rule.services, services)]}

Expand(rules, addresses, services) ==
    LET unread == {i \in DOMAIN rules : rules[i].unresolved # {}}
        Says(i) == Meanings(rules[i], addresses, services)
    IN  {[i \in DOMAIN rules |-> IF i \in unread THEN said[i] ELSE rules[i]] :
            said \in {said \in [unread -> UNION {Says(i) : i \in unread}] : \A i \in unread : said[i] \in Says(i)}}
=============================================================================
