---------------------------- MODULE RuleAnalysis ----------------------------
(* The relationships between the rules of a rulebase (firewall/           *)
(* analysis.py, analyse) against what the rules do to packets.  The       *)
(* rulebase grows rule by rule in evaluation order, as a parser yields    *)
(* it; the analysis and the two queries run on every rulebase so reached. *)
EXTENDS Rulebase

CONSTANTS
    V4, V6,             \* the addresses of each family
    RuleShapes,         \* the rules that may be written
    Packets,            \* the packets the device may see
    MaxRules,           \* bound: rules of a rulebase
    MaxRelationships    \* relationships materialised before the output is cut

\* A rule, with what its names were resolved to.
ResolvedRule == [enabled : BOOLEAN, action : STRING, rulebase : STRING,
                 src_zones : SUBSET STRING, dst_zones : SUBSET STRING,
                 source : SUBSET (V4 \cup V6), destination : SUBSET (V4 \cup V6), services : SUBSET (STRING \X Int),
                 applications : SUBSET STRING, users : SUBSET STRING, unresolved : SUBSET Sides]

Packet == [rulebase : STRING, src_zone : STRING \cup {NoZone}, dst_zone : STRING \cup {NoZone},
           src : V4 \cup V6, dst : V4 \cup V6, protocol : STRING, port : Int, app : STRING, user : STRING]

ASSUME RulesAssumption ==
    /\ RuleShapes \subseteq ResolvedRule /\ NoRule \notin ResolvedRule
    /\ Packets \subseteq Packet
    /\ \A r \in RuleShapes : (\E s \in r.services : s[1] = AnyProtocol) => \A s \in r.services : s[1] = AnyProtocol
    /\ \A p \in Packets : p.protocol # AnyProtocol
    /\ MaxRelationships \in Nat

VARIABLE rules

IsAnyAddress(s) == V4 \subseteq s \/ V6 \subseteq s
IsAnyService(s) == \E x \in s : x[1] = AnyProtocol
-----------------------------------------------------------------------------
ServicesIntersect(s, t) ==
    IF IsAnyService(s) \/ IsAnyService(t) THEN s # {} /\ t # {} ELSE s \cap t # {}

ServicesContain(s, t) == t = {} \/ IsAnyService(s) \/ (~IsAnyService(t) /\ t \subseteq s)

ZonesMeet(a, b) == a = {} \/ b = {} \/ a \cap b # {}

\* A rule without zones is in every zone, and is contained only by another.
ZonesContain(outer, inner) == outer = {} \/ (inner # {} /\ inner \subseteq outer)

\* Applications and users are compared by name; none, or "any", is every name.
NamesOverlap(a, b) == a = {} \/ b = {} \/ a \cap b # {} \/ "any" \in a \cup b
NamesContain(outer, inner) ==
    outer = {} \/ "any" \in outer \/ (inner # {} /\ inner \subseteq outer)

Covers(outer, inner) ==
    /\ ZonesContain(outer.src_zones, inner.src_zones)
    /\ ZonesContain(outer.dst_zones, inner.dst_zones)
    /\ inner.source \subseteq outer.source
    /\ inner.destination \subseteq outer.destination
    /\ ServicesContain(outer.services, inner.services)
    /\ NamesContain(outer.applications, inner.applications)
    /\ NamesContain(outer.users, inner.users)

\* The filters a pair passes before it is compared.
Comparable(earlier, later) ==
    /\ earlier.rulebase = later.rulebase
    /\ Terminates(earlier)
    /\ ZonesMeet(earlier.src_zones, later.src_zones) /\ ZonesMeet(earlier.dst_zones, later.dst_zones)
    /\ earlier.source \cap later.source # {}
    /\ earlier.destination \cap later.destination # {}
    /\ ServicesIntersect(earlier.services, later.services)
    /\ NamesOverlap(earlier.applications, later.applications)
    /\ NamesOverlap(earlier.users, later.users)

\* The rules that are enabled, by position.
Active(rulebase) == {i \in DOMAIN rulebase : rulebase[i].enabled}

\* The last rule, when it denies everything: it generalises all above it by design.
IsCleanup(rulebase, j) ==
    /\ ~Permits(rulebase[j]) /\ \A i \in Active(rulebase) : i <= j
    /\ IsAnyAddress(rulebase[j].source) /\ IsAnyAddress(rulebase[j].destination)
    /\ IsAnyService(rulebase[j].services)

\* The relationship of two active rules, if any, and the rule it is about.
KindOf(rulebase, i, j) ==
    LET earlier == rulebase[i]
        later == rulebase[j]
        same == earlier.action = later.action
        Is(kind) == [kind |-> kind, earlier |-> i, later |-> j, subject |-> j, cause |-> i]
    IN  IF ~Comparable(earlier, later) THEN {}
        ELSE IF Covers(earlier, later) THEN {Is(IF same THEN "redundant" ELSE "shadowed")}
        ELSE IF Covers(later, earlier)
             THEN IF same THEN {[Is("redundant") EXCEPT !.subject = i, !.cause = j]}
                  ELSE IF IsCleanup(rulebase, j) THEN {} ELSE {Is("generalisation")}
        ELSE IF same THEN {} ELSE {Is("correlated")}

Shadows(rulebase, i, j) == \E r \in KindOf(rulebase, i, j) : r.kind = "shadowed"

\* The pairs compared: the scan for a later rule ends at the first that shadows it.
Compared(rulebase) ==
    {x \in Active(rulebase) \X Active(rulebase) :
        x[1] < x[2] /\ \A k \in Active(rulebase) : k < x[1] => ~Shadows(rulebase, k, x[2])}

\* One relationship is found before another.
Precedes(r, s) == r.later < s.later \/ (r.later = s.later /\ r.earlier < s.earlier)

Found(rulebase) == UNION {KindOf(rulebase, x[1], x[2]) : x \in Compared(rulebase)}

\* The first of them are kept, and the rest only counted.
Kept(rulebase) ==
    {r \in Found(rulebase) : Cardinality({s \in Found(rulebase) : Precedes(s, r)}) < MaxRelationships}

\* Each redundancy kept is shown with the rules its subject shadows.
Analyse(rulebase) ==
    LET Caveat(r) == {s.subject : s \in {s \in Kept(rulebase) :
                        r.kind = "redundant" /\ s.kind = "shadowed" /\ s.cause = r.subject}}
    IN  [shown |-> {[rel |-> r, shadows |-> Caveat(r)] : r \in Kept(rulebase)},
         truncated |-> Cardinality(Found(rulebase)) > MaxRelationships]
-----------------------------------------------------------------------------
RulesInit == rules = <<>>

AddRule ==
    /\ Len(rules) < MaxRules
    /\ \E r \in RuleShapes : rules' = Append(rules, r)

RulesNext == AddRule

RulesSpec == RulesInit /\ [][RulesNext]_rules
-----------------------------------------------------------------------------
\* A packet carries what the device sees and the analysis compares by name.
Named(names, n) == names = {} \/ "any" \in names \/ n \in names

Sees(rule, p) == rule.rulebase = p.rulebase /\ Named(rule.applications, p.app) /\ Named(rule.users, p.user)

Hits(rule, p) == Sees(rule, p) /\ Matches(rule, p)

\* A packet that arrives has zones; only who asks about one may not know them.
Arriving == {p \in Packets : p.src_zone # NoZone /\ p.dst_zone # NoZone}

\* What some of the rules make of a packet.
Verdict(rulebase, S, p) ==
    LET deciding == {i \in S : Terminates(rulebase[i]) /\ Hits(rulebase[i], p)}
    IN  deciding # {} /\ Permits(rulebase[Min(deciding)])

Readable(rulebase) == \A i \in DOMAIN rulebase : rulebase[i].unresolved = {}

\* The packets considered tell rules apart: they vary in one thing alone, and
\* where one rule names what another leaves out, some packet has it.
ASSUME PacketsAssumption ==
    /\ \A p, q \in Packets :
        {[p EXCEPT !.src = q.src], [p EXCEPT !.dst = q.dst], [p EXCEPT !.src_zone = q.src_zone],
         [p EXCEPT !.dst_zone = q.dst_zone], [p EXCEPT !.app = q.app], [p EXCEPT !.user = q.user],
         [p EXCEPT !.protocol = q.protocol, !.port = q.port]} \subseteq Packets
    /\ \A r, s \in RuleShapes :
        LET Beside(outer, inner, z) == z # NoZone /\ z \notin outer /\ (inner = {} \/ z \in inner)
        IN  /\ s.source \subseteq r.source \/ \E p \in Packets : p.src \in s.source \ r.source
            /\ s.destination \subseteq r.destination \/ \E p \in Packets : p.dst \in s.destination \ r.destination
            /\ ZonesContain(r.src_zones, s.src_zones)
                 \/ \E p \in Packets : Beside(r.src_zones, s.src_zones, p.src_zone)
            /\ ZonesContain(r.dst_zones, s.dst_zones)
                 \/ \E p \in Packets : Beside(r.dst_zones, s.dst_zones, p.dst_zone)
            /\ ServicesContain(r.services, s.services)
                 \/ \E p \in Packets : ServiceCovers(s.services, p) /\ ~ServiceCovers(r.services, p)
            /\ NamesContain(r.applications, s.applications)
                 \/ \E p \in Packets : Named(s.applications, p.app) /\ ~Named(r.applications, p.app)
            /\ NamesContain(r.users, s.users)
                 \/ \E p \in Packets : Named(s.users, p.user) /\ ~Named(r.users, p.user)

\* A rule reported as dead really never decides: every packet it matches is
\* decided above it, where the finding says so.  The remedy on offer is to
\* delete the rule.  (Rules with a side nobody could read are left out: the
\* part of theirs that is not in the comparison may still be live.)
DeadRulesAreDead ==
    Readable(rules) =>
        \A x \in Analyse(rules).shown :
            (x.rel.kind \in {"shadowed", "redundant"} /\ x.rel.cause < x.rel.subject) =>
                \A p \in Packets : Hits(rules[x.rel.subject], p) =>
                    Terminates(rules[x.rel.cause]) /\ Hits(rules[x.rel.cause], p)

\* Every rule that one rule above it covers is reported as dead, in spite of
\* the filters that reject pairs early and of the scan that stops early.
EveryDeadRuleIsReported ==
    LET result == Analyse(rules)
    IN  (Readable(rules) /\ ~result.truncated) =>
        \A i, j \in Active(rules) :
            (/\ i < j /\ Terminates(rules[i])
             /\ \E p \in Arriving : Hits(rules[j], p)
             /\ \A p \in Arriving : Hits(rules[j], p) => Hits(rules[i], p)) =>
                \E x \in result.shown : x.rel.kind \in {"shadowed", "redundant"} /\ x.rel.subject = j

\* Taking a redundant rule away changes no verdict, unless the report itself
\* shows why: the rule shadows one (named on the finding), or a rule with
\* another action between it and its cause overlaps it and is reported.
RemovalIsExplained ==
    LET result == Analyse(rules)
        Without(k) == Active(rules) \ {k}
    IN  (Readable(rules) /\ ~result.truncated) =>
        \A x \in result.shown : x.rel.kind = "redundant" =>
            \/ \A p \in Arriving : Verdict(rules, Active(rules), p) = Verdict(rules, Without(x.rel.subject), p)
            \/ \E y \in x.shadows : y < x.rel.cause
            \/ \E y \in result.shown :
                  /\ y.rel.kind \in {"correlated", "generalisation"}
                  /\ x.rel.subject \in {y.rel.subject, y.rel.cause}
                  /\ {y.rel.subject, y.rel.cause} \cap (x.rel.subject + 1 .. x.rel.cause - 1) # {}

\* An answer to the rule query that is not marked undecidable is the device's
\* own, whatever the names that could not be read stand for; a rule that only
\* monitors is the exception, since the query takes it for a decision.
DecidedAnswersHold ==
    rules # <<>> => \A p \in Packets :
        LET answer == FirstMatch(rules, p)
        IN  (answer.undecidable = {} /\ (answer.matched = NoRule \/ Terminates(answer.matched))) =>
                \A world \in Expand(rules, V4, {<<p.protocol, p.port>>}) :
                    LET real == Decides(world, p)
                    IN  IF answer.matched = NoRule THEN real = NoRule
                        ELSE real # NoRule /\ real.action = answer.matched.action

\* The ranges a boundary is asked about.
RangesOf(p) == {[srcs |-> s, dsts |-> V4, src_zone |-> p.src_zone, dst_zone |-> p.dst_zone,
                 protocol |-> p.protocol, port |-> p.port] : s \in (SUBSET V4) \ {{}}}

\* A uniform verdict over a range is true of every packet in it: the rulebase
\* does not deny one host of a range reported as allowed.
UniformVerdictsHold ==
    (rules # <<>> /\ \A i \in DOMAIN rules : Terminates(rules[i])) =>
    \A p \in Packets : \A q \in RangesOf(p) :
        LET answer == FirstMatchOverRange(rules, q)
        IN  (answer.undecidable = {} /\ answer.outcome # "mixed") =>
            \A world \in Expand(rules, V4, {<<p.protocol, p.port>>}) : \A s \in q.srcs, d \in q.dsts :
                LET real == Decides(world, [p EXCEPT !.src = s, !.dst = d])
                IN  CASE answer.outcome = "allowed" -> real # NoRule /\ Permits(real)
                      [] answer.outcome = "blocked" -> real # NoRule /\ ~Permits(real)
                      [] OTHER -> real = NoRule
\* What a review of a rulebase deletes: the rules reported dead are the dead
\* ones, and a removal that would change a verdict is marked as such.
DeadRulesAreExact == DeadRulesAreDead /\ EveryDeadRuleIsReported /\ RemovalIsExplained

\* What the rule query says of a packet or a range, the device does.
AnswersHold == DecidedAnswersHold /\ UniformVerdictsHold
=============================================================================
