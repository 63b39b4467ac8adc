----------------------------- MODULE RuleReview -----------------------------
(***************************************************************************)
(* What a review says of the rules of one device, one by one (pairs of     *)
(* them are in RuleAnalysis), and the rows that are kept of it.            *)
(***************************************************************************)
EXTENDS RuleAnalysis
-----------------------------------------------------------------------------
(* What a review says of single rules, publications and objects           *)
(* (firewall/policy.py, nat.py, the unused objects of hygiene.py, the     *)
(* resolver of model.py), against the device whose configuration was      *)
(* collected.  A rule is written here with everything the device knows of *)
(* it; `lost` names the facts its collection did not capture and `unread` *)
(* the objects without a readable value.                                  *)

CONSTANTS
    Net4, Net6,         \* the addresses of each family
    Holds,              \* address objects: name to addresses
    Members,            \* address groups: name to the names in it
    MaxDepth,           \* levels of groups expanded (MAX_GROUP_DEPTH)
    RuleForms,          \* the rules that may be written
    Blocks,             \* the rest of a block: a forwarding table with what the
                        \* collection lost of it, a NAT rule, the unread objects,
                        \* the zones that are said, or guessed, to face untrusted
                        \* networks, and whether the platform's comments are read
    Insecure,           \* <<protocol, port>> nobody should publish
    MaxAddresses,       \* thresholds of a broad side, and of a broad service
    MaxPorts,
    NoPort,             \* a publication that keeps the port
    Cut,                \* an object, prefix or value that cannot be read
    Arrivals,           \* the packets the device may see
    MaxForms            \* bound: rules of a reviewed rulebase

VARIABLE reviewed       \* the block under review

All == Net4 \cup Net6
IsEvery(s) == Net4 \subseteq s \/ Net6 \subseteq s
AnyService(services) == \E s \in services : s[1] = AnyProtocol
Name == DOMAIN Holds \cup DOMAIN Members

\* What may be written, collected and published.
ASSUME ReviewAssumption ==
    /\ Holds \in [DOMAIN Holds -> SUBSET All] /\ Members \in [DOMAIN Members -> SUBSET Name]
    /\ IsFiniteSet(Net4) /\ MaxDepth \in Nat /\ MaxAddresses \in Nat
    /\ (\A s \in SUBSET All : s # Cut) /\ Cut # FALSE /\ Cut \notin {"none", "old"}
    /\ \A r \in RuleForms : /\ r.src \in Seq(Name \cup {"any"}) /\ r.dst \in Seq(Name \cup {"any"})
                            /\ "comment" \notin r.lost
    /\ \A b \in Blocks : b.table.routes \in Seq(SUBSET All) /\ NoZone \notin b.outside
-----------------------------------------------------------------------------
\* A group with members, none of them readable, is as unreadable as they are.
OfGroup(read, g) ==
    LET parts == {read[m] : m \in Members[g]} \ {Cut}
    IN  IF parts = {} /\ Members[g] # {} THEN Cut ELSE UNION parts

Deeper(read, unread) ==
    [n \in Name |-> CASE n \in DOMAIN Holds /\ n \in unread -> Cut
                      [] n \in DOMAIN Holds /\ n \notin unread -> Holds[n]
                      [] OTHER -> OfGroup(read, n)]

\* What each name stands for.  The memo of the resolver changes nothing here:
\* it differs for names that are cut off by MaxDepth only.
Reading(unread) ==
    LET Read[depth \in 0 .. MaxDepth + 1] ==
            IF depth = 0 THEN [n \in Name |-> Cut] ELSE Deeper(Read[depth - 1], unread)
    IN  Read[MaxDepth + 1]

\* A list of names: the first that stands for everything ends it.
Ends(n, read) == n = "any" \/ (read[n] # Cut /\ IsEvery(read[n]))

Consulted(list, read) == {list[i] : i \in {i \in DOMAIN list : \A j \in DOMAIN list : j < i => ~Ends(list[j], read)}}

Expanded(list, read) ==
    LET consulted == Consulted(list, read)
        readable == {n \in consulted \ {"any"} : read[n] # Cut}
    IN  [set |-> IF \E n \in consulted : Ends(n, read) THEN All ELSE UNION {read[n] : n \in readable},
         missing |-> consulted \ {"any"} # readable]

\* A rule as the review sees it.  Profiles nobody captured read as none.
Resolved(rule, lost, unread) ==
    LET src == Expanded(rule.src, Reading(unread))
        dst == Expanded(rule.dst, Reading(unread))
        Side(side, s) == IF side \in rule.negate THEN All \ s ELSE s
        Fact(name, value) == IF name \in lost THEN Cut ELSE value
        missing == [src |-> src.missing, dst |-> dst.missing, svc |-> "svc" \in lost]
    IN  [enabled |-> rule.enabled, action |-> rule.action,
         documented |-> "comment" \notin lost /\ rule.documented,
         applications |-> IF "applications" \in lost THEN {} ELSE rule.applications,
         src_zones |-> rule.src_zones, dst_zones |-> rule.dst_zones,
         source |-> Side("src", src.set), destination |-> Side("dst", dst.set),
         services |-> IF "svc" \in lost THEN {} ELSE rule.written,
         unresolved |-> {s \in Sides : missing[s]},
         logs |-> Fact("logs", rule.logs), hits |-> Fact("hits", rule.hits),
         profiles |-> IF "profiles" \in lost THEN "none" ELSE rule.profiles]

\* The names a list makes the resolver look at.
LookedUp(list, read) ==
    LET Reach[depth \in 0 .. MaxDepth] ==
            IF depth = 0 THEN Consulted(list, read) \ {"any"}
            ELSE Reach[depth - 1] \cup UNION {Members[g] : g \in Reach[depth - 1] \cap DOMAIN Members}
    IN  Reach[MaxDepth]

UnusedObjects(rulebase, unread) ==
    LET read == Reading(unread)
    IN  Name \ UNION {LookedUp(rulebase[i].src, read) \cup LookedUp(rulebase[i].dst, read) : i \in DOMAIN rulebase}
-----------------------------------------------------------------------------
\* The prefixes collected of a table.
Collected(table) ==
    CASE table.lost = "all" -> <<>>
      [] table.lost = "tail" -> Front(table.routes)
      [] table.lost = "value" -> [table.routes EXCEPT ![1] = Cut]
      [] OTHER -> table.routes

\* Mutant: a table that was cut is judged on.
RoutedSpace_Truncated(table) ==
    LET seen == ToSet(Collected(table))
        v4 == {p \in seen \ {Cut} : p \cap Net4 # {}}
    IN  IF Cut \in seen \/ v4 = {} \/ \E p \in v4 : Net4 \subseteq p THEN Cut ELSE Net4 \cap UNION v4

\* What the device has a route to, or Cut where that cannot be judged on: a
\* table that is cut, missing or partly read, or one with a default route.
RoutedSpace(table) ==
    LET seen == ToSet(Collected(table))
        v4 == {p \in seen \ {Cut} : p \cap Net4 # {}}
    IN  IF table.lost = "tail" \/ Cut \in seen \/ v4 = {} \/ \E p \in v4 : Net4 \subseteq p THEN Cut
        ELSE Net4 \cap UNION v4

\* The findings on one rule.  A comment is missed only where the parser of the
\* platform reads comments.
Findings(rule, routed, comments) ==
    LET dst4 == rule.destination \cap Net4
        wide == [source |-> IsEvery(rule.source), destination |-> IsEvery(rule.destination),
                 services |-> AnyService(rule.services)]
        everything == wide.source /\ wide.destination /\ wide.services
        If(condition, issue) == IF condition THEN {issue} ELSE {}
        OfAnyRule ==
            If(rule.unresolved # {}, "unresolved_objects") \cup If(comments /\ ~rule.documented, "no_documentation")
            \cup If(/\ routed # Cut /\ ~wide.destination /\ "dst" \notin rule.unresolved
                    /\ dst4 # {} /\ dst4 \cap routed = {}, "unroutable_destination")
        OfPermit ==
            If(wide.source \/ Cardinality(rule.source \cap Net4) > MaxAddresses, "broad_source")
            \cup If(wide.destination \/ Cardinality(dst4) > MaxAddresses, "broad_destination")
            \cup If(wide.services \/ Cardinality(rule.services) > MaxPorts, "broad_service")
            \cup If(rule.logs = FALSE, "no_logging")
            \cup If(rule.profiles = "none", "no_profiles")
            \cup If(rule.profiles = "blind", "inspection_not_decrypted")
            \cup If("any" \in rule.applications, "no_application_identity")
            \cup If(~wide.services /\ rule.services \cap Insecure # {}, "insecure_service")
            \cup If(rule.hits = "none", "never_hit") \cup If(rule.hits = "old", "no_recent_hits")
    IN  IF ~rule.enabled THEN {"disabled"}
        ELSE OfAnyRule \cup (IF ~Permits(rule) THEN {} ELSE IF everything THEN {"any_any_any"} ELSE OfPermit)
-----------------------------------------------------------------------------
\* The addresses a publication translates to, or Cut.
Target(nat, unread) ==
    LET read == Reading(unread)[nat.to]
    IN  IF read = Cut \/ read \cap Net4 = {} THEN Cut ELSE read \cap Net4

ReachesTarget(rule, addresses, nat) ==
    /\ rule.destination \cap addresses # {}
    /\ nat.port = NoPort \/ AnyService(rule.services) \/ \E s \in rule.services : s[2] = nat.port

ExposedInsecure(rule, nat) ==
    {s \in Insecure : nat.port \in {NoPort, s[2]} /\ (AnyService(rule.services) \/ s \in rule.services)}

\* The findings on one publication, each with the rule that completes it.  Nothing is
\* said of its exposure where no zone is known to be an outside one.
NatFindings(rulebase, nat, unread, outside) ==
    LET addresses == Target(nat, unread)
        matching == {i \in DOMAIN rulebase :
                        rulebase[i].enabled /\ Permits(rulebase[i]) /\ ReachesTarget(rulebase[i], addresses, nat)}
        from_outside == {i \in matching : rulebase[i].src_zones \cap outside # {}}
        Of(i) == {IF ExposedInsecure(rulebase[i], nat) # {} THEN "exposed_insecure_service" ELSE "exposed_service"}
                 \cup (IF rulebase[i].logs = FALSE THEN {"exposed_without_logging"} ELSE {})
                 \cup (IF rulebase[i].profiles = "none" THEN {"exposed_without_inspection"} ELSE {})
    IN  CASE nat.direction # "destination" -> {}
          [] nat.direction = "destination" /\ addresses = Cut -> {<<"nat_without_translation", 0>>}
          [] nat.direction = "destination" /\ addresses # Cut /\ matching = {} -> {<<"unmatched_nat", 0>>}
          [] nat.direction = "destination" /\ addresses # Cut /\ matching # {} /\ outside # {} /\ from_outside = {} ->
                {<<"not_from_outside", 0>>}
          [] OTHER -> UNION {Of(i) \X {i} : i \in from_outside}
-----------------------------------------------------------------------------
ReviewInit ==
    \E b \in Blocks : reviewed = [rules |-> <<>>, unread |-> b.unread, table |-> b.table, nat |-> b.nat,
                                outside |-> b.outside, comments |-> b.comments]

WriteRule ==
    /\ Len(reviewed.rules) < MaxForms
    /\ \E r \in RuleForms : reviewed' = [reviewed EXCEPT !.rules = Append(@, r)]

ReviewNext == WriteRule

ReviewSpec == ReviewInit /\ [][ReviewNext]_reviewed
-----------------------------------------------------------------------------
\* What did not come through of a rule, a platform's unread comments included.
LostOf(rule) == rule.lost \cup (IF reviewed.comments THEN {} ELSE {"comment"})

Seen == [i \in DOMAIN reviewed.rules |-> Resolved(reviewed.rules[i], LostOf(reviewed.rules[i]), reviewed.unread)]

\* The device reads its own objects and knows every fact of its rules.
Actual == [i \in DOMAIN reviewed.rules |-> Resolved(reviewed.rules[i], {}, {})]

\* Names of a list that did not come through, on their own or within a group.
PartlyRead(list) ==
    LookedUp(list, Reading({})) \cap reviewed.unread # {}

\* "Unknown is not a violation": a finding is true of the device, whatever the
\* collection lost.  (Every address of a family is as broad as a review calls
\* broad, and a negated IPv4 side has every IPv6 address.)  Excepted is what the
\* review does say wrongly where a member of a name was not read: a negated side
\* is too broad, and a destination unroutable.  Unroutable is judged by the IPv4
\* part alone, and profiles nobody captured read as none.
RuleFindingsAreTrue ==
    \A i \in DOMAIN Seen :
        LET rule == Actual[i]
            written == reviewed.rules[i]
            found == Findings(Seen[i], RoutedSpace(reviewed.table), reviewed.comments)
            Broad(addresses) == IsEvery(addresses) \/ Cardinality(addresses \cap Net4) > MaxAddresses
            routes == UNION ToSet(reviewed.table.routes)
        IN  /\ found \cap {"any_any_any", "broad_source"} # {} =>
                 Broad(rule.source) \/ ("src" \in written.negate /\ PartlyRead(written.src))
            /\ found \cap {"any_any_any", "broad_destination"} # {} =>
                 Broad(rule.destination) \/ ("dst" \in written.negate /\ PartlyRead(written.dst))
            /\ "unroutable_destination" \in found =>
                 PartlyRead(written.dst) \/ rule.destination \cap routes \cap Net4 = {}
            /\ "no_logging" \in found => ~rule.logs
            /\ "no_profiles" \in found => rule.profiles = "none" \/ "profiles" \in written.lost
            /\ "never_hit" \in found => rule.hits = "none"
            /\ "no_recent_hits" \in found => rule.hits = "old"
            /\ "insecure_service" \in found => rule.services \cap Insecure # {}
            /\ "no_documentation" \in found => ~rule.documented
            /\ "no_application_identity" \in found => "any" \in rule.applications

ToTarget(p, nat) ==
    p.dst \in Target(nat, {}) /\ nat.port \in {NoPort, p.port}

Permitted(p) == LET r == Decides(Actual, p) IN r # NoRule /\ Permits(r)

\* What is said of a publication is so when everything was read: nothing reaches
\* one that is unmatched, nothing from outside one that is matched from inside
\* only, and each rule that lets the outside in is named, as insecure or
\* unlogged where it is.  A rule without zones is in every zone and yet never
\* counts as open to the outside; so it is left out.
NatFindingsAreTrue ==
    LET nat == reviewed.nat
        found == NatFindings(Seen, nat, reviewed.unread, reviewed.outside)
        zoned == \A i \in DOMAIN Seen : Seen[i].src_zones # {}
    IN  (/\ nat.direction = "destination" /\ Target(nat, {}) # Cut /\ reviewed.unread = {}
         /\ \A i \in DOMAIN Seen : Seen[i].unresolved = {}) =>
        \A p \in {p \in Arrivals : ToTarget(p, nat) /\ Permitted(p)} :
            /\ <<"unmatched_nat", 0>> \notin found
            /\ zoned /\ p.src_zone \in reviewed.outside =>
                 \E i \in DOMAIN Seen :
                    /\ Actual[i] = Decides(Actual, p)
                    /\ \/ <<"exposed_insecure_service", i>> \in found
                       \/ <<"exposed_service", i>> \in found /\ <<p.protocol, p.port>> \notin Insecure
                    /\ Seen[i].logs = FALSE => <<"exposed_without_logging", i>> \in found

\* An object reported as unused may be deleted: no rule reads otherwise.
UnusedMayGo ==
    \A n \in UnusedObjects(reviewed.rules, reviewed.unread) \cap DOMAIN Holds : \A i \in DOMAIN Seen :
        LET written == reviewed.rules[i]
        IN  Resolved(written, LostOf(written), reviewed.unread \cup {n}) = Seen[i]

\* What the review sends people to change is so on the device.
ReviewIsTrue == RuleFindingsAreTrue /\ NatFindingsAreTrue /\ UnusedMayGo
-----------------------------------------------------------------------------
(* The stored findings of one device's rulebase (services/                *)
(* firewall_assessment.py): every analysis derives the problems again,    *)
(* keeps a number of each kind, opens and reopens their rows and closes   *)
(* the rows of what it did not derive.  Problems are told apart by kind   *)
(* and rule name; two rules of one name share a row.                      *)

CONSTANTS
    ProblemKind, RuleName,
    MaxPerKind,         \* rows written for one kind (MAX_FINDINGS_PER_KIND)
    MaxProblems,        \* bound: problems of a rulebase
    MaxChanges          \* bound: edits of the rulebase and decisions about rows

ASSUME RowAssumption == "truncated" \notin ProblemKind /\ MaxPerKind \in Nat

VARIABLES
    problems,           \* what is wrong with the rulebase, in evaluation order
    carried,            \* whether the newest configuration has a rulebase
    assessed,           \* the problems of the last analysis
    row,                \* status of the row of each fingerprint
    changes

rowVars == <<problems, carried, assessed, row, changes>>

Problem == ProblemKind \X RuleName
Summary == {"truncated"} \X ProblemKind
Open == {"new", "open", "reopened"}

OfKind(found, k) == {i \in DOMAIN found : found[i][1] = k}

\* The fingerprints of an analysis: the first of each kind, and a summary of
\* every kind that has more.
Collect(found) ==
    LET Taken(i) == Cardinality({j \in OfKind(found, found[i][1]) : j < i}) < MaxPerKind
    IN  {found[i] : i \in {i \in DOMAIN found : Taken(i)}}
        \cup {<<"truncated", k>> : k \in {k \in ProblemKind : Cardinality(OfKind(found, k)) > MaxPerKind}}
-----------------------------------------------------------------------------
RowInit ==
    /\ problems = <<>> /\ carried = TRUE /\ assessed = <<>> /\ changes = 0
    /\ row = [f \in Problem \cup Summary |-> "none"]

Change == changes < MaxChanges /\ changes' = changes + 1

Introduce ==
    /\ Change /\ Len(problems) < MaxProblems
    /\ \E p \in Problem, i \in 1 .. Len(problems) + 1 : problems' = InsertAt(problems, i, p)
    /\ UNCHANGED <<carried, assessed, row>>

Mend ==
    /\ Change /\ \E i \in DOMAIN problems : problems' = RemoveAt(problems, i)
    /\ UNCHANGED <<carried, assessed, row>>

\* The collection or its parse brings no rulebase, or brings it again.
LoseRulebase ==
    /\ Change /\ carried' = ~carried
    /\ UNCHANGED <<problems, assessed, row>>

\* Nothing is opened or closed on a snapshot without a rulebase.
Assess ==
    /\ carried
    /\ LET seen == Collect(problems)
           After(f) == CASE f \in seen -> IF row[f] = "none" THEN "new"
                                          ELSE IF row[f] \in Open THEN row[f] ELSE "reopened"
                         [] OTHER -> IF row[f] \in Open THEN "resolved" ELSE row[f]
       IN  row' = [f \in DOMAIN row |-> After(f)]
    /\ assessed' = problems
    /\ UNCHANGED <<problems, carried, changes>>

TriageRow ==
    /\ Change
    /\ \E f \in DOMAIN row, s \in {"open", "risk_accepted", "false_positive"} :
        row[f] \notin {"none", s} /\ row' = [row EXCEPT ![f] = s]
    /\ UNCHANGED <<problems, carried, assessed>>

RowNext == Introduce \/ Mend \/ LoseRulebase \/ Assess \/ TriageRow

RowSpec == RowInit /\ [][RowNext]_rowVars
-----------------------------------------------------------------------------
Crowded(k) == Cardinality(OfKind(assessed, k)) > MaxPerKind
Known(f) == row[f] \notin {"none", "resolved"}

\* "A shadowing that is not reported this time genuinely no longer exists": a
\* problem of the last analysis has a row that is not closed, whatever stands
\* above it in the rulebase and however many the other kinds have.  Only within
\* a kind that has more than the cap is the row of a live problem closed, and
\* then the summary of that kind stands for it.
ProblemsAreRecorded ==
    \A i \in DOMAIN assessed :
        Known(assessed[i]) \/ (Crowded(assessed[i][1]) /\ Known(<<"truncated", assessed[i][1]>>))

\* A row that the system keeps open stands for a problem of the last analysis,
\* unless a person opened it.
OpenRowsHaveProblems ==
    \A f \in Problem : row[f] \in {"new", "reopened"} => f \in ToSet(assessed)

RowsFollowTheRulebase == ProblemsAreRecorded /\ OpenRowsHaveProblems

\* What is found of pairs of rules, and of single rules, publications and objects,
\* is true of the device, and the stored rows follow it.
RuleFindingsHold == DeadRulesAreExact /\ ReviewIsTrue /\ RowsFollowTheRulebase
=============================================================================
