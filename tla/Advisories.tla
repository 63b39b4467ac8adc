------------------------------ MODULE Advisories ------------------------------
(* Weighing one advisory against one device (vuln/matcher.py over         *)
(* vuln/versions.py).  A version is what `parse` makes of its text:       *)
(*   [scheme, release, train, rebuild]                                    *)
(* with NoTrain for the trunk, a letter of a rebuild being a number above *)
(* every number a vendor writes (mixed parts compare as text, and digits  *)
(* sort before letters), or Unreadable.                                   *)
EXTENDS Integers, SequencesExt

CONSTANTS
    Unreadable,     \* a version, bound or range nobody could parse
    NoTrain, NoBound, NoCpe, NoName, NotFound,
    Devices,        \* the devices considered
    Versions,       \* versions compared with each other
    Statements,     \* what an advisory may say of a product
    Conditions,     \* ... and the conditions it may add
    MaxStatements

\* A bound is a version or what nobody could parse of one, and comes with its operator;
\* of the devices nothing is assumed.
Bounds(spec) ==
    CASE spec.kind = "range" -> /\ (spec.from = NoBound) <=> (spec.from_op = "none")
                                /\ (spec.to = NoBound) <=> (spec.to_op = "none")
                                /\ spec.from_op \in {"none", ">", ">="} /\ spec.to_op \in {"none", "<", "<="}
      [] OTHER -> spec.kind \in {"all", "unparsed", "exact"}

ASSUME AdvisoryAssumption ==
    /\ \A v \in Versions : v.release \in Seq(Int) /\ v.rebuild \in Seq(Int)
    /\ \A e \in Statements : Bounds(e.spec) /\ e.source \in {"nvd", "csaf"}
    /\ \A c \in Conditions : c.expected # NotFound

VARIABLE advisory   \* [affected, conditions, unparsed]
-----------------------------------------------------------------------------
At(parts, i, absent) == IF i \in DOMAIN parts THEN parts[i] ELSE absent

\* The shorter of two is padded; the first difference decides.
CompareParts(left, right, absent) ==
    LET differ == {i \in DOMAIN left \cup DOMAIN right : At(left, i, absent) # At(right, i, absent)}
    IN  IF differ = {} THEN "equal"
        ELSE IF At(left, Min(differ), absent) < At(right, Min(differ), absent) THEN "less" ELSE "greater"

\* A release is padded with zeros; a rebuild that is absent sorts below one that is there.
CompareSequences(left, right) == CompareParts(left, right, 0)
CompareRebuilds(left, right) == CompareParts(left, right, -1)

Family(v) == SubSeq(v.release, 1, IF Len(v.release) < 2 THEN Len(v.release) ELSE 2)

\* Two trains of one IOS release family are branches that have no order.
Compare(left, right) ==
    IF \/ left.scheme # right.scheme
       \/ left.scheme = "ios" /\ left.train # right.train /\ Family(left) = Family(right)
    THEN "incomparable"
    ELSE IF CompareSequences(left.release, right.release) # "equal"
         THEN CompareSequences(left.release, right.release)
         ELSE CompareRebuilds(left.rebuild, right.rebuild)
-----------------------------------------------------------------------------
\* Mutant: the last affected release of a range is taken for the one with the fix.
NvdConstraint_Fixed(spec) ==
    IF spec.from_op = ">" THEN [kind |-> "unparsed"]
    ELSE [kind |-> "range", introduced |-> spec.from, fixed |-> spec.to, last_affected |-> NoBound]

\* NVD states four bounds: the exclusive lower one has no place in the model.
NvdConstraint(spec) ==
    IF spec.from_op = ">" THEN [kind |-> "unparsed"]
    ELSE [kind |-> "range", introduced |-> spec.from,
          fixed |-> IF spec.to_op = "<" THEN spec.to ELSE NoBound,
          last_affected |-> IF spec.to_op = "<=" THEN spec.to ELSE NoBound]

\* CSAF writes a range as text; of two sides, an inclusive upper one is dropped.
ParseVersionSpec(spec) ==
    IF \/ spec.from_op = ">"
       \/ spec.from = NoBound /\ spec.to_op = "<="
    THEN [kind |-> "unparsed"]
    ELSE [kind |-> "range", introduced |-> spec.from,
          fixed |-> IF spec.to_op = "<" THEN spec.to ELSE NoBound, last_affected |-> NoBound]

Constraint(e) == IF e.spec.kind # "range" THEN e.spec
                 ELSE IF e.source = "nvd" THEN NvdConstraint(e.spec) ELSE ParseVersionSpec(e.spec)
-----------------------------------------------------------------------------
Identifiable(entry) == entry.cpe # NoCpe \/ (entry.vendor # NoName /\ entry.product # NoName)

\* A device is two products, an operating system and a chassis.  Names decide
\* where one side has no identifier, and a name that is missing fits any.
NamesThisDevice(device, entry) ==
    \/ entry.cpe # NoCpe /\ entry.cpe = device.hardware
    \/ IF entry.cpe # NoCpe /\ device.software # NoCpe THEN entry.cpe = device.software
       ELSE /\ Identifiable(entry)
            /\ entry.vendor \in {NoName, device.vendor}
            /\ entry.product \in {NoName, device.platform}

OrderTo(version, bound) == IF bound = Unreadable THEN "incomparable" ELSE Compare(version, bound)

\* A bound settles the question, leaves it open, or lets the next one speak.
FirstOf(checks) ==
    LET settled == {i \in DOMAIN checks : checks[i] # "inside"}
    IN  IF settled = {} THEN "yes" ELSE checks[Min(settled)]
Bounded(version, bound, outside) ==
    IF bound = NoBound THEN "inside"
    ELSE IF OrderTo(version, bound) = "incomparable" THEN "unknown"
    ELSE IF OrderTo(version, bound) \in outside THEN "no" ELSE "inside"

VersionApplies(version, c) ==
    CASE c.kind = "unparsed" -> "unknown"
      [] c.kind = "all" -> "yes"
      [] c.kind = "exact" ->
             IF OrderTo(version, c.version) = "incomparable" THEN "unknown"
             ELSE IF OrderTo(version, c.version) = "equal" THEN "yes" ELSE "no"
      [] c.kind = "range" ->
             FirstOf(<<Bounded(version, c.introduced, {"less"}),
                       Bounded(version, c.fixed, {"greater", "equal"}),
                       Bounded(version, c.last_affected, {"greater"})>>)

\* Conditions narrow a version hit; what is unknown neither clears nor confirms.
ApplyConditions(device, conditions) ==
    IF \E c \in conditions : device.facts[c.path] \notin {NotFound, c.expected} THEN "not_affected"
    ELSE IF \E c \in conditions : device.facts[c.path] = NotFound THEN "likely" ELSE "confirmed"

FullyInterpreted(adv) ==
    ~adv.unparsed /\ \A e \in ToSet(adv.affected) : Constraint(e).kind # "unparsed"

\* One statement that hits rules a device in; all of them, understood, rule it out.
Match(device, adv) ==
    LET applicable == {e \in ToSet(adv.affected) : NamesThisDevice(device, e)}
        Verdict(e) == IF e.cpe # NoCpe /\ e.cpe = device.hardware THEN "yes"
                      ELSE VersionApplies(device.version, Constraint(e))
        verdicts == {Verdict(e) : e \in applicable}
    IN  IF device.version = Unreadable THEN "not_evaluated"
        ELSE IF "yes" \in verdicts THEN ApplyConditions(device, adv.conditions)
        ELSE IF "unknown" \in verdicts THEN "not_evaluated"
        ELSE IF FullyInterpreted(adv) THEN "not_affected" ELSE "not_evaluated"
-----------------------------------------------------------------------------
AdvisoryInit == advisory = [affected |-> <<>>, conditions |-> {}, unparsed |-> FALSE]

\* An advisory is any number of statements, conditions, and parts nobody could read.
AddStatement ==
    /\ Len(advisory.affected) < MaxStatements
    /\ \E e \in Statements : advisory' = [advisory EXCEPT !.affected = Append(@, e)]
AddCondition ==
    \E c \in Conditions \ advisory.conditions : advisory' = [advisory EXCEPT !.conditions = @ \cup {c}]
LeaveUnread ==
    /\ ~advisory.unparsed
    /\ advisory' = [advisory EXCEPT !.unparsed = TRUE]

AdvisoryNext == AddStatement \/ AddCondition \/ LeaveUnread

AdvisorySpec == AdvisoryInit /\ [][AdvisoryNext]_advisory
-----------------------------------------------------------------------------
\* The releases the publisher's own words may cover, and must cover, however
\* what is unknown turns out: each bound for itself.
Orders(v, bound, orders) == bound = NoBound \/ OrderTo(v, bound) \in orders
LowerOrders(spec) == IF spec.from_op = ">" THEN {"greater"} ELSE {"greater", "equal"}
UpperOrders(spec) == IF spec.to_op = "<" THEN {"less"} ELSE {"less", "equal"}
RangeCovers(v, spec, open) ==
    CASE spec.kind = "all" -> TRUE
      [] spec.kind = "unparsed" -> open # {}
      [] spec.kind = "exact" -> OrderTo(v, spec.version) \in {"equal"} \cup open
      [] spec.kind = "range" -> /\ Orders(v, spec.from, LowerOrders(spec) \cup open)
                                /\ Orders(v, spec.to, UpperOrders(spec) \cup open)
MayCover(v, spec) == RangeCovers(v, spec, {"incomparable"})
MustCover(v, spec) == RangeCovers(v, spec, {})

IsChassis(d, e) == e.cpe # NoCpe /\ e.cpe = d.hardware
MayApply(d, e) ==
    NamesThisDevice(d, e) /\ (IsChassis(d, e) \/ MayCover(d.version, e.spec))
MustApply(d, e) ==
    NamesThisDevice(d, e) /\ (IsChassis(d, e) \/ MustCover(d.version, e.spec))

\* A device is cleared only of an advisory that no reading of its unread parts,
\* of the releases that have no order and of the facts nobody established could
\* make apply to it: clearing is what closes a finding.  (That a statement which
\* names no product stands in the way of it too is more than the code does.)
ClearedIsClear ==
    \A d \in Devices :
        Match(d, advisory) = "not_affected" =>
            \/ ~advisory.unparsed /\ \A e \in ToSet(advisory.affected) : ~MayApply(d, e)
            \/ \E c \in advisory.conditions : d.facts[c.path] \notin {NotFound, c.expected}

\* A device is confirmed vulnerable only where every such reading agrees, and
\* likely only where a fact that is missing decides.  (CSAF reads
\* a range with an inclusive end as one without an end: it is let pass here.)
Widened(e) == e.source = "csaf" /\ e.spec.kind = "range" /\ e.spec.from # NoBound /\ e.spec.to_op = "<="
ConfirmedIsAffected ==
    \A d \in Devices :
        LET verdict == Match(d, advisory)
        IN  verdict \in {"confirmed", "likely"} =>
                /\ \E e \in ToSet(advisory.affected) : Widened(e) \/ MustApply(d, e)
                /\ (verdict = "confirmed") = (\A c \in advisory.conditions : d.facts[c.path] = c.expected)

\* Versions are compared alike from both sides, and no chain of "earlier than"
\* leads back: what has no order is never given one by way of a third release.
\* (It does not depend on the advisory, so one of them is enough.)
OrderIsConsistent ==
    (advisory.unparsed /\ advisory.affected = <<>>) => \A a, b \in Versions :
        /\ (Compare(a, b) = "less") = (Compare(b, a) = "greater")
        /\ Compare(a, b) = "less" =>
               \A c \in Versions : Compare(b, c) = "less" => Compare(a, c) \in {"less", "incomparable"}
\* A match says neither more nor less than the vendor's statements do, by an
\* order of versions that contradicts itself nowhere.
MatchesHold == ClearedIsClear /\ ConfirmedIsAffected /\ OrderIsConsistent
=============================================================================
