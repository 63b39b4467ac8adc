------------------------------- MODULE Policies -------------------------------
(***************************************************************************)
(* Which checks judge a device: policies of checks, the groups they are    *)
(* assigned to, the default for devices no assignment covers, checks that  *)
(* operators author beside a library that upgrades replace, and exceptions *)
(* by device, by group or for all.  Every request is one transaction; only *)
(* making a policy the default reads what it will write in statements of   *)
(* its own, so only that is taken apart.                                   *)
(***************************************************************************)
EXTENDS Naturals, FiniteSets, SequencesExt

CONSTANTS
    Request,            \* requests that make a policy the default
    Policy, Unit, Team, \* policies, devices and groups of devices
    Rule,               \* ids of checks, shipped or authored
    Optional,           \* checks that are off unless a policy names them
    NoPolicy,
    MaxSteps,           \* bound: requests other than assessments
    MaxAssessments      \* bound

ASSUME PolicyAssumption == NoPolicy \notin Policy \cup Unit \cup Team /\ Unit \cap Team = {}

VARIABLES
    listed,            \* checks a policy lists, on or off; NoPolicy before it is created
    isDefault,          \* policies marked as the default
    assigned,           \* pairs of policy and group, oldest first
    teams,              \* groups a device is in
    shipped, custom,    \* checks of the library; checks that operators stored
    exceptions,         \* exceptions in force
    switch,             \* progress of each request for the default
    overlapped,         \* the last one to write was not alone
    open,               \* checks with an active finding, per device
    steps, assessments

policyVars == <<listed, isDefault, assigned, teams, shipped, custom, exceptions, switch, overlapped, open,
                steps, assessments>>

NoSwitch == [at |-> "rest", policy |-> NoPolicy, was |-> FALSE, others |-> {}, alone |-> TRUE]

PolicyInit ==
    /\ listed = [p \in Policy |-> NoPolicy] /\ isDefault = {} /\ assigned = <<>>
    /\ teams = [u \in Unit |-> {}] /\ shipped = Rule /\ custom = {} /\ exceptions = {}
    /\ switch = [q \in Request |-> NoSwitch] /\ overlapped = FALSE
    /\ open = [u \in Unit |-> {}] /\ steps = 0 /\ assessments = 0

Exists(p) == listed[p] # NoPolicy
Known == shipped \cup custom
Step == steps < MaxSteps /\ steps' = steps + 1
-----------------------------------------------------------------------------
\* Who writes policies.  None of this ends: there is no request that deletes a
\* policy, an assignment or an authored check.
CreatePolicy(p, rules) ==
    /\ Step /\ ~Exists(p) /\ rules \subseteq Known
    /\ listed' = [listed EXCEPT ![p] = [r \in rules |-> "on"]]
    /\ UNCHANGED <<isDefault, assigned, teams, shipped, custom, exceptions, switch, overlapped, open, assessments>>

SetCheck(p, r, mode) ==
    /\ Step /\ Exists(p) /\ (r \in DOMAIN listed[p] \/ r \in Known)
    /\ listed' = [listed EXCEPT ![p] = [x \in DOMAIN @ \cup {r} |-> IF x = r THEN mode ELSE @[x]]]
    /\ UNCHANGED <<isDefault, assigned, teams, shipped, custom, exceptions, switch, overlapped, open, assessments>>

\* An assignment made again is the one there is, with its time.
Assign(p, t) ==
    /\ Step /\ Exists(p) /\ ~Contains(assigned, <<p, t>>)
    /\ assigned' = Append(assigned, <<p, t>>)
    /\ UNCHANGED <<listed, isDefault, teams, shipped, custom, exceptions, switch, overlapped, open, assessments>>

SetGroups(u, groups) ==
    /\ Step /\ teams[u] # groups /\ teams' = [teams EXCEPT ![u] = groups]
    /\ UNCHANGED <<listed, isDefault, assigned, shipped, custom, exceptions, switch, overlapped, open, assessments>>

AuthorCheck(r) ==
    /\ Step /\ r \notin Known /\ custom' = custom \cup {r}
    /\ UNCHANGED <<listed, isDefault, assigned, teams, shipped, exceptions, switch, overlapped, open, assessments>>

\* A release of the product brings another library.
Upgrade(library) ==
    /\ Step /\ library # shipped /\ shipped' = library
    /\ UNCHANGED <<listed, isDefault, assigned, teams, custom, exceptions, switch, overlapped, open, assessments>>

\* `for` is a device, a group, or NoPolicy for everything.
GrantException(r, scope, for) ==
    /\ Step /\ r \in Known /\ exceptions' = exceptions \cup {[rule |-> r, scope |-> scope, for |-> for]}
    /\ UNCHANGED <<listed, isDefault, assigned, teams, shipped, custom, switch, overlapped, open, assessments>>

\* Revoked, or its date has passed.
EndGrant(x) ==
    /\ Step /\ x \in exceptions /\ exceptions' = exceptions \ {x}
    /\ UNCHANGED <<listed, isDefault, assigned, teams, shipped, custom, switch, overlapped, open, assessments>>
-----------------------------------------------------------------------------
Switching(q) == switch[q].at # "rest"

\* The policy is read, then the others that are marked ...
GetPolicy(q, p) ==
    /\ Step /\ ~Switching(q) /\ Exists(p)
    /\ switch' = [o \in Request |->
          IF o # q THEN IF Switching(o) THEN [switch[o] EXCEPT !.alone = FALSE] ELSE NoSwitch
          ELSE [at |-> "got", policy |-> p, was |-> p \in isDefault, others |-> {}, alone |-> \A x \in Request : ~Switching(x)]]
    /\ UNCHANGED <<listed, isDefault, assigned, teams, shipped, custom, exceptions, overlapped, open, assessments>>

ReadDefaults(q) ==
    /\ switch[q].at = "got"
    /\ switch' = [switch EXCEPT ![q].at = "read", ![q].others = isDefault \ {switch[q].policy}]
    /\ UNCHANGED <<listed, isDefault, assigned, teams, shipped, custom, exceptions, overlapped, open, steps, assessments>>

\* ... and what was read is written: a row that already read as the default is
\* not, whatever has become of it.
Switch(q) ==
    /\ switch[q].at = "read"
    /\ isDefault' = (isDefault \ switch[q].others) \cup (IF switch[q].was THEN {} ELSE {switch[q].policy})
    /\ switch' = [switch EXCEPT ![q] = NoSwitch] /\ overlapped' = ~switch[q].alone
    /\ UNCHANGED <<listed, assigned, teams, shipped, custom, exceptions, open, steps, assessments>>
-----------------------------------------------------------------------------
\* policy_for_device: of the policies assigned to its groups the one assigned
\* last, or the default, or none.
Assigned(u) == {i \in DOMAIN assigned : assigned[i][2] \in teams[u]}

PolicyOf(u) ==
    IF Assigned(u) # {} THEN assigned[Max(Assigned(u))][1]
    ELSE IF isDefault # {} THEN CHOOSE p \in isDefault : TRUE ELSE NoPolicy

\* Two defaults make the query raise, and the device's assessment with it.
Answerable(u) == Assigned(u) # {} \/ Cardinality(isDefault) <= 1

\* checks_for_policy: what it lists, is on and still exists.
Selected(p) ==
    IF p = NoPolicy THEN Known \ Optional
    ELSE {r \in DOMAIN listed[p] : listed[p][r] = "on"} \cap Known

\* Mutant: the exceptions of groups hold for every device.
InForce_AnyGroup(u) ==
    {x.rule : x \in {x \in exceptions : x.scope = "device" => x.for = u}}

\* active_exceptions
InForce(u) ==
    {x.rule : x \in {x \in exceptions : /\ x.scope = "device" => x.for = u
                                        /\ x.scope = "group" => x.for \in teams[u]}}

\* An assessment: `fails` and `passes` are what the device says.
Judge(u, fails, passes) ==
    /\ assessments < MaxAssessments /\ Answerable(u)
    /\ LET run == Selected(PolicyOf(u))
       IN open' = [open EXCEPT ![u] = (@ \ (run \cap passes)) \cup ((run \cap fails) \ InForce(u))]
    /\ assessments' = assessments + 1
    /\ UNCHANGED <<listed, isDefault, assigned, teams, shipped, custom, exceptions, switch, overlapped, steps>>

PolicyNext ==
    \/ \E p \in Policy : \/ \E rules \in SUBSET Rule : CreatePolicy(p, rules)
                         \/ \E r \in Rule, mode \in {"on", "off"} : SetCheck(p, r, mode)
                         \/ \E t \in Team : Assign(p, t)
    \/ \E q \in Request : (\E p \in Policy : GetPolicy(q, p)) \/ ReadDefaults(q) \/ Switch(q)
    \/ \E u \in Unit : \/ \E groups \in SUBSET Team : SetGroups(u, groups)
                       \/ \E fails \in SUBSET Rule : \E passes \in SUBSET (Rule \ fails) : Judge(u, fails, passes)
    \/ \E r \in Rule : \/ AuthorCheck(r) \/ GrantException(r, "global", NoPolicy)
                       \/ \E u \in Unit : GrantException(r, "device", u)
                       \/ \E t \in Team : GrantException(r, "group", t)
    \/ \E library \in SUBSET Rule : Upgrade(library)
    \/ \E x \in exceptions : EndGrant(x)

PolicySpec == PolicyInit /\ [][PolicyNext]_policyVars
-----------------------------------------------------------------------------
\* Requests for the default that overlap may leave two (then no assessment of an
\* unassigned device ends) or none; one that nothing overlapped leaves its own
\* policy and no other, whatever it found, so until requests overlap again
\* every device can be judged.
OneDefault ==
    ~overlapped => Cardinality(isDefault) <= 1 /\ \A u \in Unit : Answerable(u)

DefaultIsMade == \A q \in Request : Switch(q) /\ switch[q].alone => isDefault' = {switch[q].policy}

\* A finding is opened or closed only by a check that a policy governing the
\* device has on at that moment, and opened only where no exception covers the
\* device: what is left out, off or gone from the library keeps what it had.  And
\* what every governing policy has on and nothing excuses does not fail unseen.
Governs(u, p) ==
    \/ \E t \in teams[u] : Contains(assigned, <<p, t>>)
    \/ p \in isDefault /\ \A t \in teams[u], o \in Policy : ~Contains(assigned, <<o, t>>)

MayBeJudged(u, r) ==
    /\ r \in Known
    /\ \/ \E p \in Policy : Governs(u, p) /\ r \in DOMAIN listed[p] /\ listed[p][r] = "on"
       \/ (\A p \in Policy : ~Governs(u, p)) /\ r \notin Optional

Excused(u, r) ==
    \/ \E x \in exceptions : x.rule = r /\ x.for = u
    \/ \E x \in exceptions : x.rule = r /\ x.for = NoPolicy
    \/ \E x \in exceptions, t \in teams[u] : x.rule = r /\ x.for = t

OnlyDecided ==
    \A u \in Unit, r \in Rule :
        /\ (r \in open[u]) # (r \in open'[u]) => MayBeJudged(u, r)
        /\ r \in open'[u] \ open[u] => ~Excused(u, r)

MustBeJudged(u, r) ==
    /\ MayBeJudged(u, r)
    /\ \A p \in Policy : Governs(u, p) => r \in DOMAIN listed[p] /\ listed[p][r] = "on"

NothingUnseen ==
    assessments' # assessments =>
      \A u \in Unit, fails \in SUBSET Rule :
        (\E passes \in SUBSET (Rule \ fails) : Judge(u, fails, passes))
        => \A r \in fails : MustBeJudged(u, r) /\ ~Excused(u, r) => r \in open'[u]

PolicyStep == OneDefault' /\ DefaultIsMade /\ OnlyDecided /\ NothingUnseen
=============================================================================
