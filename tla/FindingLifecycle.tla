--------------------------- MODULE FindingLifecycle ---------------------------
(***************************************************************************)
(* The findings of one device: collections store its configuration as      *)
(* snapshots and look for drift, assessments judge a snapshot by checks,   *)
(* rulebase analysis, advisories and release cycles, people triage, grant  *)
(* and end exceptions and pin baselines.  Every run is a transaction, and  *)
(* runs overlap.                                                           *)
(*                                                                         *)
(* Verdict[c][k] is what configuration c says of finding k: "fail", "pass" *)
(* or "silent" (a check not evaluated, an analysis that raised, an         *)
(* advisory nothing could be said of, another cycle's end of life).        *)
(***************************************************************************)
EXTENDS Integers, SequencesExt

CONSTANTS
    Run,                \* transactions that run collections and assessments
    Config,             \* configurations the device may have
    CheckKey, VulnKey,  \* findings of checks and rulebase; of advisories and cycles
    Drift,              \* the finding of drift
    Verdict,
    MaxRuns,            \* bound: runs started
    MaxDecisions,       \* bound: steps of people and changes of the device
    NoOne, Lost         \* no transaction; one that was undone

ASSUME FindingAssumption ==
    /\ Verdict \in [Config -> [CheckKey \cup VulnKey -> {"fail", "pass", "silent"}]]
    /\ IsFiniteSet(CheckKey \cup VulnKey) /\ CheckKey \cap VulnKey = {} /\ Drift \notin CheckKey \cup VulnKey
    /\ NoOne \notin Run /\ Lost \notin Run /\ NoOne # Lost

VARIABLES
    config,             \* the device's running configuration
    snaps,              \* rows in the order of their creation
    baseline,           \* the pinned row, or 0
    finding,            \* committed status of each finding
    excepted,           \* checks under an exception in force
    runs,
    started, decisions

findingVars == <<config, snaps, baseline, finding, excepted, runs, started, decisions>>

Key == {Drift} \cup CheckKey \cup VulnKey
Active == {"new", "open", "reopened"}

\* What each kind of job does, in order.
Plan == [collect |-> <<"store", "drift">>, upload |-> <<"store", "drift">>,
         collect_and_assess |-> <<"store", "drift", "checks", "vulns">>,
         assess_only |-> <<"checks">>, vuln_rematch |-> <<"vulns">>]

Idle == [busy |-> FALSE, kind |-> "collect", plan |-> <<>>, conf |-> NoOne, row |-> 0, left |-> <<>>,
            seen |-> NoOne, wrote |-> [k \in Key |-> "untouched"], device |-> FALSE, audit |-> FALSE, alone |-> TRUE]

FindingInit ==
    /\ config \in Config /\ snaps = <<>> /\ baseline = 0 /\ started = 0 /\ decisions = 0
    /\ finding = [k \in Key |-> "none"] /\ excepted = {}
    /\ runs = [r \in Run |-> Idle]
-----------------------------------------------------------------------------
Underway(r) == runs[r].busy

\* Rows a transaction sees: the committed ones and its own.
Rows(r) == {i \in DOMAIN snaps : snaps[i].by \in {NoOne, r}}
Committed == {i \in DOMAIN snaps : snaps[i].by = NoOne}
Newest(rows) == Max(rows \cup {0})

LockedRow(i, r) == \E q \in Run \ {r} : Underway(q) /\ runs[q].row = i
LockedKey(k, r) == \E q \in Run \ {r} : runs[q].wrote[k] # "untouched"

\* The audit log's lock: a collection takes it with its first command and keeps
\* it to its end, so others that record what they did wait for that.
AuditFree(r) == \A q \in Run \ {r} : ~runs[q].audit

Disturbed(r) == IF Underway(r) THEN [runs[r] EXCEPT !.alone = FALSE] ELSE Idle

Contacts(kind) == kind \in {"collect", "collect_and_assess"}

\* A run begins: a collection reads the device, an upload brings any text.
Start(r) ==
    /\ ~Underway(r) /\ started < MaxRuns /\ started' = started + 1
    /\ \E kind \in DOMAIN Plan, c \in Config :
        /\ kind # "upload" => c = config
        /\ Contacts(kind) => AuditFree(r)
        /\ runs' = [q \in Run |->
             IF q # r THEN Disturbed(q)
             ELSE [Idle EXCEPT !.busy = TRUE, !.kind = kind, !.plan = Plan[kind], !.conf = c,
                                  !.audit = Contacts(kind), !.alone = \A p \in Run \ {r} : ~Underway(p)]]
    /\ UNCHANGED <<config, snaps, baseline, finding, excepted, decisions>>

Between(r, stage) == Underway(r) /\ runs[r].left = <<>> /\ runs[r].plan # <<>> /\ Head(runs[r].plan) = stage

\* Rows holding this configuration, by its hash.
SameConfig(r, c) == {i \in Rows(r) : snaps[i].conf = c}

\* record_facts: a device just contacted has its row stamped, which keeps
\* other collections of it out; an uploaded text's facts may be known already.
StampsDevice(r, writes) ==
    /\ runs[r].kind # "upload" => writes
    /\ writes => \A q \in Run \ {r} : ~runs[q].device

\* An unchanged configuration updates its row; two such rows make the query,
\* which expects at most one, raise (Undo is then the only step left).
StoreSnapshot(r) ==
    /\ Between(r, "store")
    /\ \E writes \in BOOLEAN :
        LET same == SameConfig(r, runs[r].conf) IN
        /\ StampsDevice(r, writes)
        /\ Cardinality(same) <= 1
        /\ \A i \in same : ~LockedRow(i, r)
        /\ snaps' = IF same = {} THEN Append(snaps, [conf |-> runs[r].conf, by |-> r]) ELSE snaps
        /\ runs' = [runs EXCEPT ![r].plan = Tail(@),
                                ![r].row = IF same = {} THEN Len(snaps') ELSE CHOOSE i \in same : TRUE,
                                ![r].device = writes]
    /\ UNCHANGED <<config, baseline, finding, excepted, started, decisions>>
-----------------------------------------------------------------------------
\* Drift is measured on the pinned row; without one there is none.
DriftSays(i) ==
    IF baseline \in {0, i} \/ snaps[baseline].conf = snaps[i].conf THEN "pass" ELSE "fail"

\* Mutant: what nothing was said of counts as gone.
Says_Gone(keys, row) == {[key |-> k, says |-> IF Verdict[snaps[row].conf][k] = "fail" THEN "fail" ELSE "pass"] : k \in keys}

Says(keys, row) == {[key |-> k, says |-> Verdict[snaps[row].conf][k]] : k \in keys}

\* The row the checks judge: the one just stored, or the newest.
Judged(r) == IF runs[r].row # 0 THEN runs[r].row ELSE Newest(Committed)

BeginDrift(r) ==
    /\ Between(r, "drift")
    /\ runs' = [runs EXCEPT ![r].plan = Tail(@),
                            ![r].left = <<[key |-> Drift, says |-> DriftSays(runs[r].row)]>>]
    /\ UNCHANGED <<config, snaps, baseline, finding, excepted, started, decisions>>

\* A failing check under an exception in force leaves its finding alone.
Suppressed(v) == v.says = "fail" /\ v.key \in excepted

BeginChecks(r) ==
    /\ Between(r, "checks") /\ Judged(r) # 0
    /\ runs' = [runs EXCEPT ![r].plan = Tail(@), ![r].left =
                   SetToSeq({v \in Says(CheckKey, Judged(r)) : v.says # "silent" /\ ~Suppressed(v)})]
    /\ UNCHANGED <<config, snaps, baseline, finding, excepted, started, decisions>>

\* assess_device looks up the newest row itself.
BeginVulns(r) ==
    /\ Between(r, "vulns") /\ Newest(Rows(r)) # 0
    /\ runs' = [runs EXCEPT ![r].plan = Tail(@), ![r].left =
                   SetToSeq({v \in Says(VulnKey, Newest(Rows(r))) : v.says # "silent"})]
    /\ UNCHANGED <<config, snaps, baseline, finding, excepted, started, decisions>>
-----------------------------------------------------------------------------
\* The finding is read ...
LookUp(r) ==
    /\ Underway(r) /\ runs[r].left # <<>> /\ runs[r].seen = NoOne
    /\ LET k == Head(runs[r].left).key
       IN runs' = [runs EXCEPT ![r].seen = finding[k]]
    /\ UNCHANGED <<config, snaps, baseline, finding, excepted, started, decisions>>

\* Mutant: a finding that comes back keeps the status it was closed with.
AfterVerdict_Forgotten(status, says) ==
    IF says = "fail" THEN IF status = "none" THEN "new" ELSE "kept"
    ELSE IF status \in Active THEN "resolved" ELSE "untouched"

\* ... and what the row gets: "kept" updates its evidence and not its status.
AfterVerdict(status, says) ==
    IF says = "fail" THEN IF status = "none" THEN "new" ELSE IF status \in Active THEN "kept" ELSE "reopened"
    ELSE IF status \in Active THEN "resolved" ELSE "untouched"

\* ... and written, once no other transaction holds its row.  A second insert
\* of one fingerprint fails (Undo).
WriteFinding(r) ==
    /\ Underway(r) /\ runs[r].seen # NoOne
    /\ LET v == Head(runs[r].left)
           status == AfterVerdict(runs[r].seen, v.says)
       IN /\ status # "untouched" => ~LockedKey(v.key, r)
          /\ ~(status = "new" /\ finding[v.key] # "none")
          /\ runs' = [runs EXCEPT ![r].left = Tail(@), ![r].seen = NoOne, ![r].wrote[v.key] = status]
    /\ UNCHANGED <<config, snaps, baseline, finding, excepted, started, decisions>>

CommitRun(r) ==
    /\ Underway(r) /\ runs[r].plan = <<>> /\ runs[r].left = <<>> /\ AuditFree(r)
    /\ finding' = [k \in Key |-> IF runs[r].wrote[k] \in {"untouched", "kept"} THEN finding[k] ELSE runs[r].wrote[k]]
    /\ snaps' = [i \in DOMAIN snaps |-> IF snaps[i].by = r THEN [snaps[i] EXCEPT !.by = NoOne] ELSE snaps[i]]
    /\ runs' = [runs EXCEPT ![r] = Idle]
    /\ UNCHANGED <<config, baseline, excepted, started, decisions>>

\* An error in the database or a crash; the rows it inserted stay invisible.
Undo(r) ==
    /\ Underway(r)
    /\ runs' = [runs EXCEPT ![r] = Idle]
    /\ snaps' = [i \in DOMAIN snaps |-> IF snaps[i].by = r THEN [conf |-> NoOne, by |-> Lost] ELSE snaps[i]]
    /\ UNCHANGED <<config, baseline, finding, excepted, started, decisions>>
-----------------------------------------------------------------------------
Decide == /\ decisions < MaxDecisions /\ decisions' = decisions + 1
          /\ runs' = [r \in Run |-> Disturbed(r)] /\ UNCHANGED started

Reconfigure ==
    /\ Decide /\ \E c \in Config \ {config} : config' = c
    /\ UNCHANGED <<snaps, baseline, finding, excepted>>

\* update_finding: any status but resolved, from any.
Triage ==
    /\ Decide
    /\ \E k \in Key, s \in {"open", "risk_accepted", "false_positive"} :
        /\ finding[k] \notin {"none", s} /\ ~LockedKey(k, NoOne)
        /\ finding' = [finding EXCEPT ![k] = s]
    /\ UNCHANGED <<config, snaps, baseline, excepted>>

CreateException ==
    /\ Decide /\ AuditFree(NoOne) /\ \E k \in CheckKey \ excepted : excepted' = excepted \cup {k}
    /\ UNCHANGED <<config, snaps, baseline, finding>>

\* Revoked, or its date has passed.
EndException ==
    /\ Decide /\ \E k \in excepted : excepted' = excepted \ {k}
    /\ UNCHANGED <<config, snaps, baseline, finding>>

\* resolve_drift_finding: what was measured on another baseline is stale.
ResolveDrift ==
    finding' = IF finding[Drift] \in Active THEN [finding EXCEPT ![Drift] = "resolved"] ELSE finding

PinBaseline ==
    /\ Decide /\ AuditFree(NoOne)
    /\ \E i \in Committed : /\ ~LockedRow(i, NoOne) /\ (baseline # 0 => ~LockedRow(baseline, NoOne))
                            /\ baseline' = i
    /\ finding[Drift] \in Active => ~LockedKey(Drift, NoOne)
    /\ ResolveDrift
    /\ UNCHANGED <<config, snaps, excepted>>

ClearBaseline ==
    /\ Decide /\ AuditFree(NoOne) /\ baseline # 0 /\ ~LockedRow(baseline, NoOne) /\ baseline' = 0
    /\ UNCHANGED <<config, snaps, finding, excepted>>

FindingNext ==
    \/ \E r \in Run : \/ Start(r) \/ StoreSnapshot(r) \/ BeginDrift(r) \/ BeginChecks(r) \/ BeginVulns(r)
                      \/ LookUp(r) \/ WriteFinding(r) \/ CommitRun(r) \/ Undo(r)
    \/ Reconfigure \/ Triage \/ CreateException \/ EndException \/ PinBaseline \/ ClearBaseline

FindingSpec == FindingInit /\ [][FindingNext]_findingVars
-----------------------------------------------------------------------------
Settles(k, says) == CASE says = "fail" -> finding'[k] \in Active
                      [] says = "pass" -> finding'[k] \notin Active
                      [] OTHER -> finding'[k] = finding[k]

\* A collection nothing overlapped leaves its device's findings telling the
\* truth: whatever was open, closed, accepted or reopened before, a check is
\* open iff the device's configuration fails it and no exception is in force
\* (which leaves it as it was), and drift iff it is not the pinned one.
CollectionsTellTheTruth ==
    [][\A r \in Run :
        CommitRun(r) /\ runs[r].alone /\ Contacts(runs[r].kind) =>
            /\ Settles(Drift, IF baseline = 0 \/ snaps[baseline].conf = config THEN "pass" ELSE "fail")
            /\ runs[r].kind = "collect_and_assess" =>
                \A k \in CheckKey : LET says == Verdict[config][k]
                                    IN Settles(k, IF says = "fail" /\ k \in excepted THEN "silent" ELSE says)]_findingVars

\* However runs overlap, the system closes a finding only on evidence: some
\* stored configuration passes it, or for drift, a baseline was pinned or is
\* the one collected.  Silence, a crash or an exception never closes one.
ClosedOnEvidence ==
    [][\A k \in CheckKey \cup VulnKey : finding[k] # "resolved" /\ finding'[k] = "resolved" =>
            \E i \in {i \in DOMAIN snaps : snaps[i].by # Lost} : Verdict[snaps[i].conf][k] = "pass"]_findingVars
=============================================================================
