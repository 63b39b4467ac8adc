---------------------------- MODULE AaaCorrelation ----------------------------
(***************************************************************************)
(* What devices and the servers that authenticate them disagree about, and *)
(* the findings made of it.  A request compares every device with every    *)
(* server's list of clients in one set of queries and stores the outcome   *)
(* in later ones; the estate may change between the two.                   *)
(***************************************************************************)
EXTENDS Integers, FiniteSets

CONSTANTS
    Host,               \* devices
    Spelling, AddressOf,\* addresses as configurations write them; the address each one is
    Recorded,           \* the inventory's record of each device: address, name, manager or not
    Snapshots,          \* what a collection may bring of a device
    Correlator,         \* requests
    NoReading, NoReport, NoHostName, NoKey, HiddenKey, Undated,
    Weak,               \* protocols that are a finding on their own
    StaleDays,          \* age at which an orphan is reported low
    MaxAaaSteps         \* bound: changes of the estate and of findings

ASSUME AaaAssumption ==
    /\ IsFiniteSet(Host)
    /\ IsFiniteSet(UNION {r.clients : r \in Snapshots}) /\ IsFiniteSet(UNION {r.ends : r \in Snapshots})
    /\ \A r \in Snapshots : r.ends \subseteq Int \cup {Undated}
    /\ Undated \notin Int /\ NoKey # HiddenKey /\ NoReport \notin Nat \X Nat

VARIABLES
    standing,           \* of each device: active, archived or deleted
    readings,           \* newest snapshot of each device
    report,             \* what each request has found and not yet stored
    fresh,            \* requests whose report the estate has not left behind
    aaaRows,            \* status of the findings there are, by device and fingerprint
    aaaSteps

aaaVars == <<standing, readings, report, fresh, aaaRows, aaaSteps>>

AaaActive == {"new", "reopened"}

AaaInit ==
    /\ standing = [h \in Host |-> "active"] /\ readings = [h \in Host |-> NoReading]
    /\ report = [q \in Correlator |-> NoReport] /\ fresh = {} /\ aaaRows = <<>> /\ aaaSteps = 0
-----------------------------------------------------------------------------
\* Every device an estate-wide report considers; those whose newest snapshot is
\* a server's with clients; those that are servers at all.
InScope == {h \in Host : standing[h] = "active"}
Read(h) == readings[h] # NoReading
Examined == {h \in InScope : Read(h) /\ readings[h].server /\ readings[h].clients # {}}
IsServer(h) == Read(h) /\ readings[h].server
Label(h) == IF Recorded[h].name = NoHostName THEN h ELSE Recorded[h].name

Clients == {x \in Examined \X UNION {readings[s].clients : s \in Examined} : x[2] \in readings[x[1]].clients}
ClientAddresses == {AddressOf[x[2].address] : x \in {x \in Clients : x[2].address # NoHostName}}
ClientNames == {x[2].name : x \in Clients}

\* A client that is nobody's address and nobody's name.
Orphaned ==
    {x \in Clients : ~\E h \in InScope : \/ x[2].address # NoHostName /\ AddressOf[x[2].address] = Recorded[h].address
                                         \/ x[2].name = Recorded[h].name}

\* A device on no list; neither a manager nor a server is expected on one.
Unregistered ==
    IF Examined = {} THEN {}
    ELSE {h \in InScope : /\ ~Recorded[h].manager /\ ~IsServer(h)
                          /\ Recorded[h].address \notin ClientAddresses /\ Recorded[h].name \notin ClientNames}

\* Servers a device points at, as it spells them, that are nobody's address.
PointsAt(h) == IF Read(h) THEN readings[h].points ELSE {}
UnknownServers ==
    {x \in InScope \X Spelling : x[2] \in PointsAt(x[1]) /\ \A k \in InScope : Recorded[k].address # AddressOf[x[2]]}

\* Keys that are seen in more than one place, a place being the label of a
\* server and the name of a client.
PlacesOf(key) == {<<Label(x[1]), x[2].name>> : x \in {x \in Clients : x[2].key = key}}
Visible == {x[2].key : x \in Clients} \ {NoKey, HiddenKey}
Reused == {x \in Examined \X Visible : Cardinality(PlacesOf(x[2])) > 1 /\ \E c \in readings[x[1]].clients : c.key = x[2]}
NotExposable == {x \in Clients : x[2].key = HiddenKey}

\* Coverage: devices that name a server, of those that could be asked.
Evaluated == {h \in InScope : Read(h) /\ readings[h].aaa}
CentralAuth == {h \in Evaluated : PointsAt(h) # {}}
Coverage == IF Evaluated = {} THEN NoReport ELSE <<Cardinality(CentralAuth), Cardinality(Evaluated)>>

\* The page beside it: servers, by any product, what they accept, and when which
\* certificate ends.
PostureServers == {h \in InScope : IsServer(h)}
AcceptedBy(protocol) == {h \in PostureServers : protocol \in readings[h].accepts}
WeakInUse == {p \in Weak : AcceptedBy(p) # {}}
CertificatesOf(h) == IF Read(h) THEN readings[h].ends ELSE {}
Certificates == {x \in InScope \X UNION {CertificatesOf(h) : h \in InScope} : x[2] \in CertificatesOf(x[1])}

Within(lo, hi) == {x \in Certificates : x[2] # Undated /\ lo <= x[2] /\ x[2] <= hi}
Expired == {x \in Certificates : x[2] # Undated /\ x[2] < 0}
UndatedOnes == {x \in Certificates : x[2] = Undated}
Blind == {h \in PostureServers : CertificatesOf(h) = {}}

\* correlate and _collect: what there is to store, each with its severity.
Payloads ==
    {[on |-> x[1], is |-> <<"orphaned_client", Label(x[1]), x[2].name>>,
      severity |-> IF readings[x[1]].age > StaleDays THEN "low" ELSE "medium"] : x \in Orphaned}
    \cup {[on |-> h, is |-> <<"unregistered_device">>, severity |-> IF h \in CentralAuth THEN "medium" ELSE "high"] : h \in Unregistered}
    \cup {[on |-> x[1], is |-> <<"unknown_server", x[2]>>, severity |-> "medium"] : x \in UnknownServers}
    \cup {[on |-> x[1], is |-> <<"reused_secret", x[2]>>, severity |-> "high"] : x \in Reused}
-----------------------------------------------------------------------------
Correlate(q) ==
    /\ report[q] = NoReport
    /\ report' = [report EXCEPT ![q] = [payloads |-> Payloads, analysed |-> Examined # {}]]
    /\ fresh' = fresh \cup {q}
    /\ UNCHANGED <<standing, readings, aaaRows, aaaSteps>>

\* Mutant: what was not found again is closed whether or not a server was read.
ResolveAbsent_Always(r, seen) == {x \in DOMAIN aaaRows : aaaRows[x] \in AaaActive /\ x \notin seen}

\* _resolve_absent: closed by absence, once some server's list was examined.
ResolveAbsent(r, seen) == {x \in DOMAIN aaaRows : r.analysed /\ aaaRows[x] \in AaaActive /\ x \notin seen}

\* store: a device deleted since is left out; what was closed, by whomever, is
\* reopened.
Store(q) ==
    /\ report[q] # NoReport
    /\ LET seen == {<<p.on, p.is>> : p \in {p \in report[q].payloads : standing[p.on] # "deleted"}}
           gone == ResolveAbsent(report[q], seen)
       IN aaaRows' = [x \in DOMAIN aaaRows \cup seen |->
              IF x \in gone THEN "resolved" ELSE IF x \notin seen THEN aaaRows[x]
              ELSE IF x \notin DOMAIN aaaRows THEN "new"
              ELSE IF aaaRows[x] \in AaaActive THEN aaaRows[x] ELSE "reopened"]
    /\ report' = [report EXCEPT ![q] = NoReport] /\ fresh' = fresh \ {q}
    /\ UNCHANGED <<standing, readings, aaaSteps>>

EstateStep == aaaSteps < MaxAaaSteps /\ aaaSteps' = aaaSteps + 1 /\ fresh' = {} /\ UNCHANGED report

CollectAaa(h) ==
    /\ EstateStep /\ standing[h] = "active"
    /\ \E r \in Snapshots : r # readings[h] /\ readings' = [readings EXCEPT ![h] = r]
    /\ UNCHANGED <<standing, aaaRows>>

Retire(h) ==
    /\ EstateStep /\ standing[h] = "active"
    /\ \/ standing' = [standing EXCEPT ![h] = "archived"] /\ UNCHANGED aaaRows
       \/ /\ standing' = [standing EXCEPT ![h] = "deleted"]
          /\ aaaRows' = [x \in {x \in DOMAIN aaaRows : x[1] # h} |-> aaaRows[x]]
    /\ UNCHANGED readings

Accept(x) ==
    /\ aaaSteps < MaxAaaSteps /\ aaaSteps' = aaaSteps + 1
    /\ aaaRows[x] \in AaaActive /\ aaaRows' = [aaaRows EXCEPT ![x] = "risk_accepted"]
    /\ UNCHANGED <<standing, readings, report, fresh>>

AaaNext ==
    \/ \E q \in Correlator : Correlate(q) \/ Store(q)
    \/ \E h \in Host : CollectAaa(h) \/ Retire(h)
    \/ \E x \in DOMAIN aaaRows : Accept(x)

AaaSpec == AaaInit /\ [][AaaNext]_aaaVars
-----------------------------------------------------------------------------
\* A device and a client are one if address or name says so, whichever side asks:
\* none of the two is then reported as unknown to the other; and what is not
\* reported has its counterpart.
SameBox(h, c) == \/ c.address # NoHostName /\ AddressOf[c.address] = Recorded[h].address
                 \/ c.name = Recorded[h].name

SidesAgree ==
    /\ \A x \in Clients, h \in InScope : SameBox(h, x[2]) => x \notin Orphaned /\ h \notin Unregistered
    /\ \A x \in Clients \ Orphaned : \E h \in InScope : SameBox(h, x[2])
    /\ Examined # {} => \A h \in InScope \ Unregistered :
                            Recorded[h].manager \/ IsServer(h) \/ \E x \in Clients : SameBox(h, x[2])

\* No conclusion without its data: no device is unregistered while no list was
\* read, a hidden key is never called reused nor a device unevaluated covered.
NoDataNoVerdict ==
    /\ Unregistered # {} => Clients # {}
    /\ \A x \in Reused : \E y, z \in Clients : y # z /\ y[2].key = x[2] /\ z[2].key = x[2]
    /\ Cardinality(NotExposable) + Cardinality({x \in Clients : x[2].key \in Visible})
         + Cardinality({x \in Clients : x[2].key = NoKey}) = Cardinality(Clients)
    /\ Coverage = NoReport <=> \A h \in InScope : ~Read(h) \/ ~readings[h].aaa

\* The page promises that what is not on it is not coming: every certificate that
\* was read is in one of the counts of its timeline or beyond the horizon; a server without one is named; and a page without any
\* server speaks of no list, of no weak protocol and of no blind spot.
TimelineIsWhole ==
    /\ Cardinality(Certificates) = Cardinality(Expired) + Cardinality(Within(0, 90)) + Cardinality(UndatedOnes)
                                     + Cardinality({x \in Certificates : x[2] # Undated /\ x[2] > 90})
    /\ \A h \in PostureServers : h \in Blind \/ \E x \in Certificates : x[1] = h
    /\ Examined \subseteq PostureServers /\ PostureServers = {} => WeakInUse = {} /\ Blind = {} /\ Unregistered = {}

\* What is stored of a report the estate has not left behind is what disagrees now,
\* no more and no less; and nothing is closed by a request that examined no list.
StoredIsTrue ==
    \A q \in Correlator : Store(q) =>
        LET open(rows) == {x \in DOMAIN rows : rows[x] \in AaaActive}
        IN /\ q \in fresh /\ Examined # {} => open(aaaRows') = {<<p.on, p.is>> : p \in Payloads}
           /\ q \in fresh => {<<p.on, p.is>> : p \in Payloads} \subseteq open(aaaRows')
           /\ ~report[q].analysed => open(aaaRows) \subseteq open(aaaRows')

AaaStep == SidesAgree' /\ NoDataNoVerdict' /\ TimelineIsWhole' /\ StoredIsTrue

\* Devices and the servers they are registered on: what is reported of either side
\* is true of both, and what is stored of it is what was reported.
RegistersAgree == [][AaaStep]_aaaVars
=============================================================================
