---------------------------- MODULE DerivedDevices ----------------------------
(***************************************************************************)
(* Devices nobody entered: access points recorded from the list of the     *)
(* controller they joined (AccessPointInventory.sync, at the end of the    *)
(* controller's collection), firewalls imported from the answer of their   *)
(* manager (ManagerEnumerationService), and the gate between such rows and *)
(* jobs (JobService.resolve_scope).  Addresses are unique, so the table    *)
(* maps an address to its row.  Each request or sync is one transaction.   *)
(***************************************************************************)
EXTENDS Naturals, FiniteSets, Functions

CONSTANTS
    Address, Name, Serial,      \* management addresses, hostnames, serial numbers
    Controller, Manager,        \* devices others are derived from
    NoValue,                    \* NULL
    MaxTurns                  \* bound: transactions

ASSUME DerivedAssumption ==
    /\ NoValue \notin Address \cup Name \cup Serial \cup Controller \cup Manager
    /\ Controller \cap Manager = {} /\ MaxTurns \in Nat /\ IsFiniteSet(Name)

VARIABLES
    table,                      \* devices, but for controllers and managers
    last,                       \* history: the radios of a controller at its last applied list
    job,                        \* the last job: its targets as they were, and its flag
    turns

derivedVars == <<table, last, job, turns>>

\* History in a row: `admitted`, a person put it into assessment; `steady`, its
\* status is as its controller's last list left it.
Blank == [kind |-> "other", name |-> NoValue, serial |-> NoValue, status |-> "active",
          parent |-> NoValue, admitted |-> FALSE, steady |-> FALSE]
Statuses == {"active", "archived", "pending_review", "inventory_only"}

DerivedInit ==
    /\ table = <<>> /\ last = [c \in Controller |-> {}] /\ turns = 0
    /\ job = [targets |-> {}, archivedToo |-> FALSE]

Turns == turns < MaxTurns /\ turns' = turns + 1
Tables == Turns /\ UNCHANGED <<last, job>>

\* The table with one row more.
Inserted(a, row) == [b \in DOMAIN table \cup {a} |-> IF b = a THEN row ELSE table[b]]
-----------------------------------------------------------------------------
(* A controller's access points *)

\* Mutant: a list shorter than the controller's own count is taken for complete.
Usable_Short(listed, declared) == DOMAIN listed # {}

\* An empty list, or one that is not as long as the count beside it, changes nothing.
Usable(listed, declared) ==
    /\ DOMAIN listed # {}
    /\ declared # NoValue => Cardinality(DOMAIN listed) = declared

Named(a) == table[a].name

\* _derived_access_points, by name: of two rows with one name the query's last.
Lookups ==
    LET derived == {a \in DOMAIN table : table[a].kind = "ap" /\ table[a].parent # NoValue}
    IN  {K \in SUBSET derived : \A a \in derived : Cardinality({k \in K : Named(k) = Named(a)}) = 1}

\* _apply and the archiving: what becomes of a known row.
Followed(row, listed, c) ==
    IF row.name \in DOMAIN listed
    THEN [row EXCEPT !.parent = c, !.steady = TRUE,
                     !.status = IF @ = "archived" THEN "inventory_only" ELSE @]
    ELSE IF row.parent = c THEN [row EXCEPT !.status = "archived", !.steady = TRUE]
    ELSE row

\* History: a row hidden behind a namesake was passed over.
Passed(row, c) == [row EXCEPT !.steady = @ /\ row.parent # c]

\* The flush: updates in the order of random keys, then inserts.  Some order goes
\* well if no two rows end on one address and the moves form no cycle.
Lands(to, fresh) ==
    /\ IsInjective(to) /\ IsInjective(fresh) /\ Range(to) \cap Range(fresh) = {}
    /\ \A S \in SUBSET {a \in DOMAIN to : to[a] # a} : S # {} => {to[a] : a \in S} # S

\* sync: c has the radios, of which some were listed, with an address or without;
\* it may state their number.  A flush that fails undoes the whole collection.
Sync(c, radios, listed, declared) ==
    /\ Usable(listed, declared)
    /\ \E known \in Lookups :
        LET names == {Named(a) : a \in known}
            to == [a \in DOMAIN table |->
                     IF a \in known /\ Named(a) \in DOMAIN listed /\ listed[Named(a)] # NoValue
                     THEN listed[Named(a)] ELSE a]
            fresh == [n \in {n \in DOMAIN listed \ names : listed[n] # NoValue} |-> listed[n]]
            Row(b) == IF b \in Range(to)
                      THEN LET a == CHOOSE a \in DOMAIN to : to[a] = b
                           IN  IF a \in known THEN Followed(table[a], listed, c) ELSE Passed(table[a], c)
                      ELSE [Blank EXCEPT !.kind = "ap", !.name = CHOOSE n \in DOMAIN fresh : fresh[n] = b,
                                         !.status = "inventory_only", !.parent = c, !.steady = TRUE]
        IN  Lands(to, fresh) /\ table' = [b \in Range(to) \cup Range(fresh) |-> Row(b)]
    /\ last' = [last EXCEPT ![c] = IF declared = NoValue THEN DOMAIN listed ELSE radios]
    /\ Turns /\ UNCHANGED job
-----------------------------------------------------------------------------
(* A manager's devices *)

\* preview: the rows a reported device may be: its manager's by serial or address,
\* else anybody's by serial or address; two with one serial anywhere are an error.
Matches(m, serial, ip) ==
    LET By(rows) == {a \in rows : serial # NoValue /\ table[a].serial = serial}
        mine == {a \in DOMAIN table : table[a].parent = m}
    IN  IF By(mine) # {} THEN By(mine)
        ELSE IF ip \in mine THEN {ip}
        ELSE IF By(DOMAIN table) # {} THEN By(DOMAIN table)
        ELSE {ip} \cap DOMAIN table

\* import_children of one device: adopted where it is known, else a new row that
\* waits for review.
Import(m, serial, ip) ==
    LET found == Matches(m, serial, ip) IN
    \/ /\ \E a \in found :
           /\ table[a].parent = m \/ Cardinality(found) = 1
           /\ table' = [table EXCEPT ![a].parent = m, ![a].steady = FALSE,
                                     ![a].serial = IF serial = NoValue THEN @ ELSE serial]
       /\ Tables
    \/ /\ found = {} /\ ip # NoValue
       /\ table' = Inserted(ip, [Blank EXCEPT !.serial = serial, !.parent = m, !.status = "pending_review"])
       /\ Tables
-----------------------------------------------------------------------------
(* People *)

\* create_device
AddDevice(a, serial) ==
    /\ a \notin DOMAIN table
    /\ table' = Inserted(a, [Blank EXCEPT !.serial = serial, !.admitted = TRUE])
    /\ Tables

\* approve
ApproveDevice(a) ==
    /\ table[a].status = "pending_review"
    /\ table' = [table EXCEPT ![a].status = "active", ![a].admitted = TRUE]
    /\ Tables

\* update_device and archive_device, as far as the status goes.
SetStatus(a, status) ==
    /\ status # table[a].status
    /\ table' = [table EXCEPT ![a].status = status, ![a].steady = FALSE,
                              ![a].admitted = @ \/ status = "active"]
    /\ Tables

\* delete_device of a row, or of the device it was derived from, which lets go of it.
Delete(a) == table' = Restrict(table, DOMAIN table \ {a}) /\ Tables
DeleteParent(p) ==
    /\ table' = [a \in DOMAIN table |->
                   IF table[a].parent = p THEN [table[a] EXCEPT !.parent = NoValue, !.steady = FALSE] ELSE table[a]]
    /\ last' = IF p \in Controller THEN [last EXCEPT ![p] = {}] ELSE last
    /\ Turns /\ UNCHANGED job

\* resolve_scope
Targets(scope, archivedToo) ==
    {a \in scope \cap DOMAIN table :
        /\ archivedToo \/ table[a].status # "archived"
        /\ table[a].status \notin {"pending_review", "inventory_only"}}

TargetDevices(scope, archivedToo) ==
    /\ job' = [targets |-> {table[a] : a \in Targets(scope, archivedToo)}, archivedToo |-> archivedToo]
    /\ job' # job
    /\ UNCHANGED <<table, last, turns>>

Lists(radios) == UNION {[some -> Address \cup {NoValue}] : some \in SUBSET radios}

DerivedNext ==
    \/ \E c \in Controller, radios \in SUBSET Name : \E listed \in Lists(radios) :
           \E declared \in {NoValue, Cardinality(radios)} : Sync(c, radios, listed, declared)
    \/ \E m \in Manager, serial \in Serial \cup {NoValue}, ip \in Address \cup {NoValue} : Import(m, serial, ip)
    \/ \E a \in Address, serial \in Serial \cup {NoValue} : AddDevice(a, serial)
    \/ \E a \in DOMAIN table : ApproveDevice(a) \/ Delete(a) \/ \E status \in Statuses : SetStatus(a, status)
    \/ \E p \in Controller \cup Manager : DeleteParent(p)
    \/ \E scope \in {Address}, archivedToo \in BOOLEAN : TargetDevices(scope, archivedToo)

DerivedSpec == DerivedInit /\ [][DerivedNext]_derivedVars
-----------------------------------------------------------------------------
\* Unless people or managers had a hand in it since, or it has a namesake, an
\* access point is archived
\* exactly if the controller it was last seen on no longer
\* has it: not because it roamed, because another controller was collected, or
\* because a list was cut short of its own count.
ListsAreFollowed ==
    \A a \in DOMAIN table : table[a].steady =>
        (table[a].status # "archived" <=> table[a].name \in last[table[a].parent])

\* No device is in assessment, or the target of a job, unless a person once put it
\* there, whatever lists and managers reported, adopted and restored in between;
\* a job that asks for archived devices may get others that were archived.
NobodyIsTargetedUninvited ==
    /\ \A a \in DOMAIN table : table[a].status = "active" => table[a].admitted
    /\ \A row \in job.targets : row.admitted \/ (job.archivedToo /\ row.status = "archived")

DerivedDevicesAreTrue == ListsAreFollowed /\ NobodyIsTargetedUninvited
=============================================================================
