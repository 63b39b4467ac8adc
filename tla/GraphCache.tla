------------------------------ MODULE GraphCache ------------------------------
(***************************************************************************)
(* The topology graph held between requests.  A request asks for a         *)
(* fingerprint of the devices and snapshots (two counts and two newest     *)
(* timestamps), serves the held graph if the fingerprint is the held one,  *)
(* and otherwise builds the graph in two statements and holds it under the *)
(* fingerprint it asked for first.  Meanwhile transactions edit, archive,  *)
(* collect, upload and delete; a timestamp is of the write, not of the     *)
(* commit.                                                                 *)
(***************************************************************************)
EXTENDS Integers, FiniteSetsExt

CONSTANTS
    Dev,                \* devices
    Writer,             \* transactions that change them
    Asker,              \* requests for the graph, in one process
    MaxWrites           \* bound on writes

ASSUME GraphAssumption == MaxWrites \in Nat /\ IsFiniteSet(Dev)

VARIABLES
    writes,             \* the clock: writes so far
    inventory,          \* committed devices: status, content, updated_at
    snaps,              \* committed snapshots: device, created_at, NCM
    change,             \* change[w]: the rows w has written and not committed
    asker,              \* asker[r]: the step of r, its fingerprint and the devices it has read
    held,               \* the process-wide cache: a fingerprint and a graph
    passed              \* history: a commit changed the graph and none of the marks, or
                        \* took rows away

graphVars == <<writes, inventory, snaps, change, asker, held, passed>>

NoChange == [devices |-> <<>>, snaps |-> {}]
NoAsker == [step |-> "idle", print |-> <<>>, devices |-> <<>>]
NothingHeld == [print |-> <<>>, graph |-> <<>>]
-----------------------------------------------------------------------------
InEstate(d, devices) == devices[d].status = "active"
Newest(times) == IF times = {} THEN 0 ELSE Max(times)

\* _fingerprint: one statement.
Fingerprint(devices, stored) ==
    <<Cardinality({d \in Dev : InEstate(d, devices)}), Newest({devices[d].updated : d \in Dev}),
      Cardinality(stored), Newest({s.at : s \in stored})>>

\* What never goes down while no row goes away: the newest times and the number of
\* snapshots.  The number of devices can come back to what it was.
Marks(print) == <<print[2], print[3], print[4]>>

\* A device's node: its own fields and its latest snapshot's NCM.
Node(d, devices, stored) ==
    LET of == {s \in stored : s.device = d}
    IN  <<devices[d].content, IF of = {} THEN 0 ELSE (CHOOSE s \in of : \A t \in of : t.at <= s.at).ncm>>

Graph(devices, stored) == [d \in {x \in Dev : InEstate(x, devices)} |-> Node(d, devices, stored)]

Absent == [status |-> "none", content |-> 0, updated |-> 0]

GraphInit ==
    /\ writes = 1 /\ passed = FALSE /\ held = NothingHeld
    /\ inventory = [d \in Dev |-> [status |-> "active", content |-> 0, updated |-> 1]] /\ snaps = {}
    /\ change = [w \in Writer |-> NoChange] /\ asker = [r \in Asker |-> NoAsker]
-----------------------------------------------------------------------------
\* PostgreSQL: the rows some open transaction has written are locked.
Locked(d) == \E w \in Writer : d \in DOMAIN change[w].devices
Refreshed(s) == \E w \in Writer : \E t \in change[w].snaps : t.device = s.device /\ t.at = s.at

MayWrite(w) == change[w] = NoChange /\ writes < MaxWrites /\ writes' = writes + 1
Unread == UNCHANGED <<inventory, snaps, asker, held, passed>>

\* A device row as an edit leaves it: updated_at is the statement's time.
Touched(status) == [status |-> status, content |-> writes', updated |-> writes']

\* create_device, update_device, archive_device, delete_device.
EditDevice(w, d) ==
    /\ MayWrite(w) /\ ~Locked(d)
    /\ \E row \in (IF inventory[d].status = "none" THEN {Touched("active")}
                   ELSE {Absent, Touched("active"), Touched("archived")}) :
        change' = [change EXCEPT ![w] = [devices |-> [e \in {d} |-> row], snaps |-> {}]]
    /\ Unread

\* create_snapshot: a text not seen before is a new row; one seen before
\* refreshes its NCM in place.
Captured(d) ==
    {{[device |-> d, at |-> writes', ncm |-> writes']}}
    \cup {{[s EXCEPT !.ncm = writes']} : s \in {t \in snaps : t.device = d /\ ~Refreshed(t)}}

\* A collection records facts and contact on the device first; an upload that
\* tells nothing new about it leaves the row as it was.
Collect(w, d) ==
    /\ MayWrite(w) /\ inventory[d].status = "active" /\ ~Locked(d)
    /\ \E s \in Captured(d) : change' = [change EXCEPT ![w] = [devices |-> [e \in {d} |-> Touched("active")], snaps |-> s]]
    /\ Unread

Upload(w, d) ==
    /\ MayWrite(w) /\ inventory[d].status = "active"
    /\ \E s \in Captured(d) : change' = [change EXCEPT ![w].snaps = s]
    /\ Unread

\* The transaction commits, and a deleted device takes its snapshots with it.
CommitChange(w) ==
    /\ change[w] # NoChange
    /\ inventory' = [d \in Dev |-> IF d \in DOMAIN change[w].devices THEN change[w].devices[d] ELSE inventory[d]]
    /\ snaps' = {s \in {t \in snaps : \A u \in change[w].snaps : <<u.device, u.at>> # <<t.device, t.at>>}
                        \cup change[w].snaps : inventory'[s.device].status # "none"}
    /\ change' = [change EXCEPT ![w] = NoChange]
    /\ passed' = (passed \/ (/\ Graph(inventory', snaps') # Graph(inventory, snaps)
                             /\ Marks(Fingerprint(inventory', snaps')) = Marks(Fingerprint(inventory, snaps)))
                         \/ \E d \in Dev : inventory[d].status # "none" /\ inventory'[d].status = "none")
    /\ UNCHANGED <<writes, asker, held>>

UndoChange(w) ==
    /\ change[w] # NoChange
    /\ change' = [change EXCEPT ![w] = NoChange]
    /\ UNCHANGED <<writes, inventory, snaps, asker, held, passed>>
-----------------------------------------------------------------------------
Unwritten == UNCHANGED <<writes, inventory, snaps, change, passed>>

\* graph(): the fingerprint, and a hit if it is the held one.
Ask(r) ==
    /\ asker[r].step = "idle"
    /\ asker' = [asker EXCEPT ![r] = [step |-> "asked", print |-> Fingerprint(inventory, snaps), devices |-> <<>>]]
    /\ UNCHANGED held /\ Unwritten

\* GraphCache.get: the held graph answers the request.
Hit(r) ==
    /\ asker[r].step = "asked" /\ held.print = asker[r].print
    /\ asker' = [asker EXCEPT ![r] = NoAsker]
    /\ UNCHANGED held /\ Unwritten

\* _nodes: the devices, then the latest snapshot of each.
ReadDevices(r) ==
    /\ asker[r].step = "asked" /\ held.print # asker[r].print
    /\ asker' = [asker EXCEPT ![r] = [step |-> "reading", print |-> asker[r].print, devices |-> inventory]]
    /\ UNCHANGED held /\ Unwritten

\* Mutant: the fingerprint is taken when the graph is put away.
BuildAndPut_LateFingerprint(r) ==
    /\ asker[r].step = "reading"
    /\ held' = [print |-> Fingerprint(inventory, snaps), graph |-> Graph(asker[r].devices, snaps)]
    /\ asker' = [asker EXCEPT ![r] = NoAsker]
    /\ Unwritten

\* build_graph, GraphCache.put: under the fingerprint asked for at first.
BuildAndPut(r) ==
    /\ asker[r].step = "reading"
    /\ held' = [print |-> asker[r].print, graph |-> Graph(asker[r].devices, snaps)]
    /\ asker' = [asker EXCEPT ![r] = NoAsker]
    /\ Unwritten

GraphNext ==
    \/ \E w \in Writer : CommitChange(w) \/ UndoChange(w) \/ \E d \in Dev : EditDevice(w, d) \/ Collect(w, d) \/ Upload(w, d)
    \/ \E r \in Asker : Ask(r) \/ Hit(r) \/ ReadDevices(r) \/ BuildAndPut(r)

GraphSpec == GraphInit /\ [][GraphNext]_graphVars
-----------------------------------------------------------------------------
\* A held graph that would be served is the one a rebuild would give, whatever
\* commits came between a fingerprint, the two reads and the put, and in
\* whatever order requests replace each other's graphs; unless some commit
\* changed the graph and moved at most the number of devices, as one can whose
\* writes are older than what is committed, or deleted a device.
HeldIsCurrent ==
    ~passed /\ held.print = Fingerprint(inventory, snaps) => held.graph = Graph(inventory, snaps)
=============================================================================
