--------------------------- MODULE PlatformProofs ---------------------------
(***************************************************************************)
(* Proofs about what the platform rests on: the cache that serves the      *)
(* topology, the tree of groups, the administrators, the pace towards a    *)
(* host, the page loop and the collection of one device.                   *)
(***************************************************************************)
EXTENDS MCPlatform, FiniteSetTheorems, FunctionTheorems, SequenceTheorems, WellFoundedInduction, TLAPS
-----------------------------------------------------------------------------
(* The cache of the topology graph. *)

DeviceRow == [status : {"active", "archived", "none"}, content : Nat, updated : Nat]
SnapRow == [device : Dev, at : Nat, ncm : Nat]
Rows == UNION {[D -> DeviceRow] : D \in SUBSET Dev}
FourNumbers == Nat \X Nat \X Nat \X Nat

\* The fingerprint a request would read now.
Now == Fingerprint(inventory, snaps)

GraphTypeOK ==
    /\ writes \in Nat
    /\ passed \in BOOLEAN
    /\ inventory \in [Dev -> DeviceRow]
    /\ snaps \subseteq SnapRow /\ IsFiniteSet(snaps)
    /\ change \in [Writer -> [devices : Rows, snaps : SUBSET SnapRow]]
    /\ asker \in [Asker -> [step : {"idle", "asked", "reading"}, print : {<<>>} \cup FourNumbers, devices : {<<>>} \cup [Dev -> DeviceRow]]]

\* A row is written by one open transaction at a time.
RowsLocked == \A v, w \in Writer : v # w => DOMAIN change[v].devices \cap DOMAIN change[w].devices = {}

\* Nothing is dated ahead of the clock.
Dated ==
    /\ \A d \in Dev : inventory[d].updated <= writes
    /\ \A s \in snaps : s.at <= writes
    /\ \A w \in Writer : \A s \in change[w].snaps : s.at <= writes
    /\ \A w \in Writer : \A d \in DOMAIN change[w].devices : change[w].devices[d].updated <= writes

\* What a transaction has written to a device is newer than what is committed of it.
Newer ==
    \A w \in Writer : \A d \in DOMAIN change[w].devices :
        IF change[w].devices[d].status = "none" THEN inventory[d].status # "none"
                                                ELSE inventory[d].updated <= change[w].devices[d].updated

\* A snapshot is known by its device and its time, and a transaction writes one.
Keyed ==
    /\ \A s, t \in snaps : s.device = t.device /\ s.at = t.at => s = t
    /\ \A w \in Writer : \A s, t \in change[w].snaps : s = t

\* Snapshots belong to devices.
Rooted ==
    /\ \A s \in snaps : inventory[s.device].status # "none"
    /\ ~passed => \A w \in Writer : \A s \in change[w].snaps : inventory[s.device].status # "none"

\* A fingerprint read before now.
Earlier(print) == print \in FourNumbers /\ \A i \in 2..4 : print[i] <= Now[i]

\* Devices that were read and make the graph they would make now.
StillTrue(devices) ==
    /\ devices \in [Dev -> DeviceRow]
    /\ \A d \in Dev : /\ InEstate(d, devices) <=> InEstate(d, inventory)
                      /\ InEstate(d, inventory) => devices[d].content = inventory[d].content

AskedBefore(r) ==
    /\ asker[r].step # "idle" => Earlier(asker[r].print)
    /\ asker[r].step = "reading" /\ Marks(asker[r].print) = Marks(Now) => StillTrue(asker[r].devices)

HeldBefore ==
    \/ held = NothingHeld
    \/ /\ Earlier(held.print)
       /\ Marks(held.print) = Marks(Now) => held.graph = Graph(inventory, snaps)

GInv ==
    /\ GraphTypeOK /\ RowsLocked /\ Dated /\ Newer /\ Keyed /\ Rooted
    /\ ~passed => HeldBefore /\ \A r \in Asker : AskedBefore(r)

\* A function on no device, and on one.
LEMMA NoRows == <<>> \in Rows /\ DOMAIN <<>> = {}
<1>1. <<>> = [x \in {} |-> 0]
  OBVIOUS
<1>2. <<>> \in [{} -> DeviceRow] /\ DOMAIN <<>> = {}
  BY <1>1
<1> QED BY <1>2 DEF Rows

LEMMA OneRow ==
    ASSUME NEW d \in Dev, NEW entry \in DeviceRow
    PROVE  /\ [e \in {d} |-> entry] \in Rows
           /\ DOMAIN [e \in {d} |-> entry] = {d}
           /\ [e \in {d} |-> entry][d] = entry
<1>1. [e \in {d} |-> entry] \in [{d} -> DeviceRow] /\ {d} \in SUBSET Dev
  OBVIOUS
<1> QED BY <1>1 DEF Rows

LEMMA RowsAre ==
    ASSUME NEW f \in Rows
    PROVE  DOMAIN f \subseteq Dev /\ \A d \in DOMAIN f : f[d] \in DeviceRow
<1>1. PICK D \in SUBSET Dev : f \in [D -> DeviceRow]
  BY DEF Rows
<1> QED BY <1>1

\* A set of numbers with an upper bound has a last one.
LEMMA LastNumber ==
    ASSUME NEW N \in Nat, NEW S, S \subseteq 0..N, S # {}
    PROVE  \E m \in S : \A x \in S : x <= m
<1> DEFINE Above == {N - m : m \in S}
<1>0. \A m \in S : m \in Nat /\ m <= N
  OBVIOUS
<1>1. Above \subseteq Nat /\ Above # {}
  <2>1. \A m \in S : N - m \in Nat
    BY <1>0
  <2> QED BY <2>1
<1>2. PICK x \in Above : \A y \in Above : ~ (<<y, x>> \in OpToRel(<, Nat))
  <2> HIDE DEF Above
  <2> QED BY <1>1, NatLessThanWellFounded, WFMin, Zenon
<1>3. \A y \in Above : x <= y
  <2> SUFFICES ASSUME NEW y \in Above PROVE x <= y
    OBVIOUS
  <2>1. x \in Nat /\ y \in Nat
    BY <1>1
  <2>2. ~ (y < x)
    BY <2>1, <1>2 DEF OpToRel
  <2> HIDE DEF Above
  <2> QED BY <2>1, <2>2
<1>4. PICK m \in S : x = N - m
  OBVIOUS
<1>5. ASSUME NEW z \in S PROVE z <= m
  <2>1. N - m <= N - z
    BY <1>3, <1>4
  <2>2. m \in Nat /\ z \in Nat
    BY <1>0
  <2> HIDE DEF Above
  <2> QED BY <2>1, <2>2
<1> QED BY <1>5

\* The newest of a finite set of times is one of them and bounds them.
LEMMA NewestIs ==
    ASSUME NEW N \in Nat, NEW S, S \subseteq 0..N
    PROVE  /\ Newest(S) \in Nat
           /\ \A x \in S : x <= Newest(S)
           /\ S # {} => Newest(S) \in S
           /\ S = {} => Newest(S) = 0
<1>1. CASE S = {}
  BY <1>1 DEF Newest
<1>2. CASE S # {}
  <2>1. PICK m \in S : \A x \in S : x <= m
    BY <1>2, LastNumber
  <2>2. \A x \in S : m >= x
    BY <2>1
  <2>3. Max(S) \in S /\ \A x \in S : Max(S) >= x
    BY <2>2, <2>1 DEF Max
  <2>4. Newest(S) = Max(S)
    BY <1>2 DEF Newest
  <2>5. Newest(S) \in S /\ \A x \in S : Newest(S) >= x
    BY <2>3, <2>4
  <2>6. \A x \in S : x \in Nat
    OBVIOUS
  <2>7. Newest(S) \in Nat /\ \A x \in S : x <= Newest(S)
    BY <2>5, <2>6
  <2> QED BY <2>5, <2>7, <1>2
<1> QED BY <1>1, <1>2

LEMMA NewestGrows ==
    ASSUME NEW N \in Nat, NEW M \in Nat, NEW S, NEW T, S \subseteq 0..N, T \subseteq 0..M,
           \A x \in S : \E y \in T : x <= y
    PROVE  Newest(S) <= Newest(T)
<1>1. /\ Newest(T) \in Nat /\ \A x \in T : x <= Newest(T)
      /\ Newest(S) \in Nat /\ (S # {} => Newest(S) \in S) /\ (S = {} => Newest(S) = 0)
  BY NewestIs
<1>2. CASE S = {}
  BY <1>1, <1>2
<1>3. CASE S # {}
  <2>1. PICK y \in T : Newest(S) <= y
    BY <1>1, <1>3
  <2>2. y \in Nat /\ y <= Newest(T)
    BY <1>1, <2>1
  <2> QED BY <2>1, <2>2, <1>1
<1> QED BY <1>2, <1>3

\* A fingerprint is four numbers.
LEMMA PrintNow ==
    ASSUME GraphTypeOK, Dated
    PROVE  /\ Now \in FourNumbers
           /\ Now = <<Cardinality({d \in Dev : InEstate(d, inventory)}), Newest({inventory[d].updated : d \in Dev}),
                      Cardinality(snaps), Newest({s.at : s \in snaps})>>
<1>1. IsFiniteSet({d \in Dev : InEstate(d, inventory)})
  BY GraphAssumption, FS_Subset DEF GraphAssumption
<1>2. Cardinality({d \in Dev : InEstate(d, inventory)}) \in Nat /\ Cardinality(snaps) \in Nat
  BY <1>1, FS_CardinalityType DEF GraphTypeOK
<1>3. {inventory[d].updated : d \in Dev} \subseteq 0..writes /\ {s.at : s \in snaps} \subseteq 0..writes
  BY DEF GraphTypeOK, Dated, DeviceRow, SnapRow
<1>4. Newest({inventory[d].updated : d \in Dev}) \in Nat /\ Newest({s.at : s \in snaps}) \in Nat
  <2>1. writes \in Nat
    BY DEF GraphTypeOK
  <2> QED BY <1>3, <2>1, NewestIs
<1> QED BY <1>2, <1>4 DEF Now, Fingerprint, FourNumbers

\* A request that moves neither devices nor snapshots moves no fingerprint.
LEMMA StillNow ==
    ASSUME UNCHANGED <<inventory, snaps>>
    PROVE  /\ Now' = Now
           /\ Graph(inventory, snaps)' = Graph(inventory, snaps)
           /\ \A print : Earlier(print) => Earlier(print)'
           /\ \A devices : StillTrue(devices) => StillTrue(devices)'
<1>1. Now' = Now
  BY DEF Now, Fingerprint, InEstate
<1>2. Graph(inventory, snaps)' = Graph(inventory, snaps)
  BY DEF Graph, Node, InEstate
<1>3. \A print : Earlier(print) => Earlier(print)'
  BY <1>1 DEF Earlier
<1>4. \A devices : StillTrue(devices) => StillTrue(devices)'
  BY DEF StillTrue, InEstate
<1> QED BY <1>1, <1>2, <1>3, <1>4

\* Whatever is written and not committed changes nothing a request sees.
LEMMA UnreadKeeps ==
    ASSUME GInv, UNCHANGED <<inventory, snaps, asker, held, passed>>, NEW r \in Asker, ~passed
    PROVE  AskedBefore(r)' /\ HeldBefore'
<1>1. AskedBefore(r) /\ HeldBefore
  BY DEF GInv
<1>2. Now' = Now /\ Graph(inventory, snaps)' = Graph(inventory, snaps)
  BY StillNow
<1>3. AskedBefore(r)'
  BY <1>1, <1>2, StillNow DEF AskedBefore
<1>4. HeldBefore'
  BY <1>1, <1>2, StillNow DEF HeldBefore
<1> QED BY <1>3, <1>4

\* A write by a transaction that had written nothing.
LEMMA WriteKeeps ==
    ASSUME GInv, NEW w \in Writer, MayWrite(w), Unread, NEW devices \in Rows, NEW stored \in SUBSET SnapRow,
           change' = [change EXCEPT ![w] = [devices |-> devices, snaps |-> stored]],
           \A d \in DOMAIN devices : /\ ~Locked(d) /\ devices[d].updated <= writes'
                                     /\ IF devices[d].status = "none" THEN inventory[d].status # "none"
                                                                      ELSE inventory[d].updated <= devices[d].updated,
           \A s \in stored : s.at <= writes' /\ inventory[s.device].status # "none",
           \A s, t \in stored : s = t
    PROVE  GInv'
<1>1. /\ GraphTypeOK /\ RowsLocked /\ Dated /\ Newer /\ Keyed /\ Rooted
      /\ writes \in Nat /\ writes' = writes + 1 /\ UNCHANGED <<inventory, snaps, asker, held, passed>>
  BY DEF GInv, MayWrite, Unread, GraphTypeOK
<1>2. /\ change'[w].devices = devices /\ change'[w].snaps = stored
      /\ \A v \in Writer : v # w => change'[v] = change[v]
  BY <1>1 DEF GraphTypeOK
<1>3. GraphTypeOK'
  <2>1. [devices |-> devices, snaps |-> stored] \in [devices : Rows, snaps : SUBSET SnapRow]
    OBVIOUS
  <2> HIDE DEF Rows, SnapRow, DeviceRow, FourNumbers
  <2> QED BY <1>1, <2>1 DEF GraphTypeOK
<1>4. RowsLocked'
  <2>1. \A v \in Writer : DOMAIN change[v].devices \cap DOMAIN devices = {}
    BY DEF Locked
  <2> QED BY <1>1, <1>2, <2>1 DEF RowsLocked
<1>5. Dated'
  <2>1. \A d \in Dev : inventory[d].updated <= writes + 1
    BY <1>1 DEF Dated, GraphTypeOK, DeviceRow
  <2>2. \A s \in snaps : s.at <= writes + 1
    BY <1>1 DEF Dated, GraphTypeOK, SnapRow
  <2>3. ASSUME NEW v \in Writer, v # w
        PROVE  /\ \A s \in change[v].snaps : s.at <= writes + 1
               /\ \A d \in DOMAIN change[v].devices : change[v].devices[d].updated <= writes + 1
    <3>1. \A d \in DOMAIN change[v].devices : change[v].devices[d] \in DeviceRow
      BY <1>1, RowsAre DEF GraphTypeOK
    <3>2. change[v].snaps \subseteq SnapRow
      BY <1>1 DEF GraphTypeOK
    <3> QED BY <1>1, <3>1, <3>2 DEF Dated, DeviceRow, SnapRow
  <2> QED BY <1>1, <1>2, <2>1, <2>2, <2>3 DEF Dated
<1>6. Newer'
  BY <1>1, <1>2 DEF Newer
<1>7. Keyed' /\ Rooted'
  BY <1>1, <1>2 DEF Keyed, Rooted
<1>8. ~passed' => HeldBefore' /\ \A r \in Asker : AskedBefore(r)'
  <2> SUFFICES ASSUME ~passed' PROVE HeldBefore' /\ \A r \in Asker : AskedBefore(r)'
    OBVIOUS
  <2>1. ~passed
    BY <1>1
  <2>2. HeldBefore /\ Graph(inventory, snaps)' = Graph(inventory, snaps) /\ Now' = Now
    BY <1>1, <2>1, StillNow DEF GInv
  <2>3. HeldBefore'
    BY <1>1, <2>2, StillNow DEF HeldBefore
  <2> QED BY <1>1, <2>1, <2>3, UnreadKeeps
<1> QED BY <1>3, <1>4, <1>5, <1>6, <1>7, <1>8 DEF GInv

\* What create_snapshot may write.
LEMMA CapturedIs ==
    ASSUME GInv, NEW w \in Writer, MayWrite(w), NEW d \in Dev, inventory[d].status # "none", NEW stored \in Captured(d)
    PROVE  /\ stored \in SUBSET SnapRow
           /\ \A s \in stored : s.at <= writes' /\ inventory[s.device].status # "none"
           /\ \A s, t \in stored : s = t
<1>1. writes \in Nat /\ writes' = writes + 1 /\ snaps \subseteq SnapRow /\ \A s \in snaps : s.at <= writes
  BY DEF GInv, GraphTypeOK, Dated, MayWrite
<1>2. CASE stored = {[device |-> d, at |-> writes', ncm |-> writes']}
  BY <1>1, <1>2 DEF SnapRow
<1>3. CASE stored \in {{[s EXCEPT !.ncm = writes']} : s \in {t \in snaps : t.device = d /\ ~Refreshed(t)}}
  <2>1. PICK s \in snaps : s.device = d /\ stored = {[s EXCEPT !.ncm = writes']}
    BY <1>3
  <2>2. /\ [s EXCEPT !.ncm = writes'] \in SnapRow /\ [s EXCEPT !.ncm = writes'].device = d
        /\ [s EXCEPT !.ncm = writes'].at = s.at /\ s.at <= writes'
    BY <1>1, <2>1 DEF SnapRow
  <2> QED BY <2>1, <2>2
<1> QED BY <1>2, <1>3 DEF Captured

LEMMA EditKeeps ==
    ASSUME GInv, NEW w \in Writer, NEW d \in Dev, EditDevice(w, d) PROVE GInv'
<1>1. /\ change[w] = NoChange /\ writes \in Nat /\ writes' = writes + 1 /\ inventory[d] \in DeviceRow /\ inventory[d].updated <= writes
      /\ change \in [Writer -> [devices : Rows, snaps : SUBSET SnapRow]]
  BY DEF GInv, GraphTypeOK, Dated, EditDevice, MayWrite
<1>2. PICK entry \in (IF inventory[d].status = "none" THEN {Touched("active")} ELSE {Absent, Touched("active"), Touched("archived")}) :
          change' = [change EXCEPT ![w] = [devices |-> [e \in {d} |-> entry], snaps |-> {}]]
  BY DEF EditDevice
<1>4. /\ entry \in DeviceRow /\ entry.updated <= writes'
      /\ IF entry.status = "none" THEN inventory[d].status # "none" ELSE inventory[d].updated <= entry.updated
  <2>1. inventory[d].updated \in Nat
    BY <1>1 DEF DeviceRow
  <2> QED BY <1>1, <1>2, <2>1 DEF DeviceRow, Absent, Touched
<1> DEFINE written == [e \in {d} |-> entry]
<1>5. written \in Rows /\ DOMAIN written = {d} /\ written[d] = entry
  BY <1>4, OneRow
<1> HIDE DEF written
<1>6. change' = [change EXCEPT ![w] = [devices |-> written, snaps |-> {}]]
  BY <1>2 DEF written
<1>7. \A e \in DOMAIN written : /\ ~Locked(e) /\ written[e].updated <= writes'
                                /\ IF written[e].status = "none" THEN inventory[e].status # "none"
                                                                 ELSE inventory[e].updated <= written[e].updated
  BY <1>4, <1>5 DEF EditDevice
<1>8. MayWrite(w) /\ Unread
  BY DEF EditDevice
<1>9. /\ {} \in SUBSET SnapRow /\ \A s, t \in {} : s = t
      /\ \A s \in {} : s.at <= writes' /\ inventory[s.device].status # "none"
  OBVIOUS
<1> QED BY <1>5, <1>6, <1>7, <1>8, <1>9, WriteKeeps

LEMMA CollectKeeps ==
    ASSUME GInv, NEW w \in Writer, NEW d \in Dev, Collect(w, d) PROVE GInv'
<1>1. /\ writes \in Nat /\ writes' = writes + 1 /\ inventory[d] \in DeviceRow /\ inventory[d].updated <= writes
      /\ inventory[d].status = "active"
  BY DEF GInv, GraphTypeOK, Dated, Collect, MayWrite
<1>2. PICK stored \in Captured(d) : change' = [change EXCEPT ![w] = [devices |-> [e \in {d} |-> Touched("active")], snaps |-> stored]]
  BY DEF Collect
<1>3. Touched("active") \in DeviceRow /\ Touched("active").updated = writes + 1 /\ Touched("active").status = "active"
  BY <1>1 DEF Touched, DeviceRow
<1> DEFINE devices == [e \in {d} |-> Touched("active")]
<1>4. devices \in Rows /\ DOMAIN devices = {d} /\ devices[d] = Touched("active")
  BY <1>3, OneRow
<1> HIDE DEF devices
<1>5. change' = [change EXCEPT ![w] = [devices |-> devices, snaps |-> stored]]
  BY <1>2 DEF devices
<1>6. \A e \in DOMAIN devices : /\ ~Locked(e) /\ devices[e].updated <= writes'
                                /\ IF devices[e].status = "none" THEN inventory[e].status # "none"
                                                                 ELSE inventory[e].updated <= devices[e].updated
  <2>1. inventory[d].updated \in Nat
    BY <1>1 DEF DeviceRow
  <2> QED BY <1>1, <1>3, <1>4, <2>1 DEF Collect
<1>7. /\ stored \in SUBSET SnapRow
      /\ \A s \in stored : s.at <= writes' /\ inventory[s.device].status # "none"
      /\ \A s, t \in stored : s = t
  BY <1>1, CapturedIs DEF Collect
<1> QED BY <1>4, <1>5, <1>6, <1>7, WriteKeeps DEF Collect

LEMMA UploadKeeps ==
    ASSUME GInv, NEW w \in Writer, NEW d \in Dev, Upload(w, d) PROVE GInv'
<1>1. /\ change[w] = NoChange /\ inventory[d].status = "active"
      /\ change \in [Writer -> [devices : Rows, snaps : SUBSET SnapRow]]
  BY DEF GInv, GraphTypeOK, Upload, MayWrite
<1>2. PICK stored \in Captured(d) : change' = [change EXCEPT ![w].snaps = stored]
  BY DEF Upload
<1>3. /\ stored \in SUBSET SnapRow
      /\ \A s \in stored : s.at <= writes' /\ inventory[s.device].status # "none"
      /\ \A s, t \in stored : s = t
  BY <1>1, CapturedIs DEF Upload
<1>4. change' = [change EXCEPT ![w] = [devices |-> <<>>, snaps |-> stored]]
  <2>1. [change[w] EXCEPT !.snaps = stored] = [devices |-> <<>>, snaps |-> stored]
    BY <1>1 DEF NoChange
  <2> QED BY <1>2, <2>1
<1> QED BY <1>3, <1>4, NoRows, WriteKeeps DEF Upload

\* Putting a snapshot in place of the one with its key, or beside the others,
\* leaves at least as many.
LEMMA OneForOne ==
    ASSUME NEW S, IsFiniteSet(S), NEW Gone \in SUBSET S, NEW x, \A s, t \in Gone : s = t, x \notin S \ Gone
    PROVE  IsFiniteSet((S \ Gone) \cup {x}) /\ Cardinality(S) <= Cardinality((S \ Gone) \cup {x})
<1>1. Cardinality(S) \in Nat
  BY FS_CardinalityType
<1>2. CASE Gone = {}
  <2>1. S \ Gone = S
    BY <1>2
  <2> QED BY <1>1, <2>1, FS_AddElement
<1>3. CASE Gone # {}
  <2>1. PICK g \in Gone : Gone = {g}
    BY <1>3
  <2>2. IsFiniteSet(S \ {g}) /\ Cardinality(S \ {g}) = Cardinality(S) - 1
    BY <2>1, FS_RemoveElement
  <2>3. IsFiniteSet((S \ {g}) \cup {x}) /\ Cardinality((S \ {g}) \cup {x}) = Cardinality(S \ {g}) + 1
    BY <2>1, <2>2, FS_AddElement
  <2> QED BY <1>1, <2>1, <2>2, <2>3
<1> QED BY <1>2, <1>3

\* The rows and snapshots a commit leaves.
LEMMA CommitRows ==
    ASSUME GInv, NEW w \in Writer, CommitChange(w)
    PROVE  /\ inventory' \in [Dev -> DeviceRow]
           /\ \A d \in Dev : inventory'[d] = IF d \in DOMAIN change[w].devices THEN change[w].devices[d] ELSE inventory[d]
           /\ snaps' \subseteq SnapRow /\ snaps' \subseteq snaps \cup change[w].snaps /\ IsFiniteSet(snaps')
           /\ DOMAIN change'[w].devices = {} /\ change'[w].snaps = {} /\ change'[w].devices \in Rows
           /\ \A v \in Writer : v # w => change'[v] = change[v]
<1>1. /\ change \in [Writer -> [devices : Rows, snaps : SUBSET SnapRow]] /\ inventory \in [Dev -> DeviceRow]
      /\ snaps \subseteq SnapRow /\ IsFiniteSet(snaps) /\ \A s, t \in change[w].snaps : s = t
  BY DEF GInv, GraphTypeOK, Keyed
<1>2. DOMAIN change[w].devices \subseteq Dev /\ \A d \in DOMAIN change[w].devices : change[w].devices[d] \in DeviceRow
  BY <1>1, RowsAre
<1>3. /\ inventory' \in [Dev -> DeviceRow]
      /\ \A d \in Dev : inventory'[d] = IF d \in DOMAIN change[w].devices THEN change[w].devices[d] ELSE inventory[d]
  <2> HIDE DEF DeviceRow
  <2> QED BY <1>1, <1>2 DEF CommitChange
<1>4. snaps' \subseteq snaps \cup change[w].snaps
  BY DEF CommitChange
<1>5. IsFiniteSet(snaps \cup change[w].snaps)
  <2>1. CASE change[w].snaps = {}
    BY <1>1, <2>1
  <2>2. CASE change[w].snaps # {}
    <3>1. PICK s \in change[w].snaps : change[w].snaps = {s}
      BY <1>1, <2>2
    <3> QED BY <1>1, <3>1, FS_AddElement
  <2> QED BY <2>1, <2>2
<1>6. IsFiniteSet(snaps') /\ snaps' \subseteq SnapRow
  <2>1. snaps \cup change[w].snaps \subseteq SnapRow
    BY <1>1
  <2> QED BY <1>4, <1>5, <2>1, FS_Subset
<1>7. change'[w] = NoChange /\ \A v \in Writer : v # w => change'[v] = change[v]
  BY <1>1 DEF CommitChange
<1> QED BY <1>3, <1>4, <1>6, <1>7, NoRows DEF NoChange

\* While no row goes away, a commit takes no mark back.
LEMMA MarksGrow ==
    ASSUME GInv, NEW w \in Writer, CommitChange(w), ~passed',
           GraphTypeOK', Dated'
    PROVE  Now' \in FourNumbers /\ \A i \in 2..4 : Now[i] <= Now'[i]
<1>0. /\ GraphTypeOK /\ Dated /\ Newer /\ Keyed /\ Rooted /\ ~passed
      /\ \A d \in Dev : inventory[d].status # "none" => inventory'[d].status # "none"
  BY DEF GInv, CommitChange
<1>1. /\ \A d \in Dev : inventory'[d] = IF d \in DOMAIN change[w].devices THEN change[w].devices[d] ELSE inventory[d]
      /\ inventory' \in [Dev -> DeviceRow] /\ snaps' \subseteq SnapRow /\ IsFiniteSet(snaps')
  BY CommitRows
<1> DEFINE Gone == {t \in snaps : \E u \in change[w].snaps : <<u.device, u.at>> = <<t.device, t.at>>}
<1>2. snaps' = (snaps \ Gone) \cup change[w].snaps
  <2>1. \A s \in snaps \cup change[w].snaps : s \in SnapRow /\ inventory'[s.device].status # "none"
    <3>1. \A s \in snaps \cup change[w].snaps : s \in SnapRow /\ inventory[s.device].status # "none"
      BY <1>0 DEF Rooted, GraphTypeOK
    <3> QED BY <1>0, <3>1 DEF SnapRow
  <2>2. {t \in snaps : \A u \in change[w].snaps : <<u.device, u.at>> # <<t.device, t.at>>} = snaps \ Gone
    OBVIOUS
  <2>3. snaps' = {s \in (snaps \ Gone) \cup change[w].snaps : inventory'[s.device].status # "none"}
    BY <2>2 DEF CommitChange
  <2> QED BY <2>1, <2>3
<1>3. Newest({inventory[d].updated : d \in Dev}) <= Newest({inventory'[d].updated : d \in Dev})
  <2> DEFINE S == {inventory[d].updated : d \in Dev}
             T == {inventory'[d].updated : d \in Dev}
  <2>1. writes \in Nat /\ writes' \in Nat /\ S \subseteq 0..writes
    BY <1>0 DEF GraphTypeOK, Dated, DeviceRow
  <2>2. T \subseteq 0..writes'
    <3>1. \A d \in Dev : inventory'[d].updated \in Nat /\ inventory'[d].updated <= writes'
      BY <1>1 DEF Dated, DeviceRow
    <3> QED BY <2>1, <3>1
  <2>3. ASSUME NEW d \in Dev PROVE inventory[d].updated <= inventory'[d].updated
    <3>1. inventory[d].updated \in Nat
      BY <1>0 DEF GraphTypeOK, DeviceRow
    <3>2. CASE d \in DOMAIN change[w].devices
      BY <1>0, <1>1, <3>2 DEF Newer
    <3>3. CASE d \notin DOMAIN change[w].devices
      BY <1>1, <3>1, <3>3
    <3> QED BY <3>2, <3>3
  <2>4. \A x \in S : \E y \in T : x <= y
    BY <2>3
  <2> HIDE DEF S, T
  <2>5. Newest(S) <= Newest(T)
    BY <2>1, <2>2, <2>4, NewestGrows
  <2> QED BY <2>5 DEF S, T
<1>4. Cardinality(snaps) <= Cardinality(snaps')
  <2>1. CASE change[w].snaps = {}
    <3>1. snaps' = snaps
      BY <1>2, <2>1
    <3>2. Cardinality(snaps) \in Nat
      BY <1>0, FS_CardinalityType DEF GraphTypeOK
    <3> QED BY <3>1, <3>2
  <2>2. CASE change[w].snaps # {}
    <3>1. PICK x \in change[w].snaps : change[w].snaps = {x}
      BY <1>0, <2>2 DEF Keyed
    <3>2. Gone \in SUBSET snaps /\ \A s, t \in Gone : s = t
      BY <1>0, <3>1 DEF Keyed
    <3>3. x \notin snaps \ Gone
      OBVIOUS
    <3>4. IsFiniteSet(snaps)
      BY <1>0 DEF GraphTypeOK
    <3> HIDE DEF Gone
    <3> QED BY <1>2, <3>1, <3>2, <3>3, <3>4, OneForOne
  <2> QED BY <2>1, <2>2
<1>5. Newest({s.at : s \in snaps}) <= Newest({s.at : s \in snaps'})
  <2> DEFINE S == {s.at : s \in snaps}
             T == {s.at : s \in snaps'}
  <2>1. writes \in Nat /\ writes' \in Nat /\ S \subseteq 0..writes
    BY <1>0 DEF GraphTypeOK, Dated, SnapRow
  <2>2. T \subseteq 0..writes'
    <3>1. \A s \in snaps' : s.at \in Nat /\ s.at <= writes'
      BY <1>1 DEF Dated, SnapRow
    <3> QED BY <2>1, <3>1
  <2>3. ASSUME NEW s \in snaps PROVE \E t \in snaps' : s.at = t.at
    <3>1. CASE s \in Gone
      BY <1>2, <3>1
    <3>2. CASE s \notin Gone
      BY <1>2, <3>2
    <3> QED BY <3>1, <3>2
  <2>4. \A x \in S : x \in T
    BY <2>3
  <2>5. \A x \in S : \E y \in T : x <= y
    <3>1. \A x \in S : x \in Nat
      BY <2>1
    <3> HIDE DEF S, T
    <3> QED BY <2>4, <3>1
  <2> HIDE DEF S, T
  <2>6. Newest(S) <= Newest(T)
    BY <2>1, <2>2, <2>5, NewestGrows
  <2> QED BY <2>6 DEF S, T
<1>6. /\ Now[2] = Newest({inventory[d].updated : d \in Dev}) /\ Now[3] = Cardinality(snaps) /\ Now[4] = Newest({s.at : s \in snaps})
  BY <1>0, PrintNow
<1>7. /\ Now' \in FourNumbers
      /\ Now' = <<Cardinality({d \in Dev : InEstate(d, inventory')}), Newest({inventory'[d].updated : d \in Dev}),
                  Cardinality(snaps'), Newest({s.at : s \in snaps'})>>
  <2>1. IsFiniteSet({d \in Dev : InEstate(d, inventory')})
    BY GraphAssumption, FS_Subset DEF GraphAssumption
  <2>2. Cardinality({d \in Dev : InEstate(d, inventory')}) \in Nat /\ Cardinality(snaps') \in Nat
    BY <1>1, <2>1, FS_CardinalityType
  <2>3. {inventory'[d].updated : d \in Dev} \subseteq 0..writes' /\ {s.at : s \in snaps'} \subseteq 0..writes' /\ writes' \in Nat
    <3>1. \A d \in Dev : inventory'[d].updated \in Nat /\ inventory'[d].updated <= writes'
      BY <1>1 DEF Dated, DeviceRow
    <3>2. \A s \in snaps' : s.at \in Nat /\ s.at <= writes'
      BY <1>1 DEF Dated, SnapRow
    <3>3. writes' \in Nat
      BY DEF GraphTypeOK
    <3> QED BY <3>1, <3>2, <3>3
  <2>4. Newest({inventory'[d].updated : d \in Dev}) \in Nat /\ Newest({s.at : s \in snaps'}) \in Nat
    BY <2>3, NewestIs
  <2> QED BY <2>2, <2>4 DEF Now, Fingerprint, FourNumbers
<1> QED BY <1>3, <1>4, <1>5, <1>6, <1>7

\* Two graphs alike are of devices alike.
LEMMA SameGraph ==
    ASSUME NEW d \in Dev, Graph(inventory', snaps') = Graph(inventory, snaps)
    PROVE  /\ InEstate(d, inventory') <=> InEstate(d, inventory)
           /\ InEstate(d, inventory) => inventory'[d].content = inventory[d].content
<1>1. /\ DOMAIN Graph(inventory, snaps) = {x \in Dev : InEstate(x, inventory)}
      /\ DOMAIN Graph(inventory', snaps') = {x \in Dev : InEstate(x, inventory')}
  BY DEF Graph
<1>2. InEstate(d, inventory') <=> InEstate(d, inventory)
  BY <1>1
<1>3. ASSUME InEstate(d, inventory) PROVE inventory'[d].content = inventory[d].content
  <2>1. /\ Graph(inventory, snaps)[d] = Node(d, inventory, snaps)
        /\ Graph(inventory', snaps')[d] = Node(d, inventory', snaps')
    BY <1>2, <1>3 DEF Graph
  <2>2. Node(d, inventory, snaps)[1] = inventory[d].content /\ Node(d, inventory', snaps')[1] = inventory'[d].content
    BY DEF Node
  <2> QED BY <2>1, <2>2
<1> QED BY <1>2, <1>3

\* What has been asked or is held stays true over a commit: it is behind every
\* commit that moved a mark, and every other left the graph alone.
LEMMA CommitBehind ==
    ASSUME GInv, NEW w \in Writer, CommitChange(w), ~passed', GraphTypeOK', Dated'
    PROVE  HeldBefore' /\ \A r \in Asker : AskedBefore(r)'
<1>0. /\ GraphTypeOK /\ Dated /\ ~passed /\ HeldBefore /\ \A r \in Asker : AskedBefore(r)
      /\ UNCHANGED <<asker, held>>
      /\ Marks(Now') = Marks(Now) => Graph(inventory', snaps') = Graph(inventory, snaps)
  BY DEF GInv, CommitChange, Now
<1>1. Now \in FourNumbers /\ Now' \in FourNumbers /\ \A i \in 2..4 : Now[i] <= Now'[i]
  BY <1>0, MarksGrow, PrintNow
<1>2. \A print : Earlier(print) => Earlier(print)'
  <2> SUFFICES ASSUME NEW print, Earlier(print) PROVE Earlier(print)'
    OBVIOUS
  <2> QED BY <1>1 DEF Earlier, FourNumbers
<1>3. ASSUME NEW print, Earlier(print), Marks(print) = Marks(Now')
      PROVE  /\ Marks(print) = Marks(Now) /\ Graph(inventory', snaps') = Graph(inventory, snaps)
             /\ \A devices : StillTrue(devices) => StillTrue(devices)'
  <2>1. \A i \in 2..4 : print[i] = Now'[i]
    BY <1>3 DEF Marks
  <2>2. \A i \in 2..4 : print[i] \in Nat /\ Now[i] \in Nat /\ Now'[i] \in Nat /\ print[i] <= Now[i] /\ Now[i] <= Now'[i]
    BY <1>1, <1>3 DEF Earlier, FourNumbers
  <2>3. \A i \in 2..4 : print[i] = Now[i]
    BY <2>1, <2>2
  <2>4. Marks(print) = Marks(Now)
    BY <2>3 DEF Marks
  <2>5. Graph(inventory', snaps') = Graph(inventory, snaps)
    BY <1>0, <1>3, <2>4
  <2>6. ASSUME NEW devices, StillTrue(devices) PROVE StillTrue(devices)'
    BY <2>5, <2>6, SameGraph DEF StillTrue
  <2> QED BY <2>4, <2>5, <2>6
<1>4. HeldBefore'
  BY <1>0, <1>2, <1>3 DEF HeldBefore
<1>5. ASSUME NEW r \in Asker PROVE AskedBefore(r)'
  BY <1>0, <1>2, <1>3 DEF AskedBefore
<1> QED BY <1>4, <1>5

LEMMA CommitKeeps ==
    ASSUME GInv, NEW w \in Writer, CommitChange(w) PROVE GInv'
<1>0. /\ GraphTypeOK /\ RowsLocked /\ Dated /\ Newer /\ Keyed /\ Rooted
      /\ UNCHANGED <<writes, asker, held>>
  BY DEF GInv, CommitChange
<1>1. /\ inventory' \in [Dev -> DeviceRow]
      /\ \A d \in Dev : inventory'[d] = IF d \in DOMAIN change[w].devices THEN change[w].devices[d] ELSE inventory[d]
      /\ snaps' \subseteq SnapRow /\ snaps' \subseteq snaps \cup change[w].snaps /\ IsFiniteSet(snaps')
      /\ DOMAIN change'[w].devices = {} /\ change'[w].snaps = {} /\ change'[w].devices \in Rows
      /\ \A v \in Writer : v # w => change'[v] = change[v]
  BY CommitRows
<1>2. GraphTypeOK'
  <2>1. passed' \in BOOLEAN
    BY <1>0 DEF CommitChange, GraphTypeOK
  <2>2. change' \in [Writer -> [devices : Rows, snaps : SUBSET SnapRow]]
    <3>1. NoChange \in [devices : Rows, snaps : SUBSET SnapRow]
      BY NoRows DEF NoChange
    <3> HIDE DEF Rows, SnapRow
    <3> QED BY <1>0, <3>1 DEF CommitChange, GraphTypeOK
  <2> QED BY <1>0, <1>1, <2>1, <2>2 DEF GraphTypeOK
<1>3. RowsLocked'
  BY <1>0, <1>1 DEF RowsLocked
<1>4. Dated'
  <2>1. \A d \in Dev : inventory'[d].updated <= writes
    BY <1>0, <1>1 DEF Dated
  <2>2. \A s \in snaps' : s.at <= writes
    BY <1>0, <1>1 DEF Dated
  <2> QED BY <1>0, <1>1, <2>1, <2>2 DEF Dated
<1>5. Newer'
  <2> SUFFICES ASSUME NEW v \in Writer, NEW d \in DOMAIN change'[v].devices
               PROVE  IF change'[v].devices[d].status = "none" THEN inventory'[d].status # "none"
                                                               ELSE inventory'[d].updated <= change'[v].devices[d].updated
    BY DEF Newer
  <2>1. v # w /\ change'[v] = change[v]
    BY <1>1
  <2>2. d \in Dev /\ d \notin DOMAIN change[w].devices
    BY <1>0, <2>1, RowsAre DEF RowsLocked, GraphTypeOK
  <2> QED BY <1>0, <1>1, <2>1, <2>2 DEF Newer
<1>6. Keyed'
  <2>1. ASSUME NEW s \in snaps', NEW t \in snaps', s.device = t.device, s.at = t.at PROVE s = t
    <3>1. CASE s \in change[w].snaps /\ t \in change[w].snaps
      BY <1>0, <3>1 DEF Keyed
    <3>2. CASE s \notin change[w].snaps /\ t \notin change[w].snaps
      BY <1>0, <1>1, <2>1, <3>2 DEF Keyed
    <3>3. CASE s \in change[w].snaps /\ t \notin change[w].snaps
      BY <2>1, <3>3 DEF CommitChange
    <3>4. CASE s \notin change[w].snaps /\ t \in change[w].snaps
      BY <2>1, <3>4 DEF CommitChange
    <3> QED BY <3>1, <3>2, <3>3, <3>4
  <2>2. \A v \in Writer : \A s, t \in change'[v].snaps : s = t
    BY <1>0, <1>1 DEF Keyed
  <2> QED BY <2>1, <2>2 DEF Keyed
<1>7. Rooted'
  <2>1. \A s \in snaps' : inventory'[s.device].status # "none"
    BY DEF CommitChange
  <2>2. ASSUME ~passed', NEW v \in Writer, NEW s \in change'[v].snaps PROVE inventory'[s.device].status # "none"
    <3>1. v # w /\ s \in change[v].snaps /\ s.device \in Dev
      BY <1>0, <1>1, <2>2 DEF GraphTypeOK, SnapRow
    <3>2. ~passed /\ \A d \in Dev : inventory[d].status # "none" => inventory'[d].status # "none"
      BY <2>2 DEF CommitChange
    <3> QED BY <1>0, <3>1, <3>2 DEF Rooted
  <2> QED BY <2>1, <2>2 DEF Rooted
<1>8. ~passed' => HeldBefore' /\ \A r \in Asker : AskedBefore(r)'
  BY <1>2, <1>4, CommitBehind
<1> QED BY <1>2, <1>3, <1>4, <1>5, <1>6, <1>7, <1>8 DEF GInv

LEMMA UndoKeeps ==
    ASSUME GInv, NEW w \in Writer, UndoChange(w) PROVE GInv'
<1>0. /\ GraphTypeOK /\ RowsLocked /\ Dated /\ Newer /\ Keyed /\ Rooted
      /\ UNCHANGED <<writes, inventory, snaps, asker, held, passed>>
  BY DEF GInv, UndoChange
<1>1. /\ change'[w] = NoChange /\ DOMAIN change'[w].devices = {} /\ change'[w].snaps = {}
      /\ \A v \in Writer : v # w => change'[v] = change[v]
  BY <1>0, NoRows DEF UndoChange, GraphTypeOK, NoChange
<1>2. GraphTypeOK'
  <2>1. NoChange \in [devices : Rows, snaps : SUBSET SnapRow]
    BY NoRows DEF NoChange
  <2> HIDE DEF Rows, SnapRow, DeviceRow, FourNumbers
  <2> QED BY <1>0, <2>1 DEF UndoChange, GraphTypeOK
<1>3. RowsLocked' /\ Newer'
  BY <1>0, <1>1 DEF RowsLocked, Newer
<1>4. Dated'
  BY <1>0, <1>1 DEF Dated
<1>5. Keyed' /\ Rooted'
  BY <1>0, <1>1 DEF Keyed, Rooted
<1>6. ~passed' => HeldBefore' /\ \A r \in Asker : AskedBefore(r)'
  <2>1. \A print : Earlier(print) => Earlier(print)'
    BY <1>0, StillNow
  <2>2. ~passed' => HeldBefore'
    BY <1>0, <2>1, StillNow DEF HeldBefore, GInv
  <2> QED BY <1>0, <2>2, UnreadKeeps DEF GInv
<1> QED BY <1>2, <1>3, <1>4, <1>5, <1>6 DEF GInv

\* What a request does in its own memory.
LEMMA AskerKeeps ==
    ASSUME GInv, Unwritten, NEW r \in Asker,
           NEW asking \in [step : {"idle", "asked", "reading"}, print : {<<>>} \cup FourNumbers, devices : {<<>>} \cup [Dev -> DeviceRow]],
           asker' = [asker EXCEPT ![r] = asking],
           ~passed => /\ asking.step # "idle" => Earlier(asking.print)
                      /\ asking.step = "reading" => StillTrue(asking.devices) \/ Marks(asking.print) # Marks(Now)
                      /\ HeldBefore'
    PROVE  GInv'
<1>0. /\ GraphTypeOK /\ RowsLocked /\ Dated /\ Newer /\ Keyed /\ Rooted
      /\ UNCHANGED <<writes, inventory, snaps, change, passed>>
  BY DEF GInv, Unwritten
<1>1. asker'[r] = asking /\ \A q \in Asker : q # r => asker'[q] = asker[q]
  BY <1>0 DEF GraphTypeOK
<1>2. GraphTypeOK'
  <2> HIDE DEF Rows, SnapRow, DeviceRow, FourNumbers
  <2> QED BY <1>0 DEF GraphTypeOK
<1>3. RowsLocked' /\ Newer' /\ Dated'
  BY <1>0 DEF RowsLocked, Newer, Dated
<1>4. Keyed' /\ Rooted'
  BY <1>0 DEF Keyed, Rooted
<1>5. ASSUME ~passed', NEW q \in Asker PROVE AskedBefore(q)'
  <2>1. ~passed /\ AskedBefore(q) /\ Now' = Now
    BY <1>0, <1>5, StillNow DEF GInv
  <2>2. \A print : Earlier(print) => Earlier(print)'
    BY <1>0, StillNow
  <2>3. \A devices : StillTrue(devices) => StillTrue(devices)'
    BY <1>0, StillNow
  <2>4. CASE q = r
    BY <1>1, <2>1, <2>2, <2>3, <2>4 DEF AskedBefore
  <2>5. CASE q # r
    BY <1>1, <2>1, <2>2, <2>3, <2>5 DEF AskedBefore
  <2> QED BY <2>4, <2>5
<1> QED BY <1>0, <1>2, <1>3, <1>4, <1>5 DEF GInv

\* The cache is left as it is.
LEMMA HeldStays ==
    ASSUME GInv, Unwritten, UNCHANGED held, ~passed PROVE HeldBefore'
<1>1. \A print : Earlier(print) => Earlier(print)'
  BY StillNow DEF Unwritten
<1> QED BY <1>1, StillNow DEF HeldBefore, GInv, Unwritten

LEMMA AskKeeps ==
    ASSUME GInv, NEW r \in Asker, Ask(r) PROVE GInv'
<1> DEFINE asking == [step |-> "asked", print |-> Now, devices |-> <<>>]
<1>1. Now \in FourNumbers
  BY PrintNow DEF GInv
<1>2. asking \in [step : {"idle", "asked", "reading"}, print : {<<>>} \cup FourNumbers, devices : {<<>>} \cup [Dev -> DeviceRow]]
  <2> HIDE DEF FourNumbers, DeviceRow
  <2> QED BY <1>1
<1>3. Earlier(Now)
  BY <1>1 DEF Earlier, FourNumbers
<1>4. asker' = [asker EXCEPT ![r] = asking]
  BY DEF Ask, Now
<1>5. asking.step = "asked" /\ asking.print = Now
  OBVIOUS
<1>6. Unwritten /\ UNCHANGED held
  BY DEF Ask
<1> HIDE DEF asking
<1> QED BY <1>2, <1>3, <1>4, <1>5, <1>6, HeldStays, AskerKeeps

LEMMA HitKeeps ==
    ASSUME GInv, NEW r \in Asker, Hit(r) PROVE GInv'
<1>1. NoAsker \in [step : {"idle", "asked", "reading"}, print : {<<>>} \cup FourNumbers, devices : {<<>>} \cup [Dev -> DeviceRow]]
  BY DEF NoAsker
<1>2. NoAsker.step = "idle" /\ asker' = [asker EXCEPT ![r] = NoAsker] /\ Unwritten /\ UNCHANGED held
  BY DEF NoAsker, Hit
<1> QED BY <1>1, <1>2, HeldStays, AskerKeeps

LEMMA ReadKeeps ==
    ASSUME GInv, NEW r \in Asker, ReadDevices(r) PROVE GInv'
<1> DEFINE asking == [step |-> "reading", print |-> asker[r].print, devices |-> inventory]
<1>1. /\ asker[r] \in [step : {"idle", "asked", "reading"}, print : {<<>>} \cup FourNumbers, devices : {<<>>} \cup [Dev -> DeviceRow]]
      /\ inventory \in [Dev -> DeviceRow] /\ asker[r].step = "asked" /\ (~passed => AskedBefore(r))
  BY DEF GInv, GraphTypeOK, ReadDevices
<1>2. asking \in [step : {"idle", "asked", "reading"}, print : {<<>>} \cup FourNumbers, devices : {<<>>} \cup [Dev -> DeviceRow]]
  <2> HIDE DEF FourNumbers, DeviceRow
  <2> QED BY <1>1
<1>3. ~passed => Earlier(asking.print)
  BY <1>1 DEF AskedBefore
<1>4. StillTrue(asking.devices)
  BY <1>1 DEF StillTrue
<1>5. asker' = [asker EXCEPT ![r] = asking] /\ Unwritten /\ UNCHANGED held
  BY DEF ReadDevices
<1> HIDE DEF asking
<1> QED BY <1>2, <1>3, <1>4, <1>5, HeldStays, AskerKeeps

\* Devices that would make the same graph make it.
LEMMA SameNodes ==
    ASSUME NEW devices, StillTrue(devices) PROVE Graph(devices, snaps) = Graph(inventory, snaps)
<1>1. {x \in Dev : InEstate(x, devices)} = {x \in Dev : InEstate(x, inventory)}
  BY DEF StillTrue
<1>2. ASSUME NEW d \in {x \in Dev : InEstate(x, inventory)} PROVE Node(d, devices, snaps) = Node(d, inventory, snaps)
  BY DEF StillTrue, Node
<1> QED BY <1>1, <1>2 DEF Graph

LEMMA PutKeeps ==
    ASSUME GInv, NEW r \in Asker, BuildAndPut(r) PROVE GInv'
<1>1. /\ NoAsker \in [step : {"idle", "asked", "reading"}, print : {<<>>} \cup FourNumbers, devices : {<<>>} \cup [Dev -> DeviceRow]]
      /\ NoAsker.step = "idle"
  BY DEF NoAsker
<1>2. /\ asker' = [asker EXCEPT ![r] = NoAsker] /\ Unwritten /\ asker[r].step = "reading"
      /\ held' = [print |-> asker[r].print, graph |-> Graph(asker[r].devices, snaps)]
  BY DEF BuildAndPut
<1>3. ASSUME ~passed PROVE HeldBefore'
  <2>0. PICK print, devices : print = asker[r].print /\ devices = asker[r].devices
    OBVIOUS
  <2>1. Earlier(print) /\ (Marks(print) = Marks(Now) => StillTrue(devices))
    BY <1>2, <1>3, <2>0 DEF GInv, AskedBefore
  <2>2. held'.print = print /\ held'.graph = Graph(devices, snaps)
    BY <1>2, <2>0
  <2>3. Earlier(print)'
    BY <1>2, <2>1, StillNow DEF Unwritten
  <2>4. Marks(print) = Marks(Now)' => held'.graph = Graph(inventory, snaps)'
    <3>1. Now' = Now /\ Graph(inventory, snaps)' = Graph(inventory, snaps)
      BY <1>2, StillNow DEF Unwritten
    <3>2. Marks(print) = Marks(Now) => held'.graph = Graph(inventory, snaps)
      BY <2>1, <2>2, SameNodes
    <3> QED BY <3>1, <3>2
  <2> QED BY <2>2, <2>3, <2>4 DEF HeldBefore
<1> QED BY <1>1, <1>2, <1>3, AskerKeeps

LEMMA GraphInitInv == GraphInit => GInv
<1> SUFFICES ASSUME GraphInit PROVE GInv
  OBVIOUS
<1>1. /\ writes = 1 /\ passed = FALSE /\ held = NothingHeld /\ snaps = {}
      /\ change = [w \in Writer |-> NoChange] /\ asker = [r \in Asker |-> NoAsker]
      /\ inventory = [d \in Dev |-> [status |-> "active", content |-> 0, updated |-> 1]]
  BY DEF GraphInit
<1>2. NoChange \in [devices : Rows, snaps : SUBSET SnapRow] /\ DOMAIN NoChange.devices = {} /\ NoChange.snaps = {}
  BY NoRows DEF NoChange
<1>3. NoAsker \in [step : {"idle", "asked", "reading"}, print : {<<>>} \cup FourNumbers, devices : {<<>>} \cup [Dev -> DeviceRow]]
  BY DEF NoAsker
<1>4. inventory \in [Dev -> DeviceRow]
  BY <1>1 DEF DeviceRow
<1>5. GraphTypeOK
  <2> HIDE DEF Rows, SnapRow, DeviceRow, FourNumbers
  <2> QED BY <1>1, <1>2, <1>3, <1>4, FS_EmptySet DEF GraphTypeOK
<1>6. RowsLocked /\ Newer /\ Dated
  BY <1>1, <1>2 DEF RowsLocked, Newer, Dated
<1>7. Keyed /\ Rooted
  BY <1>1, <1>2 DEF Keyed, Rooted
<1>8. HeldBefore /\ \A r \in Asker : AskedBefore(r)
  BY <1>1 DEF HeldBefore, AskedBefore, NoAsker
<1> QED BY <1>5, <1>6, <1>7, <1>8 DEF GInv

LEMMA GraphStutter ==
    ASSUME GInv, UNCHANGED graphVars PROVE GInv'
<1>0. /\ GraphTypeOK /\ RowsLocked /\ Dated /\ Newer /\ Keyed /\ Rooted
      /\ UNCHANGED <<writes, inventory, snaps, change, asker, held, passed>>
  BY DEF GInv, graphVars
<1>1. GraphTypeOK'
  <2> HIDE DEF Rows, SnapRow, DeviceRow, FourNumbers
  <2> QED BY <1>0 DEF GraphTypeOK
<1>2. RowsLocked' /\ Newer' /\ Dated'
  BY <1>0 DEF RowsLocked, Newer, Dated
<1>3. Keyed' /\ Rooted'
  BY <1>0 DEF Keyed, Rooted
<1>4. ~passed' => HeldBefore' /\ \A r \in Asker : AskedBefore(r)'
  <2>1. ~passed' => HeldBefore'
    BY <1>0, HeldStays DEF Unwritten
  <2> QED BY <1>0, <2>1, UnreadKeeps DEF GInv
<1> QED BY <1>1, <1>2, <1>3, <1>4 DEF GInv

\* Types and locks of the rows the topology graph is built from, and that what
\* requests have asked for and what is held is behind the database or true to it,
\* hold in every state.
THEOREM GraphInductive == GraphSpec => []GInv
<1>1. ASSUME GInv, [GraphNext]_graphVars PROVE GInv'
  <2>1. CASE \E w \in Writer : CommitChange(w) \/ UndoChange(w)
    BY <1>1, <2>1, CommitKeeps, UndoKeeps
  <2>2. CASE \E w \in Writer, d \in Dev : EditDevice(w, d) \/ Collect(w, d) \/ Upload(w, d)
    BY <1>1, <2>2, EditKeeps, CollectKeeps, UploadKeeps
  <2>3. CASE \E r \in Asker : Ask(r) \/ Hit(r) \/ ReadDevices(r) \/ BuildAndPut(r)
    BY <1>1, <2>3, AskKeeps, HitKeeps, ReadKeeps, PutKeeps
  <2>4. CASE UNCHANGED graphVars
    BY <1>1, <2>4, GraphStutter
  <2> QED BY <1>1, <2>1, <2>2, <2>3, <2>4 DEF GraphNext
<1> QED BY <1>1, GraphInitInv, PTL DEF GraphSpec

\* The topology graph served from memory is the one a rebuild would give, for any
\* number of devices, transactions and requests, until a commit changes the graph
\* and no mark of the fingerprint or deletes a device (TopologyService.graph).
THEOREM ServedGraphIsCurrent == GraphSpec => []HeldIsCurrent
<1>1. GInv => HeldIsCurrent
  <2> SUFFICES ASSUME GInv, ~passed, held.print = Now PROVE held.graph = Graph(inventory, snaps)
    BY DEF HeldIsCurrent, Now
  <2>1. Now # <<>>
    <3>1. \A a, b, c, d : <<a, b, c, d>> # <<>>
      OBVIOUS
    <3>2. GraphTypeOK /\ Dated
      BY DEF GInv
    <3> QED BY <3>1, <3>2, PrintNow
  <2>2. held # NothingHeld
    BY <2>1 DEF NothingHeld
  <2> QED BY <2>2 DEF GInv, HeldBefore
<1> QED BY <1>1, GraphInductive, PTL
-----------------------------------------------------------------------------
(* Administrators. *)
Deed == {"nothing", "create", "activate", "deactivate", "delete", "grant", "revoke"}

AccountTypeOK ==
    /\ account \in [Account -> {"none", "active", "inactive"}]
    /\ super \subseteq Account
    /\ request \in [Account -> [does : Deed, to : SUBSET Account]]
    /\ overlapped \in BOOLEAN

\* A request that does not overlap with another finds the state it checked: an
\* active administrator other than whom it takes the role or the account from.
StillAllowed(by) ==
    \E b \in super : account[b] = "active" /\ (request[by].does \in {"deactivate", "delete", "revoke"} => b \notin request[by].to)

AccountInv ==
    /\ AccountTypeOK
    /\ ~overlapped => /\ \E a \in super : account[a] = "active"
                      /\ \A b, c \in Account : request[b] # NoRequest /\ request[c] # NoRequest => b = c
                      /\ \A by \in Account : request[by] # NoRequest => StillAllowed(by)

LEMMA AccountInitInv == AccountInit => AccountInv
<1> SUFFICES ASSUME AccountInit PROVE AccountInv
  OBVIOUS
<1>1. NoRequest \in [does : Deed, to : SUBSET Account]
  BY DEF NoRequest, Deed
<1>2. AccountTypeOK /\ \A a \in Account : request[a] = NoRequest
  BY <1>1, AccountAssumption DEF AccountInit, AccountTypeOK, AccountAssumption
<1>3. \E a \in super : account[a] = "active"
  BY AccountAssumption DEF AccountInit, AccountAssumption
<1> QED BY <1>2, <1>3 DEF AccountInv

\* A request that passed its checks against an administrator who is not its object.
LEMMA AsksKeeps ==
    ASSUME AccountInv, NEW by \in Account, NEW does \in Deed, NEW a \in Account, Asks(by, does, a),
           ~overlapped /\ does \in {"deactivate", "delete", "revoke"} => \E b \in super : b # a /\ account[b] = "active"
    PROVE  AccountInv'
<1>1. /\ AccountTypeOK /\ request[by] = NoRequest /\ UNCHANGED <<account, super>>
      /\ request' = [request EXCEPT ![by] = [does |-> does, to |-> {a}]]
      /\ overlapped' = (overlapped \/ \E b \in Account : request[b] # NoRequest)
  BY DEF AccountInv, Asks
<1>2. AccountTypeOK'
  BY <1>1 DEF AccountTypeOK
<1>3. ASSUME ~overlapped'
      PROVE  /\ \A b, c \in Account : request'[b] # NoRequest /\ request'[c] # NoRequest => b = c
             /\ \A b \in Account : request'[b] # NoRequest => b = by
  BY <1>1, <1>3 DEF AccountTypeOK
<1>4. ASSUME ~overlapped' PROVE \E b \in super' : account'[b] = "active"
  BY <1>1, <1>4 DEF AccountInv
<1>5. ASSUME ~overlapped' PROVE StillAllowed(by)'
  <2>1. request'[by].does = does /\ request'[by].to = {a}
    BY <1>1 DEF AccountTypeOK
  <2>2. ~overlapped
    BY <1>1, <1>5
  <2> QED BY <1>1, <2>1, <2>2 DEF StillAllowed, AccountInv
<1> QED BY <1>2, <1>3, <1>4, <1>5 DEF AccountInv

\* What a request commits takes away nobody it was not checked against.
LEMMA CommitsKeeps ==
    ASSUME AccountInv, NEW by \in Account, Commits(by) PROVE AccountInv'
<1> DEFINE does == request[by].does
           to == {a \in request[by].to : does = "create" \/ account[a] # "none"}
<1>1. AccountTypeOK /\ request[by] # NoRequest /\ UNCHANGED overlapped /\ does \in Deed /\ to \subseteq request[by].to
      /\ request' = [request EXCEPT ![by] = NoRequest] /\ request[by].to \subseteq Account
  BY DEF AccountInv, Commits, AccountTypeOK
<1>2. /\ account' = [a \in Account |->
                IF a \notin to THEN account[a]
                ELSE CASE does \in {"create", "activate"} -> "active"
                       [] does = "deactivate" -> "inactive"
                       [] does = "delete" -> "none"
                       [] OTHER -> account[a]]
      /\ super' = IF does = "grant" THEN super \cup to ELSE IF does \in {"revoke", "delete"} THEN super \ to ELSE super
  BY DEF Commits
<1>3. ASSUME ~overlapped PROVE \E b \in super' : account'[b] = "active"
  <2>1. PICK b \in super : account[b] = "active" /\ (does \in {"deactivate", "delete", "revoke"} => b \notin request[by].to)
    BY <1>1, <1>3 DEF AccountInv, StillAllowed
  <2>2. b \in Account
    BY <1>1 DEF AccountTypeOK
  <2> HIDE DEF does, to
  <2>3. b \in super'
    BY <1>1, <1>2, <2>1
  <2>4. account'[b] = "active"
    BY <1>1, <1>2, <2>1, <2>2 DEF Deed
  <2> QED BY <2>3, <2>4
<1>4. AccountTypeOK'
  <2>1. NoRequest \in [does : Deed, to : SUBSET Account]
    BY DEF NoRequest, Deed
  <2> HIDE DEF does, to
  <2>2. account' \in [Account -> {"none", "active", "inactive"}]
    BY <1>1, <1>2 DEF AccountTypeOK
  <2>3. super' \subseteq Account
    BY <1>1, <1>2 DEF AccountTypeOK
  <2> QED BY <1>1, <2>1, <2>2, <2>3 DEF AccountTypeOK
<1>5. ASSUME ~overlapped, NEW b \in Account PROVE request'[b] = NoRequest
  BY <1>1, <1>5 DEF AccountInv, AccountTypeOK
<1> QED BY <1>1, <1>3, <1>4, <1>5 DEF AccountInv

LEMMA AccountInductive == AccountSpec => []AccountInv
<1>1. ASSUME AccountInv, [AccountNext]_accountVars PROVE AccountInv'
  <2>1. ASSUME NEW by \in Account, NEW a \in Account,
               AskCreate(by, a) \/ AskActivate(by, a) \/ AskGrant(by, a)
        PROVE  AccountInv'
    <3>1. CASE AskCreate(by, a)
      BY <1>1, <3>1, AsksKeeps DEF AskCreate, Deed
    <3>2. CASE AskActivate(by, a)
      BY <1>1, <3>2, AsksKeeps DEF AskActivate, Deed
    <3>3. CASE AskGrant(by, a)
      BY <1>1, <3>3, AsksKeeps DEF AskGrant, Deed
    <3> QED BY <2>1, <3>1, <3>2, <3>3
  <2>2. ASSUME NEW by \in Account, NEW a \in Account,
               AskDeactivate(by, a) \/ AskDelete(by, a) \/ AskRevoke(by, a)
        PROVE  AccountInv'
    <3>1. ASSUME ~overlapped PROVE \E b \in super : b # a /\ account[b] = "active"
      <4>1. RemovalAllowed(a)
        BY <2>2 DEF AskDeactivate, AskDelete, AskRevoke
      <4>2. PICK c \in super : account[c] = "active"
        BY <1>1, <3>1 DEF AccountInv
      <4> QED BY <4>1, <4>2 DEF RemovalAllowed, OthersRemain
    <3>2. CASE AskDeactivate(by, a)
      BY <1>1, <3>1, <3>2, AsksKeeps DEF AskDeactivate, Deed
    <3>3. CASE AskDelete(by, a)
      BY <1>1, <3>1, <3>3, AsksKeeps DEF AskDelete, Deed
    <3>4. CASE AskRevoke(by, a)
      BY <1>1, <3>1, <3>4, AsksKeeps DEF AskRevoke, Deed
    <3> QED BY <2>2, <3>2, <3>3, <3>4
  <2>3. CASE \E by \in Account : Commits(by)
    BY <1>1, <2>3, CommitsKeeps
  <2>4. CASE UNCHANGED accountVars
    BY <1>1, <2>4 DEF AccountInv, AccountTypeOK, accountVars, StillAllowed
  <2> QED BY <1>1, <2>1, <2>2, <2>3, <2>4 DEF AccountNext
<1> QED BY <1>1, AccountInitInv, PTL DEF AccountSpec
-----------------------------------------------------------------------------
(* The tree of groups. *)
Paths == UNION {[G -> Seq(Group)] : G \in SUBSET Group}

\* What a request is about to write.
Pending == [on : BOOLEAN, group : Group \cup {NoGroup}, parent : Group \cup {NoGroup}, paths : Paths]

GroupTypeOK ==
    /\ parent \in [Group -> Group \cup {NoGroup}]
    /\ path \in [Group -> Seq(Group)]
    /\ pending \in [GroupRequest -> Pending]
    /\ mixed \in BOOLEAN

\* A tree of which each group holds its way from the top.
Tree == \A g \in Group : Exists(g) => /\ path[g] = PathFor(g, parent[g])
                                      /\ parent[g] # NoGroup => Exists(parent[g])

\* What a request would write now.
Fits(g, p, paths) ==
    /\ p # NoGroup => Exists(p)
    /\ \/ ~Exists(g) /\ paths = [h \in {g} |-> PathFor(g, p)]
       \/ Exists(g) /\ ~Beneath(p, g) /\ paths = Rewritten(g, PathFor(g, p))

\* What a request that overlaps with no other is about to write, it would write now.
StillFits(r) == \E g \in Group, p \in Group \cup {NoGroup}, paths \in Paths :
    pending[r] = [on |-> TRUE, group |-> g, parent |-> p, paths |-> paths] /\ Fits(g, p, paths)

GroupInv ==
    /\ GroupTypeOK
    /\ ~mixed => /\ Tree
                 /\ \A q, r \in GroupRequest : pending[q].on /\ pending[r].on => q = r
                 /\ \A r \in GroupRequest : pending[r].on => StillFits(r)

\* A prefix, element by element.
LEMMA PrefixIs ==
    ASSUME NEW S, NEW s \in Seq(S), NEW t \in Seq(S)
    PROVE  IsPrefix(s, t) <=> Len(s) <= Len(t) /\ \A i \in 1 .. Len(s) : s[i] = t[i]
<1>1. CASE Len(s) <= Len(t)
  <2>1. /\ Len(s) \in Nat /\ Len(t) \in Nat /\ \A i \in 1 .. Len(s) : s[i] \in S /\ t[i] \in S
    BY <1>1, LenProperties, ElementOfSeq
  <2>2. /\ SubSeq(s, 1, Len(s)) \in Seq(S) /\ SubSeq(t, 1, Len(s)) \in Seq(S)
        /\ Len(SubSeq(s, 1, Len(s))) = Len(s) /\ Len(SubSeq(t, 1, Len(s))) = Len(s)
        /\ \A i \in 1 .. Len(s) : SubSeq(s, 1, Len(s))[i] = s[i] /\ SubSeq(t, 1, Len(s))[i] = t[i]
    <3> DEFINE n == Len(s)
    <3> HIDE DEF n
    <3>1. n \in Nat /\ \A i \in 1 .. n : s[i] \in S /\ t[i] \in S
      BY <2>1 DEF n
    <3>2. /\ SubSeq(s, 1, n) \in Seq(S) /\ SubSeq(t, 1, n) \in Seq(S)
          /\ Len(SubSeq(s, 1, n)) = (IF 1 <= n THEN n - 1 + 1 ELSE 0)
          /\ Len(SubSeq(t, 1, n)) = (IF 1 <= n THEN n - 1 + 1 ELSE 0)
          /\ \A i \in 1 .. n - 1 + 1 : SubSeq(s, 1, n)[i] = s[1 + i - 1]
          /\ \A i \in 1 .. n - 1 + 1 : SubSeq(t, 1, n)[i] = t[1 + i - 1]
      BY <3>1, SubSeqProperties
    <3>3. Len(SubSeq(s, 1, n)) = n /\ Len(SubSeq(t, 1, n)) = n
      BY <3>1, <3>2
    <3>4. \A i \in 1 .. n : i \in 1 .. n - 1 + 1 /\ 1 + i - 1 = i
      BY <3>1
    <3> QED BY <3>2, <3>3, <3>4 DEF n
  <2>3. (\A i \in 1 .. Len(s) : s[i] = t[i]) => SubSeq(s, 1, Len(s)) = SubSeq(t, 1, Len(s))
    BY <2>2, SeqEqual
  <2>4. SubSeq(s, 1, Len(s)) = SubSeq(t, 1, Len(s)) => \A i \in 1 .. Len(s) : s[i] = t[i]
    BY <2>2, Zenon
  <2> QED BY <1>1, <2>3, <2>4 DEF IsPrefix
<1>2. CASE ~(Len(s) <= Len(t))
  BY <1>2 DEF IsPrefix
<1> QED BY <1>1, <1>2

\* A prefix of a sequence is one of the sequence with one more element.
LEMMA PrefixOfAppend ==
    ASSUME NEW S, NEW s \in Seq(S), NEW t \in Seq(S), NEW x \in S
    PROVE  IsPrefix(s, Append(t, x)) <=> IsPrefix(s, t) \/ s = Append(t, x)
<1> PICK u \in Seq(S) : u = Append(t, x)
  BY AppendProperties
<1>1. /\ Len(s) \in Nat /\ Len(t) \in Nat /\ Len(u) = Len(t) + 1
      /\ \A i \in 1 .. Len(t) : u[i] = t[i]
  BY AppendProperties, LenProperties
<1>2. /\ IsPrefix(s, u) <=> Len(s) <= Len(u) /\ \A i \in 1 .. Len(s) : s[i] = u[i]
      /\ IsPrefix(s, t) <=> Len(s) <= Len(t) /\ \A i \in 1 .. Len(s) : s[i] = t[i]
  <2>1. ASSUME NEW v \in Seq(S) PROVE IsPrefix(s, v) <=> Len(s) <= Len(v) /\ \A i \in 1 .. Len(s) : s[i] = v[i]
    BY PrefixIs
  <2> QED BY <2>1
<1>3. CASE Len(s) <= Len(t)
  <2>1. \A i \in 1 .. Len(s) : i \in 1 .. Len(t)
    BY <1>1, <1>3
  <2>2. s # u
    BY <1>1, <1>3
  <2> QED BY <1>1, <1>2, <1>3, <2>1, <2>2
<1>4. CASE Len(s) = Len(t) + 1
  <2>1. IsPrefix(s, u) => s = u
    BY <1>1, <1>2, <1>4, SeqEqual
  <2>2. s = u => IsPrefix(s, u)
    BY <1>1, <1>2
  <2>3. ~IsPrefix(s, t)
    BY <1>1, <1>2, <1>4
  <2> QED BY <2>1, <2>2, <2>3
<1>5. CASE Len(s) > Len(t) + 1
  <2>1. ~IsPrefix(s, u) /\ ~IsPrefix(s, t) /\ s # u
    BY <1>1, <1>2, <1>5
  <2> QED BY <2>1
<1> QED BY <1>1, <1>3, <1>4, <1>5

\* The end of a sequence with one more element.
LEMMA EndOfAppend ==
    ASSUME NEW S, NEW t \in Seq(S), NEW x \in S, NEW m \in 1 .. Len(t) + 1
    PROVE  SubSeq(Append(t, x), m, Len(t) + 1) = SubSeq(t, m, Len(t)) \o <<x>>
<1> PICK u \in Seq(S) : u = Append(t, x)
  BY AppendProperties
<1>1. Len(t) \in Nat /\ Len(u) = Len(t) + 1 /\ u[Len(t) + 1] = x
  BY AppendProperties, LenProperties
<1>2. SubSeq(u, m, Len(t) + 1) = SubSeq(u, m, Len(t)) \o <<x>>
  <2>1. m \in 1 .. Len(u) /\ Len(u) \in m .. Len(u) /\ Len(u) - 1 = Len(t)
    BY <1>1
  <2>2. SubSeq(u, m, Len(u)) = SubSeq(u, m, Len(u) - 1) \o <<u[Len(u)]>>
    BY <2>1, SubSeqRecursiveSecond
  <2> QED BY <1>1, <2>1, <2>2
<1>3. SubSeq(u, m, Len(t)) = SubSeq(t, m, Len(t))
  <2>1. CASE m <= Len(t)
    <3>1. m \in 1 .. Len(t) /\ Len(t) \in 1 .. Len(t) /\ <<x>> \in Seq(S)
      BY <1>1, <2>1
    <3>2. SubSeq(t \o <<x>>, m, Len(t)) = SubSeq(t, m, Len(t))
      BY <3>1, SubSeqOfConcat1
    <3> QED BY <3>2, AppendIsConcat
  <2>2. CASE ~(m <= Len(t))
    <3>1. m \in Int /\ Len(t) \in Int /\ Len(t) < m
      BY <1>1, <2>2
    <3>2. SubSeq(u, m, Len(t)) = <<>> /\ SubSeq(t, m, Len(t)) = <<>>
      BY <3>1, SubSeqEmpty
    <3> QED BY <3>2
  <2> QED BY <2>1, <2>2
<1> QED BY <1>2, <1>3

\* What is below the prefix s, below new instead.
Onto(new, s, t) == new \o SubSeq(t, Len(s) + 1, Len(t))

LEMMA OntoType ==
    ASSUME NEW S, NEW s \in Seq(S), NEW t \in Seq(S), NEW new \in Seq(S), new # <<>>
    PROVE  Onto(new, s, t) \in Seq(S) \ {<<>>}
<1>1. Len(s) \in Nat /\ Len(t) \in Nat /\ \A i \in 1 .. Len(t) : t[i] \in S
  BY LenProperties, ElementOfSeq
<1>2. Len(s) + 1 \in Int /\ Len(t) \in Int /\ \A i \in Len(s) + 1 .. Len(t) : t[i] \in S
  BY <1>1
<1> PICK rest \in Seq(S) : rest = SubSeq(t, Len(s) + 1, Len(t))
  BY <1>2, SubSeqProperties
<1>3. new \o rest \in Seq(S) /\ new \o rest # <<>>
  BY ConcatProperties, ConcatEqualIffEmpty
<1> QED BY <1>3 DEF Onto

LEMMA OntoItself ==
    ASSUME NEW S, NEW s \in Seq(S), NEW new \in Seq(S)
    PROVE  Onto(new, s, s) = new
<1>1. Len(s) \in Nat /\ Len(s) + 1 \in Int /\ Len(s) \in Int /\ Len(s) < Len(s) + 1
  BY LenProperties
<1>2. SubSeq(s, Len(s) + 1, Len(s)) = <<>>
  BY <1>1, SubSeqEmpty
<1> QED BY <1>2, ConcatEmptySeq DEF Onto

Then(a, b) == a \o b
And(a, x) == Append(a, x)

LEMMA AppendInside ==
    ASSUME NEW S, NEW a \in Seq(S), NEW b \in Seq(S), NEW x \in S
    PROVE  And(Then(a, b), x) = Then(a, And(b, x))
<1> PICK u \in Seq(S) : u = a \o b
  BY ConcatProperties
<1> PICK v \in Seq(S) : v = Append(b, x)
  BY AppendProperties
<1> PICK l \in Seq(S) : l = Append(u, x)
  BY AppendProperties
<1> PICK r \in Seq(S) : r = a \o v
  BY ConcatProperties
<1>1. /\ Len(a) \in Nat /\ Len(b) \in Nat
      /\ Len(u) = Len(a) + Len(b) /\ \A i \in 1 .. Len(a) + Len(b) : u[i] = IF i <= Len(a) THEN a[i] ELSE b[i - Len(a)]
      /\ Len(v) = Len(b) + 1 /\ v[Len(b) + 1] = x /\ \A i \in 1 .. Len(b) : v[i] = b[i]
      /\ Len(l) = Len(u) + 1 /\ l[Len(u) + 1] = x /\ \A i \in 1 .. Len(u) : l[i] = u[i]
      /\ Len(r) = Len(a) + Len(v) /\ \A i \in 1 .. Len(a) + Len(v) : r[i] = IF i <= Len(a) THEN a[i] ELSE v[i - Len(a)]
  <2>1. Len(a) \in Nat /\ Len(b) \in Nat
    BY LenProperties
  <2>2. Len(u) = Len(a) + Len(b) /\ \A i \in 1 .. Len(a) + Len(b) : u[i] = IF i <= Len(a) THEN a[i] ELSE b[i - Len(a)]
    BY ConcatProperties
  <2>3. Len(v) = Len(b) + 1 /\ v[Len(b) + 1] = x /\ \A i \in 1 .. Len(b) : v[i] = b[i]
    BY AppendProperties
  <2>4. Len(l) = Len(u) + 1 /\ l[Len(u) + 1] = x /\ \A i \in 1 .. Len(u) : l[i] = u[i]
    BY AppendProperties
  <2>5. Len(r) = Len(a) + Len(v) /\ \A i \in 1 .. Len(a) + Len(v) : r[i] = IF i <= Len(a) THEN a[i] ELSE v[i - Len(a)]
    BY ConcatProperties
  <2> QED BY <2>1, <2>2, <2>3, <2>4, <2>5
<1>2. ASSUME NEW i \in 1 .. Len(a) + Len(b) + 1 PROVE l[i] = r[i]
  <2>1. CASE i <= Len(a)
    BY <1>1, <2>1
  <2>2. CASE i > Len(a) /\ i <= Len(a) + Len(b)
    <3>1. i - Len(a) \in 1 .. Len(b) /\ i \in 1 .. Len(a) + Len(b) /\ ~(i <= Len(a)) /\ i \in 1 .. Len(a) + Len(v)
      BY <1>1, <2>2
    <3> QED BY <3>1
  <2>3. CASE i = Len(a) + Len(b) + 1
    <3>1. i - Len(a) = Len(b) + 1 /\ ~(i <= Len(a)) /\ i \in 1 .. Len(a) + Len(v) /\ i = Len(u) + 1
      BY <1>1, <2>3
    <3> QED BY <3>1
  <2> QED BY <1>1, <2>1, <2>2, <2>3
<1>3. Len(l) = Len(a) + Len(b) + 1 /\ Len(r) = Len(a) + Len(b) + 1
  BY <1>1
<1>4. l = r
  BY <1>2, <1>3, SeqEqual
<1> QED BY <1>4 DEF Then, And

\* A group below another stays below its parent.
LEMMA OntoAppend ==
    ASSUME NEW S, NEW s \in Seq(S), NEW t \in Seq(S), NEW x \in S, NEW new \in Seq(S), IsPrefix(s, t)
    PROVE  Onto(new, s, Append(t, x)) = Append(Onto(new, s, t), x)
<1>1. Len(s) \in Nat /\ Len(t) \in Nat /\ Len(s) <= Len(t) /\ Len(Append(t, x)) = Len(t) + 1 /\ \A i \in 1 .. Len(t) : t[i] \in S
  BY LenProperties, PrefixIs, ElementOfSeq, AppendProperties
<1>2. Len(s) + 1 \in 1 .. Len(t) + 1 /\ Len(s) + 1 \in Int /\ Len(t) \in Int /\ \A i \in Len(s) + 1 .. Len(t) : t[i] \in S
  BY <1>1
<1> DEFINE rest == SubSeq(t, Len(s) + 1, Len(t))
<1>6. rest \in Seq(S)
  BY <1>2, SubSeqProperties
<1>3. SubSeq(Append(t, x), Len(s) + 1, Len(Append(t, x))) = rest \o <<x>>
  BY <1>1, <1>2, EndOfAppend
<1> HIDE DEF rest
<1>4. rest \o <<x>> = Append(rest, x)
  BY <1>6, AppendIsConcat
<1>5. Append(new \o rest, x) = new \o Append(rest, x)
  <2>1. And(Then(new, rest), x) = Then(new, And(rest, x))
    BY <1>6, AppendInside
  <2> QED BY <2>1 DEF And, Then
<1> QED BY <1>3, <1>4, <1>5 DEF Onto, rest

\* The way to a group's parent.
Above(p) == IF p = NoGroup THEN <<>> ELSE path[p]

LEMMA PathIs ==
    ASSUME GroupTypeOK, NEW g \in Group, NEW p \in Group \cup {NoGroup}
    PROVE  /\ Above(p) \in Seq(Group) /\ PathFor(g, p) = Append(Above(p), g)
           /\ PathFor(g, p) \in Seq(Group) \ {<<>>}
<1>1. Above(p) \in Seq(Group)
  BY DEF GroupTypeOK, Above
<1>2. PathFor(g, p) = Above(p) \o <<g>>
  BY DEF PathFor, Above
<1> QED BY <1>1, <1>2, AppendIsConcat, AppendProperties

\* What a move makes of the paths.
LEMMA MovedPaths ==
    ASSUME GroupTypeOK, NEW g \in Group, NEW new \in Seq(Group), new # <<>>,
           path' = [h \in Group |-> IF h \in DOMAIN Rewritten(g, new) THEN Rewritten(g, new)[h] ELSE path[h]]
    PROVE  /\ path' \in [Group -> Seq(Group)]
           /\ \A h \in Group : Exists(h) <=> path'[h] # <<>>
           /\ \A h \in Group : path'[h] = IF Exists(h) /\ IsPrefix(path[g], path[h])
                                          THEN Onto(new, path[g], path[h]) ELSE path[h]
<1>1. \A h \in Group : path'[h] = IF Exists(h) /\ IsPrefix(path[g], path[h])
                                  THEN Onto(new, path[g], path[h]) ELSE path[h]
  BY DEF Rewritten, Onto
<1>2. ASSUME NEW h \in Group PROVE path'[h] \in Seq(Group) /\ (Exists(h) <=> path'[h] # <<>>)
  <2>1. path[g] \in Seq(Group) /\ path[h] \in Seq(Group)
    BY DEF GroupTypeOK
  <2>2. Onto(new, path[g], path[h]) \in Seq(Group) \ {<<>>}
    BY <2>1, OntoType
  <2> QED BY <1>1, <2>1, <2>2 DEF Exists
<1>3. path' \in [Group -> Seq(Group)]
  BY <1>2
<1> QED BY <1>1, <1>2, <1>3

\* Moving a group with all below it leaves a tree.
LEMMA MoveTree ==
    ASSUME GroupTypeOK, Tree, NEW g \in Group, NEW p \in Group \cup {NoGroup}, Exists(g),
           p # NoGroup => Exists(p), ~Beneath(p, g), parent' = [parent EXCEPT ![g] = p],
           path' = [h \in Group |-> IF h \in DOMAIN Rewritten(g, PathFor(g, p)) THEN Rewritten(g, PathFor(g, p))[h] ELSE path[h]]
    PROVE  path' \in [Group -> Seq(Group)] /\ Tree'
<1> PICK new \in Seq(Group) : new = PathFor(g, p) /\ new # <<>> /\ new = Append(Above(p), g)
  BY PathIs
<1>1. path \in [Group -> Seq(Group)] /\ parent \in [Group -> Group \cup {NoGroup}]
  BY DEF GroupTypeOK
<1>2. /\ path' \in [Group -> Seq(Group)]
      /\ \A h \in Group : Exists(h) <=> path'[h] # <<>>
      /\ \A h \in Group : path'[h] = IF Exists(h) /\ IsPrefix(path[g], path[h])
                                     THEN Onto(new, path[g], path[h]) ELSE path[h]
  BY MovedPaths
<1>3. ASSUME NEW h \in Group, Exists(h)
      PROVE  /\ Above(parent[h]) \in Seq(Group) /\ path[h] = Append(Above(parent[h]), h)
             /\ parent[h] # NoGroup => Exists(parent[h])
  BY <1>1, <1>3, PathIs DEF Tree
\* The group itself goes below its new parent.
<1>4. path'[g] = Append(Above(p)', g)
  <2>1. IsPrefix(path[g], path[g])
    BY <1>1, PrefixIs, LenProperties
  <2>2. path'[g] = new
    BY <1>1, <1>2, <2>1, OntoItself
  <2>3. p # NoGroup => path'[p] = path[p]
    BY <1>2 DEF Beneath
  <2> QED BY <2>2, <2>3 DEF Above
\* The others stay below theirs.
<1>5. ASSUME NEW h \in Group, h # g, Exists(h) PROVE path'[h] = Append(IF parent[h] = NoGroup THEN <<>> ELSE path'[parent[h]], h)
  <2> PICK up \in Seq(Group) : up = Above(parent[h])
    BY <1>3, <1>5
  <2>1. path[h] = Append(up, h) /\ path[g] # path[h]
    <3> PICK ug \in Seq(Group) : path[g] = Append(ug, g)
      BY <1>3
    <3> QED BY <1>3, <1>5, AppendInjective
  <2>2. IsPrefix(path[g], path[h]) <=> IsPrefix(path[g], up)
    BY <1>1, <2>1, PrefixOfAppend
  <2>3. CASE parent[h] = NoGroup
    <3>1. up = <<>> /\ ~IsPrefix(path[g], up)
      <4>1. up = <<>> /\ Len(up) = 0
        BY <2>3 DEF Above
      <4>2. path[g] \in Seq(Group) /\ path[g] # <<>>
        BY <1>1 DEF Exists
      <4>3. Len(path[g]) \in Nat \ {0}
        BY <4>2, EmptySeq
      <4>4. IsPrefix(path[g], up) => Len(path[g]) <= Len(up)
        BY <4>2, PrefixIs
      <4> QED BY <4>1, <4>3, <4>4
    <3> QED BY <1>2, <2>1, <2>2, <2>3, <3>1
  <2>4. CASE parent[h] # NoGroup
    <3>1. parent[h] \in Group /\ Exists(parent[h]) /\ up = path[parent[h]]
      BY <1>1, <1>3, <1>5, <2>4 DEF Above
    <3>2. CASE IsPrefix(path[g], up)
      <4>1. path'[h] = Onto(new, path[g], path[h]) /\ path'[parent[h]] = Onto(new, path[g], up)
        BY <1>2, <1>5, <2>1, <2>2, <3>1, <3>2
      <4>2. path[g] \in Seq(Group)
        BY <1>1
      <4>3. ASSUME NEW a \in Seq(Group), NEW b \in Seq(Group), NEW c \in Seq(Group), IsPrefix(a, b)
            PROVE  Onto(c, a, Append(b, h)) = Append(Onto(c, a, b), h)
        BY <4>3, OntoAppend
      <4>6. Onto(new, path[g], Append(up, h)) = Append(Onto(new, path[g], up), h)
        BY <3>2, <4>2, <4>3
      <4>5. Onto(new, path[g], path[h]) = Append(Onto(new, path[g], up), h)
        BY <2>1, <4>6
      <4> QED BY <2>4, <4>1, <4>5
    <3>3. CASE ~IsPrefix(path[g], up)
      BY <1>2, <2>1, <2>2, <2>4, <3>1, <3>3
    <3> QED BY <3>2, <3>3
  <2> QED BY <2>3, <2>4
<1>7. ASSUME NEW h \in Group, NEW q \in Group \cup {NoGroup} PROVE PathFor(h, q)' = Append(Above(q)', h)
  <2>2. Above(q)' \in Seq(Group)
    <3>1. CASE q = NoGroup
      BY <3>1 DEF Above
    <3>2. CASE q # NoGroup
      <4>1. q \in Group /\ path'[q] \in Seq(Group)
        BY <1>2, <3>2
      <4> QED BY <3>2, <4>1 DEF Above
    <3> QED BY <3>1, <3>2
  <2> PICK up \in Seq(Group) : up = Above(q)'
    BY <2>2
  <2>1. PathFor(h, q)' = up \o <<h>>
    BY DEF PathFor, Above
  <2> QED BY <2>1, AppendIsConcat
<1>6. ASSUME NEW h \in Group, Exists(h)'
      PROVE  path'[h] = PathFor(h, parent[h])' /\ (parent'[h] # NoGroup => Exists(parent[h])')
  <2>1. Exists(h)
    BY <1>2, <1>6 DEF Exists
  <2>2. CASE h = g
    <3>1. parent'[h] = p
      BY <1>1, <2>2
    <3>2. p # NoGroup => path'[p] # <<>>
      BY <1>2
    <3> QED BY <1>4, <1>7, <2>2, <3>1, <3>2 DEF Exists
  <2>3. CASE h # g
    <3>1. parent'[h] = parent[h] /\ parent[h] \in Group \cup {NoGroup} /\ (parent[h] # NoGroup => Exists(parent[h]))
      BY <1>1, <1>3, <2>1, <2>3
    <3>2. parent[h] # NoGroup => path'[parent[h]] # <<>>
      BY <1>2, <3>1
    <3> QED BY <1>5, <1>7, <2>1, <2>3, <3>1, <3>2 DEF Exists, Above
  <2> QED BY <2>2, <2>3
<1> QED BY <1>2, <1>6 DEF Tree

\* A new group below one that exists leaves a tree.
LEMMA CreateTree ==
    ASSUME GroupTypeOK, Tree, NEW g \in Group, NEW p \in Group \cup {NoGroup}, ~Exists(g),
           p # NoGroup => Exists(p), parent' = [parent EXCEPT ![g] = p],
           path' \in [Group -> Seq(Group)], path'[g] = PathFor(g, p), \A h \in Group \ {g} : path'[h] = path[h]
    PROVE  path' \in [Group -> Seq(Group)] /\ Tree'
<1> PICK new \in Seq(Group) : new = PathFor(g, p) /\ new # <<>>
  BY PathIs
<1>1. path \in [Group -> Seq(Group)] /\ parent \in [Group -> Group \cup {NoGroup}] /\ NoGroup \notin Group
  BY GroupAssumption DEF GroupTypeOK, GroupAssumption
<1>2. path'[g] = new /\ \A h \in Group \ {g} : path'[h] = path[h]
  OBVIOUS
\* Nobody's parent is the new group, and the others keep their paths.
<1>4. ASSUME NEW h \in Group, NEW q \in Group \cup {NoGroup}, q # NoGroup => Exists(q)
      PROVE  PathFor(h, q)' = PathFor(h, q) /\ (q # NoGroup => Exists(q)')
  <2>1. q # NoGroup => q \in Group /\ q # g
    BY <1>4
  <2>2. q # NoGroup => path'[q] = path[q]
    BY <1>2, <2>1
  <2> QED BY <1>4, <2>2 DEF PathFor, Exists
<1>5. ASSUME NEW h \in Group, Exists(h)'
      PROVE  path'[h] = PathFor(h, parent[h])' /\ (parent'[h] # NoGroup => Exists(parent[h])')
  <2>1. CASE h = g
    <3>1. parent'[h] = p /\ path'[h] = new
      BY <1>1, <1>2, <2>1
    <3>2. PathFor(h, p)' = PathFor(h, p) /\ (p # NoGroup => Exists(p)')
      BY <1>4
    <3> QED BY <2>1, <3>1, <3>2 DEF PathFor, Exists
  <2>2. CASE h # g
    <3>1. parent'[h] = parent[h] /\ path'[h] = path[h] /\ parent[h] \in Group \cup {NoGroup}
      BY <1>1, <1>2, <2>2
    <3>2. Exists(h)
      BY <1>5, <3>1 DEF Exists
    <3>3. path[h] = PathFor(h, parent[h]) /\ (parent[h] # NoGroup => Exists(parent[h]))
      BY <3>2 DEF Tree
    <3> PICK q \in Group \cup {NoGroup} : q = parent[h]
      BY <3>1
    <3>4. PathFor(h, q)' = PathFor(h, q) /\ (q # NoGroup => Exists(q)')
      BY <1>4, <3>3
    <3> QED BY <3>1, <3>3, <3>4 DEF PathFor, Exists
  <2> QED BY <2>1, <2>2
<1> QED BY <1>5 DEF Tree

LEMMA GroupInitInv == GroupInit => GroupInv
<1> SUFFICES ASSUME GroupInit PROVE GroupInv
  OBVIOUS
<1>1. <<>> \in Seq(Group) /\ NoWrite.on = FALSE
  BY DEF NoWrite
<1>2. NoWrite \in Pending
  <2>1. [g \in {} |-> <<>>] \in [{} -> Seq(Group)]
    OBVIOUS
  <2>2. [g \in {} |-> <<>>] \in UNION {[G -> Seq(Group)] : G \in SUBSET Group}
    BY <2>1
  <2> QED BY <2>2 DEF NoWrite, Pending, Paths
<1>3. GroupTypeOK
  BY <1>1, <1>2 DEF GroupInit, GroupTypeOK
<1>4. \A g \in Group : ~Exists(g)
  BY DEF GroupInit, Exists
<1>5. \A r \in GroupRequest : ~pending[r].on
  BY <1>1 DEF GroupInit
<1> QED BY <1>3, <1>4, <1>5 DEF GroupInv, Tree

LEMMA FitsStays ==
    ASSUME NEW g \in Group, NEW p \in Group \cup {NoGroup}, NEW paths \in Paths, UNCHANGED path, Fits(g, p, paths)
    PROVE  Fits(g, p, paths)'
<1>1. Exists(g)' = Exists(g) /\ (p # NoGroup => Exists(p)') /\ Beneath(p, g)' = Beneath(p, g)
  BY DEF Fits, Exists, Beneath
<1>2. CASE Exists(g)
  <2>1. PathFor(g, p)' = PathFor(g, p)
    BY DEF PathFor
  <2>2. Rewritten(g, PathFor(g, p))' = Rewritten(g, PathFor(g, p))
    BY DEF PathFor, Rewritten, Exists
  <2> QED BY <1>1, <1>2, <2>2 DEF Fits
<1>3. CASE ~Exists(g)
  <2>1. paths = [h \in {g} |-> PathFor(g, p)]
    BY <1>3 DEF Fits
  <2>2. (paths = [h \in {g} |-> PathFor(g, p)])'
    BY <2>1 DEF PathFor
  <2> QED BY <1>1, <1>3, <2>2 DEF Fits
<1> QED BY <1>2, <1>3

\* A request that writes what fits the tree it read.
LEMMA WritesKeeps ==
    ASSUME GroupInv, NEW r \in GroupRequest, NEW g \in Group, NEW p \in Group \cup {NoGroup},
           NEW paths \in Paths, Writes(r, g, p, paths), Fits(g, p, paths)
    PROVE  GroupInv'
<1>1. /\ GroupTypeOK /\ UNCHANGED <<parent, path>>
      /\ pending' = [pending EXCEPT ![r] = [on |-> TRUE, group |-> g, parent |-> p, paths |-> paths]]
      /\ mixed' = (mixed \/ \E q \in GroupRequest \ {r} : pending[q].on)
  BY DEF GroupInv, Writes
<1>2. [on |-> TRUE, group |-> g, parent |-> p, paths |-> paths] \in Pending
  BY DEF Pending
<1>3. GroupTypeOK'
  BY <1>1, <1>2 DEF GroupTypeOK
<1>4. /\ pending'[r] = [on |-> TRUE, group |-> g, parent |-> p, paths |-> paths]
      /\ \A q \in GroupRequest \ {r} : pending'[q] = pending[q]
  BY <1>1 DEF GroupTypeOK
<1>5. ASSUME ~mixed' PROVE Tree'
  BY <1>1, <1>5 DEF GroupInv, Tree, Exists, PathFor
<1>6. ASSUME ~mixed', NEW q \in GroupRequest, pending'[q].on PROVE q = r
  BY <1>1, <1>4, <1>6
<1>7. StillFits(r)'
  <2>1. Fits(g, p, paths)'
    BY <1>1, FitsStays
  <2> QED BY <1>4, <2>1 DEF StillFits
<1> QED BY <1>3, <1>5, <1>6, <1>7 DEF GroupInv

\* What is committed leaves a tree, unless it was computed from another.
LEMMA CommitMoveKeeps ==
    ASSUME GroupInv, NEW r \in GroupRequest, CommitMove(r) PROVE GroupInv'
<1>1. /\ GroupTypeOK /\ pending[r].on /\ pending[r] \in Pending
      /\ parent' = [parent EXCEPT ![pending[r].group] = pending[r].parent]
      /\ path' = [g \in Group |-> IF g \in DOMAIN pending[r].paths THEN pending[r].paths[g] ELSE path[g]]
      /\ pending' = [pending EXCEPT ![r] = NoWrite] /\ UNCHANGED mixed
  BY DEF GroupInv, GroupTypeOK, CommitMove
<1>2. /\ pending[r].parent \in Group \cup {NoGroup} /\ \E G \in SUBSET Group : pending[r].paths \in [G -> Seq(Group)]
  BY <1>1 DEF Pending, Paths
<1>3. path' \in [Group -> Seq(Group)]
  BY <1>1, <1>2 DEF GroupTypeOK
<1>4. parent' \in [Group -> Group \cup {NoGroup}]
  BY <1>1, <1>2 DEF GroupTypeOK
<1>5. NoWrite \in Pending /\ ~NoWrite.on
  <2>1. [g \in {} |-> <<>>] \in [{} -> Seq(Group)]
    OBVIOUS
  <2>2. [g \in {} |-> <<>>] \in UNION {[G -> Seq(Group)] : G \in SUBSET Group}
    BY <2>1
  <2> QED BY <2>2 DEF NoWrite, Pending, Paths
<1>6. GroupTypeOK'
  BY <1>1, <1>3, <1>4, <1>5 DEF GroupTypeOK
<1>7. ASSUME ~mixed PROVE Tree'
  <2> PICK g \in Group, p \in Group \cup {NoGroup}, paths \in Paths :
         pending[r] = [on |-> TRUE, group |-> g, parent |-> p, paths |-> paths] /\ Fits(g, p, paths)
    BY <1>1, <1>7 DEF GroupInv, StillFits
  <2>1. /\ parent' = [parent EXCEPT ![g] = p] /\ Tree /\ (p # NoGroup => Exists(p))
        /\ path' = [h \in Group |-> IF h \in DOMAIN paths THEN paths[h] ELSE path[h]]
    BY <1>1, <1>7 DEF GroupInv, Fits
  <2>2. CASE ~Exists(g) /\ paths = [h \in {g} |-> PathFor(g, p)]
    <3>1. path'[g] = PathFor(g, p) /\ \A h \in Group \ {g} : path'[h] = path[h]
      BY <2>1, <2>2
    <3> QED BY <1>1, <1>3, <2>1, <2>2, <3>1, CreateTree
  <2>3. CASE Exists(g) /\ ~Beneath(p, g) /\ paths = Rewritten(g, PathFor(g, p))
    BY <1>1, <2>1, <2>3, MoveTree
  <2> QED BY <2>2, <2>3 DEF Fits
<1>8. ASSUME ~mixed, NEW q \in GroupRequest, pending'[q].on PROVE FALSE
  <2>1. q # r /\ pending[q].on
    BY <1>1, <1>5, <1>8 DEF GroupTypeOK
  <2> QED BY <1>1, <1>8, <2>1 DEF GroupInv
<1> QED BY <1>1, <1>6, <1>7, <1>8 DEF GroupInv

LEMMA GroupStep == GroupInv /\ [GroupNext]_groupVars => GroupInv'
<1> SUFFICES ASSUME GroupInv, [GroupNext]_groupVars PROVE GroupInv'
  OBVIOUS
<1>1. GroupTypeOK
  BY DEF GroupInv
<1>2. ASSUME NEW r \in GroupRequest, UndoMove(r) PROVE GroupInv'
  <2>1. pending' = [pending EXCEPT ![r] = NoWrite] /\ UNCHANGED <<parent, path, mixed>>
    BY <1>2 DEF UndoMove
  <2>2. NoWrite \in Pending /\ ~NoWrite.on
    <3>1. [g \in {} |-> <<>>] \in [{} -> Seq(Group)]
      OBVIOUS
    <3>2. [g \in {} |-> <<>>] \in UNION {[G -> Seq(Group)] : G \in SUBSET Group}
      BY <3>1
    <3> QED BY <3>2 DEF NoWrite, Pending, Paths
  <2>3. GroupTypeOK'
    BY <1>1, <2>1, <2>2 DEF GroupTypeOK
  <2>4. \A q \in GroupRequest : pending'[q].on => pending'[q] = pending[q]
    BY <1>1, <2>1, <2>2 DEF GroupTypeOK
  <2>5. Tree => Tree'
    BY <2>1 DEF Tree, Exists, PathFor
  <2>6. ASSUME NEW q \in GroupRequest, pending'[q] = pending[q], StillFits(q) PROVE StillFits(q)'
    BY <2>1, <2>6, FitsStays DEF StillFits
  <2> QED BY <2>1, <2>3, <2>4, <2>5, <2>6 DEF GroupInv
<1>3. ASSUME NEW r \in GroupRequest, NEW g \in Group, NEW p \in Group \cup {NoGroup}, CreateGroup(r, g, p) PROVE GroupInv'
  <2>1. PathFor(g, p) \in Seq(Group)
    BY <1>1, PathIs
  <2>2. [h \in {g} |-> PathFor(g, p)] \in Paths
    <3>1. [h \in {g} |-> PathFor(g, p)] \in [{g} -> Seq(Group)] /\ {g} \in SUBSET Group
      BY <2>1
    <3> QED BY <3>1 DEF Paths
  <2>3. Fits(g, p, [h \in {g} |-> PathFor(g, p)])
    BY <1>3 DEF CreateGroup, Fits
  <2> QED BY <1>3, <2>2, <2>3, WritesKeeps DEF CreateGroup
<1>4. ASSUME NEW r \in GroupRequest, NEW g \in Group, NEW p \in Group \cup {NoGroup}, MoveGroup(r, g, p) PROVE GroupInv'
  <2> PICK new \in Seq(Group) : new = PathFor(g, p) /\ new # <<>>
    BY <1>1, PathIs
  <2> DEFINE G == {h \in Group : Exists(h) /\ IsPrefix(path[g], path[h])}
  <2>1. Rewritten(g, new) = [h \in G |-> Onto(new, path[g], path[h])]
    BY DEF Rewritten, Onto
  <2>2. \A h \in G : Onto(new, path[g], path[h]) \in Seq(Group)
    <3>1. ASSUME NEW h \in G PROVE Onto(new, path[g], path[h]) \in Seq(Group)
      <4>1. path[g] \in Seq(Group) /\ path[h] \in Seq(Group)
        BY <1>1 DEF GroupTypeOK
      <4> QED BY <4>1, OntoType
    <3> QED BY <3>1
  <2>3. Rewritten(g, new) \in Paths
    <3>1. G \in SUBSET Group
      OBVIOUS
    <3> HIDE DEF G
    <3>2. Rewritten(g, new) \in [G -> Seq(Group)]
      BY <2>1, <2>2
    <3> QED BY <3>1, <3>2 DEF Paths
  <2>4. Fits(g, p, Rewritten(g, PathFor(g, p)))
    BY <1>4 DEF MoveGroup, Fits
  <2> QED BY <1>4, <2>3, <2>4, WritesKeeps DEF MoveGroup
<1>5. CASE UNCHANGED groupVars
  <2>1. GroupTypeOK' /\ (Tree => Tree')
    BY <1>1, <1>5 DEF groupVars, GroupTypeOK, Tree, Exists, PathFor
  <2>2. ASSUME NEW q \in GroupRequest, StillFits(q) PROVE StillFits(q)'
    BY <1>5, <2>2, FitsStays DEF groupVars, StillFits
  <2> QED BY <1>5, <2>1, <2>2 DEF groupVars, GroupInv
<1> QED BY <1>2, <1>3, <1>4, <1>5, CommitMoveKeeps DEF GroupNext

\* The paths of groups stay those of a tree while requests do not overlap.
THEOREM GroupInductive == GroupSpec => []GroupInv
<1> QED BY GroupInitInv, GroupStep, PTL DEF GroupSpec

\* After any number of requests that do not overlap, every group's path is its
\* parents' and an active administrator remains.
THEOREM DirectoryIsSafe == GroupSpec /\ AccountSpec => []DirectoryHolds
<1>1. GroupInv => PathsFollowParents
  BY DEF GroupInv, Tree, PathsFollowParents
<1>2. AccountInv => OneAdministratorRemains
  BY DEF AccountInv, OneAdministratorRemains
<1>3. PathsFollowParents /\ OneAdministratorRemains => DirectoryHolds
  BY DEF DirectoryHolds
<1> QED BY <1>1, <1>2, <1>3, GroupInductive, AccountInductive, PTL
-----------------------------------------------------------------------------
(***************************************************************************)
(* The pace towards a host: those that went hold slots an interval apart.  *)
(***************************************************************************)

\* Of two numbers.
LEMMA MaxOfTwo ==
    ASSUME NEW a \in Int, NEW b \in Int
    PROVE  /\ Max({a, b}) \in {a, b}
           /\ Max({a, b}) >= a /\ Max({a, b}) >= b
<1>1. \E m \in {a, b} : \A n \in {a, b} : m >= n
  <2>1. CASE a >= b
    BY <2>1
  <2>2. CASE b >= a
    BY <2>2
  <2> QED BY <2>1, <2>2
<1> QED BY <1>1 DEF Max

\* Which interval a moment falls in.
LEMMA IntervalOf ==
    ASSUME NEW d \in Nat \ {0}, NEW a \in Nat
    PROVE  a \div d \in Nat /\ (a \div d) * d <= a /\ a < (a \div d) * d + d
OBVIOUS

LEMMA LaterIntervals ==
    ASSUME NEW d \in Nat \ {0}, NEW c \in Nat, NEW b \in Nat \ {0}, NEW a \in Nat, a <= c + (b - 1) * d
    PROVE  a \div d <= (c \div d) + (b - 1)
<1> PICK q \in Nat : q = a \div d /\ q * d <= a
  BY IntervalOf
<1> PICK k \in Nat : k = c \div d /\ c < k * d + d
  BY IntervalOf
<1>1. ASSUME q >= k + b PROVE FALSE
  <2>1. q * d >= (k + b) * d
    BY <1>1
  <2>2. (k + b) * d = k * d + b * d /\ (b - 1) * d = b * d - d
    OBVIOUS
  <2>3. k * d \in Int /\ b * d \in Int /\ q * d \in Int
    OBVIOUS
  <2> QED BY <2>1, <2>2, <2>3
<1> QED BY <1>1

LEMMA IntervalsApart ==
    ASSUME NEW d \in Nat \ {0}, NEW a \in Nat, NEW b \in Nat, a + d <= b
    PROVE  a \div d # b \div d
<1> PICK q \in Nat : q = a \div d /\ q * d <= a
  BY IntervalOf
<1> PICK k \in Nat : k = b \div d /\ b < k * d + d
  BY IntervalOf
<1>1. q * d \in Int /\ k * d \in Int
  OBVIOUS
<1>2. q = k => q * d = k * d
  OBVIOUS
<1> QED BY <1>1, <1>2

PacerTypeOK ==
    /\ paceClock \in Nat /\ next_slot \in Int
    /\ slot \in [Probe -> Int] /\ asked \in [Probe -> Int] /\ departed \in [Probe -> Int]

\* A claimed slot is one interval from every other, and no further in the past
\* of the claim than the burst allows.
PacerInv ==
    /\ PacerTypeOK
    /\ \A p \in Probe : asked[p] # Never =>
        /\ 0 <= asked[p] /\ asked[p] <= paceClock
        /\ asked[p] - Tolerance <= slot[p] /\ slot[p] <= next_slot - Interval
    /\ \A p, q \in Probe : p # q /\ asked[p] # Never /\ asked[q] # Never =>
        slot[p] + Interval <= slot[q] \/ slot[q] + Interval <= slot[p]
    /\ \A p \in Probe : departed[p] # Never => asked[p] # Never /\ slot[p] <= paceClock

LEMMA BurstIs == Tolerance \in Nat /\ Interval \in Nat \ {0} /\ Burst \in Nat \ {0} /\ Never \in Int /\ Never < 0
<1>1. Burst - 1 \in Nat /\ Interval \in Nat
  BY PacerAssumption DEF PacerAssumption
<1>2. Tolerance \in Nat
  BY <1>1 DEF Tolerance
<1> HIDE DEF Tolerance
<1> QED BY <1>2, PacerAssumption DEF Never, PacerAssumption

\* Each claim is an interval after all before it.
LEMMA PacerInductive == PacerSpec => []PacerInv
<1> USE BurstIs
<1>1. PacerInit => PacerInv
  BY DEF PacerInit, PacerInv, PacerTypeOK
<1>2. ASSUME PacerInv, [PacerNext]_pacerVars PROVE PacerInv'
  <2>1. PacerTypeOK
    BY <1>2 DEF PacerInv
  <2>2. CASE PaceTick
    BY <1>2, <2>1, <2>2 DEF PaceTick, PacerInv, PacerTypeOK
  <2>3. ASSUME NEW r \in Probe, Acquire(r) PROVE PacerInv'
    <3> PICK at \in Int : at = SlotFor /\ at >= next_slot /\ at >= paceClock - Tolerance
      <4>1. next_slot \in Int /\ paceClock - Tolerance \in Int
        BY <2>1 DEF PacerTypeOK
      <4>2. /\ Max({next_slot, paceClock - Tolerance}) \in {next_slot, paceClock - Tolerance}
            /\ Max({next_slot, paceClock - Tolerance}) >= next_slot
            /\ Max({next_slot, paceClock - Tolerance}) >= paceClock - Tolerance
        BY <4>1, MaxOfTwo
      <4> QED BY <4>1, <4>2 DEF SlotFor
    <3>1. /\ asked[r] = Never /\ slot' = [slot EXCEPT ![r] = at] /\ next_slot' = at + Interval
          /\ asked' = [asked EXCEPT ![r] = paceClock] /\ UNCHANGED <<paceClock, departed>>
      BY <2>3 DEF Acquire
    <3>2. PacerTypeOK'
      BY <2>1, <3>1 DEF PacerTypeOK
    <3>3. /\ asked'[r] = paceClock /\ slot'[r] = at
          /\ \A p \in Probe : p # r => asked'[p] = asked[p] /\ slot'[p] = slot[p]
          /\ \A p \in Probe : slot[p] \in Int /\ asked[p] \in Int
      BY <2>1, <3>1 DEF PacerTypeOK
    <3>4. ASSUME NEW p \in Probe, asked'[p] # Never
          PROVE  /\ 0 <= asked'[p] /\ asked'[p] <= paceClock'
                 /\ asked'[p] - Tolerance <= slot'[p] /\ slot'[p] <= next_slot' - Interval
                 /\ p # r => slot'[p] + Interval <= at
      <4>1. CASE p = r
        BY <2>1, <3>1, <3>3, <4>1 DEF PacerTypeOK
      <4>2. CASE p # r
        BY <1>2, <2>1, <3>1, <3>3, <3>4, <4>2 DEF PacerInv, PacerTypeOK
      <4> QED BY <4>1, <4>2
    <3>5. ASSUME NEW p \in Probe, NEW q \in Probe, p # q, asked'[p] # Never, asked'[q] # Never
          PROVE  slot'[p] + Interval <= slot'[q] \/ slot'[q] + Interval <= slot'[p]
      BY <1>2, <3>3, <3>4, <3>5 DEF PacerInv
    <3>6. ASSUME NEW p \in Probe, departed'[p] # Never PROVE asked'[p] # Never /\ slot'[p] <= paceClock'
      BY <1>2, <3>1, <3>3, <3>6 DEF PacerInv
    <3> QED BY <3>2, <3>4, <3>5, <3>6 DEF PacerInv
  <2>4. ASSUME NEW r \in Probe, Depart(r) PROVE PacerInv'
    <3>1. /\ asked[r] # Never /\ slot[r] <= paceClock /\ departed' = [departed EXCEPT ![r] = paceClock]
          /\ UNCHANGED <<paceClock, next_slot, slot, asked>>
      BY <2>4 DEF Depart
    <3>2. PacerTypeOK'
      BY <2>1, <3>1 DEF PacerTypeOK
    <3>3. ASSUME NEW p \in Probe, departed'[p] # Never PROVE asked[p] # Never /\ slot[p] <= paceClock
      BY <1>2, <2>1, <3>1, <3>3 DEF PacerInv, PacerTypeOK
    <3> QED BY <1>2, <3>1, <3>2, <3>3 DEF PacerInv
  <2>5. CASE UNCHANGED pacerVars
    BY <1>2, <2>1, <2>5 DEF PacerInv, PacerTypeOK, pacerVars
  <2> QED BY <1>2, <2>2, <2>3, <2>4, <2>5 DEF PacerNext
<1> QED BY <1>1, <1>2, PTL DEF PacerSpec

\* Those that asked since s and went have slots in different intervals between s
\* less the burst and now.
LEMMA PaceHolds == PacerInv => PaceIsKept
<1> USE BurstIs
<1> SUFFICES ASSUME PacerInv, NEW s \in 0 .. paceClock
             PROVE  Cardinality({p \in Probe : asked[p] >= s /\ departed[p] # Never}) <= Burst + (paceClock - s) \div Interval
  BY DEF PaceIsKept
<1> DEFINE Went == {p \in Probe : asked[p] >= s /\ departed[p] # Never}
           f == [p \in Went |-> (slot[p] - (s - Tolerance)) \div Interval]
           last == ((paceClock - s) \div Interval) + (Burst - 1)
<1>1. PacerTypeOK /\ paceClock - s \in Nat
  BY DEF PacerInv, PacerTypeOK
<1>2. ASSUME NEW p \in Went
      PROVE  slot[p] - (s - Tolerance) \in Nat /\ slot[p] - (s - Tolerance) <= (paceClock - s) + (Burst - 1) * Interval
  <2>1. /\ asked[p] >= s /\ asked[p] - Tolerance <= slot[p] /\ slot[p] <= paceClock
        /\ slot[p] \in Int /\ asked[p] \in Int /\ paceClock \in Nat
    BY <1>1 DEF PacerInv, PacerTypeOK
  <2>2. slot[p] - (s - Tolerance) \in Nat /\ slot[p] - (s - Tolerance) <= (paceClock - s) + Tolerance
    BY <2>1
  <2> QED BY <2>2 DEF Tolerance
<1>3. last \in Nat
  BY <1>1, IntervalOf
<1>4. ASSUME NEW p \in Went PROVE f[p] \in 0 .. last
  <2> PICK a \in Nat : a = slot[p] - (s - Tolerance)
    BY <1>2
  <2>1. a \div Interval <= last /\ a \div Interval \in Nat
    BY <1>1, <1>2, LaterIntervals, IntervalOf
  <2> QED BY <1>3, <2>1
<1>5. ASSUME NEW p \in Went, NEW q \in Went, f[p] = f[q] PROVE p = q
  <2> PICK a \in Nat, b \in Nat : a = slot[p] - (s - Tolerance) /\ b = slot[q] - (s - Tolerance)
    BY <1>2
  <2>1. f[p] = a \div Interval /\ f[q] = b \div Interval
    OBVIOUS
  <2>2. asked[p] # Never /\ asked[q] # Never /\ slot[p] \in Int /\ slot[q] \in Int
    BY <1>1 DEF PacerInv, PacerTypeOK
  <2>3. p # q => a + Interval <= b \/ b + Interval <= a
    <3>1. p # q => slot[p] + Interval <= slot[q] \/ slot[q] + Interval <= slot[p]
      BY <2>2 DEF PacerInv
    <3> QED BY <2>2, <3>1
  <2> QED BY <1>5, <2>1, <2>3, IntervalsApart
<1> HIDE DEF f, last, Went
<1>6. f \in Injection(Went, 0 .. last)
  <2>1. f \in [Went -> 0 .. last]
    BY <1>4 DEF f
  <2> QED BY <1>5, <2>1, Fun_IsInj
<1>7. IsFiniteSet(0 .. last) /\ Cardinality(0 .. last) = last + 1
  BY <1>3, FS_Interval
<1>8. Cardinality(Went) <= last + 1
  BY <1>6, <1>7, FS_Injection
<1> QED BY <1>1, <1>8, IntervalOf DEF Went, last
-----------------------------------------------------------------------------
(***************************************************************************)
(* The page loop.                                                          *)
(***************************************************************************)

\* No rule twice.
Distinct(s) == \A i, j \in 1 .. Len(s) : s[i] = s[j] => i = j

\* What comes after m in s is not in m.
Ahead(s, m) == \A i \in 1 .. Len(s), j \in 1 .. Len(m) : i > Len(m) => s[i] # m[j]

\* While only deletions happen the walk skips rules but repeats none, and all there
\* was at the first page is at least what was read and what is there now.
PagingInv ==
    /\ removed = {} => added = {}
    /\ added = {} =>
        /\ policy \in Seq(ServedRule) /\ merged \in Seq(ServedRule) /\ offset \in Nat /\ pages \in Nat
        /\ Distinct(policy) /\ Distinct(merged)
        /\ walk = "reading" => offset = Len(merged) /\ Ahead(policy, merged)
        /\ pages = 0 => merged = <<>> /\ offset = 0 /\ walk = "reading" /\ announced = NotSaid
        /\ announced # NotSaid => announced \in Nat /\ Cardinality(ToSet(merged) \cup ToSet(policy)) <= announced
    /\ removed = {} =>
        /\ walk = "reading" => offset <= Len(policy) /\ \A i \in 1 .. offset : merged[i] = policy[i]
        /\ walk = "whole" /\ announced # NotSaid => merged = policy

\* The rules of a sequence, each counted once.
LEMMA DistinctCount ==
    ASSUME NEW S, NEW s \in Seq(S)
    PROVE  /\ IsFiniteSet(ToSet(s)) /\ ToSet(s) = {s[i] : i \in 1 .. Len(s)}
           /\ Distinct(s) => Cardinality(ToSet(s)) = Len(s)
<1>1. Len(s) \in Nat /\ DOMAIN s = 1 .. Len(s) /\ \A i \in 1 .. Len(s) : s[i] \in S
  BY LenProperties, ElementOfSeq
<1>2. ToSet(s) = {s[i] : i \in 1 .. Len(s)}
  BY <1>1 DEF ToSet
<1> DEFINE f == [i \in 1 .. Len(s) |-> s[i]]
<1>3. f \in Surjection(1 .. Len(s), ToSet(s))
  <2>1. f \in [1 .. Len(s) -> ToSet(s)] /\ \A x \in ToSet(s) : \E i \in 1 .. Len(s) : f[i] = x
    BY <1>2
  <2> QED BY <2>1, Fun_IsSurj
<1>4. IsFiniteSet(1 .. Len(s)) /\ Cardinality(1 .. Len(s)) = Len(s)
  <2>1. \A n \in Nat : IsFiniteSet(1 .. n) /\ Cardinality(1 .. n) = n
    BY FS_Interval
  <2> QED BY <1>1, <2>1
<1>5. /\ IsFiniteSet(ToSet(s))
      /\ Cardinality(ToSet(s)) = Cardinality(1 .. Len(s)) <=> f \in Injection(1 .. Len(s), ToSet(s))
  BY <1>3, <1>4, FS_Surjection
<1>6. Distinct(s) => f \in Injection(1 .. Len(s), ToSet(s))
  <2>1. f \in [1 .. Len(s) -> ToSet(s)]
    BY <1>2
  <2>2. Distinct(s) => \A i, j \in 1 .. Len(s) : f[i] = f[j] => i = j
    BY DEF Distinct
  <2> HIDE DEF f
  <2> QED BY <2>1, <2>2, Fun_IsInj
<1> QED BY <1>2, <1>4, <1>5, <1>6

\* A sequence without one of its elements.
LEMMA RemovedIs ==
    ASSUME NEW S, NEW s \in Seq(S), NEW i \in 1 .. Len(s)
    PROVE  /\ RemoveAt(s, i) \in Seq(S) /\ Len(RemoveAt(s, i)) = Len(s) - 1
           /\ \A j \in 1 .. Len(s) - 1 : RemoveAt(s, i)[j] = IF j < i THEN s[j] ELSE s[j + 1]
<1>1. Len(s) \in Nat /\ \A j \in 1 .. Len(s) : s[j] \in S
  BY LenProperties, ElementOfSeq
<1> DEFINE n == Len(s)
<1>2. /\ SubSeq(s, 1, i - 1) \in Seq(S) /\ Len(SubSeq(s, 1, i - 1)) = i - 1
      /\ \A j \in 1 .. i - 1 : SubSeq(s, 1, i - 1)[j] = s[j]
  <2>1. 1 \in Int /\ i - 1 \in Int /\ \A j \in 1 .. i - 1 : s[j] \in S
    BY <1>1
  <2>2. /\ SubSeq(s, 1, i - 1) \in Seq(S)
        /\ Len(SubSeq(s, 1, i - 1)) = (IF 1 <= i - 1 THEN i - 1 - 1 + 1 ELSE 0)
        /\ \A j \in 1 .. i - 1 - 1 + 1 : SubSeq(s, 1, i - 1)[j] = s[1 + j - 1]
    BY <2>1, SubSeqProperties
  <2>3. \A j \in 1 .. i - 1 : j \in 1 .. i - 1 - 1 + 1 /\ 1 + j - 1 = j
    BY <1>1
  <2>4. (IF 1 <= i - 1 THEN i - 1 - 1 + 1 ELSE 0) = i - 1
    BY <1>1
  <2> QED BY <2>2, <2>3, <2>4
<1>3. /\ SubSeq(s, i + 1, n) \in Seq(S) /\ Len(SubSeq(s, i + 1, n)) = n - i
      /\ \A j \in 1 .. n - i : SubSeq(s, i + 1, n)[j] = s[i + j]
  <2> HIDE DEF n
  <2>1. i + 1 \in Int /\ n \in Int /\ \A j \in i + 1 .. n : s[j] \in S
    BY <1>1 DEF n
  <2>2. /\ SubSeq(s, i + 1, n) \in Seq(S)
        /\ Len(SubSeq(s, i + 1, n)) = (IF i + 1 <= n THEN n - (i + 1) + 1 ELSE 0)
        /\ \A j \in 1 .. n - (i + 1) + 1 : SubSeq(s, i + 1, n)[j] = s[i + 1 + j - 1]
    BY <2>1, SubSeqProperties
  <2>3. \A j \in 1 .. n - i : j \in 1 .. n - (i + 1) + 1 /\ i + 1 + j - 1 = i + j
    BY <2>1
  <2>4. (IF i + 1 <= n THEN n - (i + 1) + 1 ELSE 0) = n - i
    BY <1>1 DEF n
  <2> QED BY <2>2, <2>3, <2>4
<1> DEFINE a == SubSeq(s, 1, i - 1)
           b == SubSeq(s, i + 1, n)
<1>4. RemoveAt(s, i) = a \o b
  BY DEF RemoveAt
<1>5. /\ a \in Seq(S) /\ Len(a) = i - 1 /\ \A j \in 1 .. i - 1 : a[j] = s[j]
      /\ b \in Seq(S) /\ Len(b) = n - i /\ \A j \in 1 .. n - i : b[j] = s[i + j]
  BY <1>2, <1>3
<1> HIDE DEF a, b
<1>6. /\ a \o b \in Seq(S) /\ Len(a \o b) = Len(a) + Len(b)
      /\ \A j \in 1 .. Len(a) + Len(b) : (a \o b)[j] = IF j <= Len(a) THEN a[j] ELSE b[j - Len(a)]
  BY <1>5, ConcatProperties
<1>7. ASSUME NEW j \in 1 .. n - 1 PROVE (a \o b)[j] = IF j < i THEN s[j] ELSE s[j + 1]
  <2>1. j \in 1 .. Len(a) + Len(b) /\ i \in Int /\ n \in Int
    BY <1>1, <1>5
  <2>2. CASE j < i
    <3>1. j \in 1 .. i - 1 /\ j <= Len(a)
      BY <1>5, <2>1, <2>2
    <3> QED BY <1>5, <1>6, <2>1, <2>2, <3>1
  <2>3. CASE ~(j < i)
    <3>1. j - Len(a) \in 1 .. n - i /\ ~(j <= Len(a)) /\ i + (j - Len(a)) = j + 1
      BY <1>5, <2>1, <2>3
    <3> QED BY <1>5, <1>6, <2>1, <2>3, <3>1
  <2> QED BY <2>2, <2>3
<1>8. Len(a) + Len(b) = n - 1
  BY <1>1, <1>5
<1> QED BY <1>4, <1>6, <1>7, <1>8

LEMMA PagingInitInv == PagingInit => PagingInv
<1> SUFFICES ASSUME PagingInit PROVE PagingInv
  OBVIOUS
<1>1. policy = SetToSeq(ServedRule) /\ merged = <<>> /\ offset = 0 /\ pages = 0 /\ announced = NotSaid /\ walk = "reading"
  BY DEF PagingInit
<1>2. Cardinality(ServedRule) \in Nat
  BY PagingAssumption, FS_CardinalityType DEF PagingAssumption
<1>3. \E f \in [1 .. Cardinality(ServedRule) -> ServedRule] : IsInjective(f)
  <2>1. ExistsBijection(1 .. Cardinality(ServedRule), ServedRule)
    BY PagingAssumption, FS_NatBijection, FS_CountingElements DEF PagingAssumption
  <2>2. PICK f \in Bijection(1 .. Cardinality(ServedRule), ServedRule) : TRUE
    BY <2>1 DEF ExistsBijection
  <2>3. f \in [1 .. Cardinality(ServedRule) -> ServedRule] /\ \A a, b \in 1 .. Cardinality(ServedRule) : f[a] = f[b] => a = b
    BY <2>2, Fun_BijectionProperties
  <2> QED BY <2>3 DEF IsInjective
<1>4. policy \in [1 .. Cardinality(ServedRule) -> ServedRule] /\ IsInjective(policy)
  <2>1. policy = CHOOSE f \in [1 .. Cardinality(ServedRule) -> ServedRule] : IsInjective(f)
    BY <1>1 DEF SetToSeq
  <2> QED BY <1>3, <2>1
<1>5. policy \in Seq(ServedRule)
  BY <1>2, <1>4
<1>6. Distinct(policy)
  BY <1>4, <1>5, LenProperties DEF Distinct, IsInjective
<1>7. merged \in Seq(ServedRule) /\ Len(merged) = 0 /\ Distinct(merged)
  BY <1>1 DEF Distinct
<1>8. removed = {} /\ added = {} /\ (announced # NotSaid => FALSE) /\ (walk = "whole" => FALSE) /\ Len(policy) \in Nat
  BY <1>1, <1>5, LenProperties DEF PagingInit
<1>9. Ahead(policy, merged) /\ (offset <= Len(policy) /\ \A i \in 1 .. offset : merged[i] = policy[i])
  BY <1>1, <1>7, <1>8 DEF Ahead
<1>10. offset \in Nat /\ pages \in Nat /\ offset = Len(merged)
  BY <1>1, <1>7
<1> QED BY <1>1, <1>5, <1>6, <1>7, <1>8, <1>9, <1>10 DEF PagingInv


\* The rules read so far and those up to a position.
Read(m, s, to) == m \o SubSeq(s, Len(m) + 1, to)
ReadsOn(r, m, s, to) == Len(r) = to /\ \A j \in 1 .. to : r[j] = IF j <= Len(m) THEN m[j] ELSE s[j]

LEMMA PageIs ==
    ASSUME NEW S, NEW s \in Seq(S), NEW m \in Seq(S), NEW to \in Nat, Len(m) <= to, to > Len(m) => to <= Len(s)
    PROVE  /\ Read(m, s, to) \in Seq(S) /\ ReadsOn(Read(m, s, to), m, s, to)
           /\ Len(SubSeq(s, Len(m) + 1, to)) = to - Len(m)
<1> PICK at \in Nat : at = Len(m)
  BY LenProperties
<1>1. Len(s) \in Nat /\ \A j \in 1 .. Len(s) : s[j] \in S
  BY LenProperties, ElementOfSeq
<1>2. at + 1 \in Int /\ to \in Int /\ \A j \in at + 1 .. to : s[j] \in S
  BY <1>1
<1>3. /\ SubSeq(s, at + 1, to) \in Seq(S)
      /\ Len(SubSeq(s, at + 1, to)) = (IF at + 1 <= to THEN to - (at + 1) + 1 ELSE 0)
      /\ \A j \in 1 .. to - (at + 1) + 1 : SubSeq(s, at + 1, to)[j] = s[at + 1 + j - 1]
  BY <1>2, SubSeqProperties
<1>4. \A j \in 1 .. to - at : j \in 1 .. to - (at + 1) + 1 /\ at + 1 + j - 1 = at + j
  OBVIOUS
<1>5. (IF at + 1 <= to THEN to - (at + 1) + 1 ELSE 0) = to - at
  OBVIOUS
<1> DEFINE b == SubSeq(s, at + 1, to)
<1>6. b \in Seq(S) /\ Len(b) = to - at /\ \A j \in 1 .. to - at : b[j] = s[at + j]
  BY <1>3, <1>4, <1>5
<1>7. Read(m, s, to) = m \o b
  BY DEF Read
<1> HIDE DEF b
<1>8. /\ m \o b \in Seq(S) /\ Len(m \o b) = Len(m) + Len(b)
      /\ \A j \in 1 .. Len(m) + Len(b) : (m \o b)[j] = IF j <= Len(m) THEN m[j] ELSE b[j - Len(m)]
  <2>1. ASSUME NEW c \in Seq(S)
        PROVE  /\ m \o c \in Seq(S) /\ Len(m \o c) = Len(m) + Len(c)
               /\ \A j \in 1 .. Len(m) + Len(c) : (m \o c)[j] = IF j <= Len(m) THEN m[j] ELSE c[j - Len(m)]
    BY ConcatProperties
  <2> QED BY <1>6, <2>1
<1>9. ASSUME NEW j \in 1 .. to PROVE (m \o b)[j] = IF j <= at THEN m[j] ELSE s[j]
  <2>1. j \in 1 .. Len(m) + Len(b)
    BY <1>6
  <2>2. ~(j <= at) => j - at \in 1 .. to - at /\ at + (j - at) = j
    OBVIOUS
  <2> QED BY <1>6, <1>8, <2>1, <2>2
<1>10. Len(SubSeq(s, Len(m) + 1, to)) = to - Len(m)
  BY <1>6 DEF b
<1>11. Len(m \o b) = to
  BY <1>6, <1>8
<1>12. \A j \in 1 .. to : (m \o b)[j] = IF j <= Len(m) THEN m[j] ELSE s[j]
  BY <1>9
<1>13. ReadsOn(m \o b, m, s, to)
  BY <1>11, <1>12 DEF ReadsOn
<1> QED BY <1>7, <1>8, <1>10, <1>13

\* A page of what is ahead repeats nothing, and leaves ahead what comes after it.
LEMMA PageRepeatsNothing ==
    ASSUME NEW S, NEW s \in Seq(S), NEW m \in Seq(S), NEW to \in Nat, Len(m) <= to, to > Len(m) => to <= Len(s),
           Distinct(s), Distinct(m), Ahead(s, m)
    PROVE  /\ Distinct(Read(m, s, to)) /\ Ahead(s, Read(m, s, to))
           /\ ToSet(Read(m, s, to)) \cup ToSet(s) = ToSet(m) \cup ToSet(s)
<1>9. Read(m, s, to) \in Seq(S) /\ ReadsOn(Read(m, s, to), m, s, to)
  BY PageIs
<1> PICK r \in Seq(S) : r = Read(m, s, to)
  BY <1>9
<1>6. Len(r) = to /\ \A j \in 1 .. to : r[j] = IF j <= Len(m) THEN m[j] ELSE s[j]
  BY <1>9 DEF ReadsOn
<1>7. \A i \in 1 .. Len(s), j \in 1 .. Len(m) : i > Len(m) => s[i] # m[j]
  BY DEF Ahead
<1>1. Len(s) \in Nat /\ Len(m) \in Nat
  BY LenProperties
<1>2. ASSUME NEW i \in 1 .. to, NEW j \in 1 .. to, i < j, r[i] = r[j] PROVE FALSE
  <2>1. CASE j <= Len(m)
    <3>1. i \in 1 .. Len(m) /\ j \in 1 .. Len(m) /\ m[i] = m[j]
      BY <1>1, <1>2, <1>6, <2>1
    <3> QED BY <1>2, <3>1 DEF Distinct
  <2>2. CASE j > Len(m) /\ i <= Len(m)
    <3>1. i \in 1 .. Len(m) /\ j \in 1 .. Len(s) /\ m[i] = s[j]
      BY <1>1, <1>2, <1>6, <2>2
    <3> QED BY <1>7, <2>2, <3>1
  <2>3. CASE i > Len(m)
    <3>1. i \in 1 .. Len(s) /\ j \in 1 .. Len(s) /\ s[i] = s[j]
      BY <1>1, <1>2, <1>6, <2>3
    <3> QED BY <1>2, <3>1 DEF Distinct
  <2> QED BY <1>1, <2>1, <2>2, <2>3
<1>3. Distinct(r)
  <2>1. \A i, j \in 1 .. to : r[i] = r[j] => ~(i < j) /\ ~(j < i)
    BY <1>2
  <2>2. \A i, j \in 1 .. to : ~(i < j) /\ ~(j < i) => i = j
    OBVIOUS
  <2> QED BY <1>6, <2>1, <2>2 DEF Distinct
<1>4. ASSUME NEW i \in 1 .. Len(s), NEW j \in 1 .. to, i > to, s[i] = r[j] PROVE FALSE
  <2>1. CASE j <= Len(m)
    <3>1. j \in 1 .. Len(m) /\ i > Len(m) /\ s[i] = m[j]
      BY <1>1, <1>4, <1>6, <2>1
    <3> QED BY <1>7, <3>1
  <2>2. CASE j > Len(m)
    <3>2. to > Len(m) /\ ~(j <= Len(m))
      BY <1>1, <2>2
    <3>3. r[j] = s[j] /\ to <= Len(s)
      BY <1>6, <3>2
    <3>1. j \in 1 .. Len(s) /\ s[i] = s[j] /\ i # j
      BY <1>1, <1>4, <3>3
    <3> QED BY <3>1 DEF Distinct
  <2> QED BY <1>1, <2>1, <2>2
<1>5. ToSet(r) \cup ToSet(s) = ToSet(m) \cup ToSet(s)
  <2>1. /\ ToSet(s) = {s[i] : i \in 1 .. Len(s)} /\ ToSet(m) = {m[i] : i \in 1 .. Len(m)} /\ ToSet(r) = {r[i] : i \in 1 .. Len(r)}
    BY DistinctCount
  <2>2. ASSUME NEW j \in 1 .. to PROVE r[j] \in ToSet(m) \cup ToSet(s)
    <3>1. CASE j <= Len(m)
      <4>1. j \in 1 .. Len(m) /\ r[j] = m[j]
        BY <1>1, <1>6, <3>1
      <4> QED BY <2>1, <4>1
    <3>2. CASE j > Len(m)
      <4>1. j \in 1 .. Len(s) /\ r[j] = s[j]
        BY <1>1, <1>6, <3>2
      <4> QED BY <2>1, <4>1
    <3>3. j <= Len(m) \/ j > Len(m)
      BY <1>1
    <3> QED BY <3>1, <3>2, <3>3
  <2>3. ASSUME NEW j \in 1 .. Len(m) PROVE m[j] \in ToSet(r)
    <3>1. j \in 1 .. Len(r) /\ r[j] = m[j]
      BY <1>1, <1>6
    <3> QED BY <2>1, <3>1
  <2> QED BY <1>6, <2>1, <2>2, <2>3
<1>8. Ahead(s, r)
  BY <1>4, <1>6 DEF Ahead
<1> QED BY <1>3, <1>5, <1>8

\* A page brings what is ahead, and the last page all there is.
LEMMA PageKeeps ==
    ASSUME PagingInv, added = {}, walk = "reading", UNCHANGED <<policy, added, removed>>,
           NEW to \in Nat, NEW total \in {NotSaid, Len(policy)}, offset <= to, to > offset => to <= Len(policy),
           pages > 0 => (total = NotSaid <=> announced = NotSaid), merged' = Read(merged, policy, to),
           announced' = IF pages = 0 THEN total ELSE announced, pages' = pages + 1,
           offset' = IF walk' = "reading" THEN to ELSE offset,
           walk' = "whole" => total = NotSaid \/ to >= total
    PROVE  PagingInv'
<1>1. /\ policy \in Seq(ServedRule) /\ merged \in Seq(ServedRule) /\ offset \in Nat /\ pages \in Nat
      /\ Distinct(policy) /\ Distinct(merged) /\ offset = Len(merged) /\ Ahead(policy, merged)
      /\ Len(policy) \in Nat
  BY LenProperties DEF PagingInv
<1>2. /\ merged' \in Seq(ServedRule) /\ Len(merged') = to
      /\ \A j \in 1 .. to : merged'[j] = IF j <= Len(merged) THEN merged[j] ELSE policy[j]
  <2>1. ASSUME NEW t \in Nat, Len(merged) <= t, t > Len(merged) => t <= Len(policy)
        PROVE  Read(merged, policy, t) \in Seq(ServedRule) /\ ReadsOn(Read(merged, policy, t), merged, policy, t)
    BY <1>1, <2>1, PageIs
  <2>2. merged' \in Seq(ServedRule) /\ ReadsOn(merged', merged, policy, to)
    BY <1>1, <2>1
  <2> QED BY <2>2 DEF ReadsOn
<1>4. /\ Distinct(merged') /\ Ahead(policy, merged')
      /\ ToSet(merged') \cup ToSet(policy) = ToSet(merged) \cup ToSet(policy)
  <2>1. ASSUME NEW t \in Nat, Len(merged) <= t, t > Len(merged) => t <= Len(policy)
        PROVE  /\ Distinct(Read(merged, policy, t)) /\ Ahead(policy, Read(merged, policy, t))
               /\ ToSet(Read(merged, policy, t)) \cup ToSet(policy) = ToSet(merged) \cup ToSet(policy)
    BY <1>1, <2>1, PageRepeatsNothing
  <2> QED BY <1>1, <2>1
<1>5. walk' = "reading" => offset' = Len(merged')
  BY <1>2
<1>6. offset' \in Nat /\ pages' \in Nat /\ pages' # 0
  BY <1>1
\* What was announced is no less than what was read and what is there.
<1>7. announced' # NotSaid => announced' \in Nat /\ Cardinality(ToSet(merged') \cup ToSet(policy)) <= announced'
  <2>1. CASE pages = 0
    <3>1. merged = <<>>
      BY <2>1 DEF PagingInv
    <3>2. ToSet(merged) = {}
      BY <3>1 DEF ToSet
    <3>3. ToSet(merged) \cup ToSet(policy) = ToSet(policy)
      BY <3>2
    <3>4. Cardinality(ToSet(policy)) = Len(policy)
      BY <1>1, DistinctCount
    <3>5. announced' # NotSaid => announced' = Len(policy)
      BY <2>1
    <3>6. Cardinality(ToSet(merged') \cup ToSet(policy)) = Len(policy)
      BY <1>4, <3>3, <3>4
    <3> QED BY <1>1, <3>5, <3>6
  <2>2. CASE pages # 0
    <3>1. announced' = announced
      BY <2>2
    <3>2. announced # NotSaid => announced \in Nat /\ Cardinality(ToSet(merged) \cup ToSet(policy)) <= announced
      BY DEF PagingInv
    <3> QED BY <1>4, <3>1, <3>2
  <2> QED BY <2>1, <2>2
<1>8. ASSUME removed = {}, walk' = "reading" PROVE offset' <= Len(policy) /\ \A i \in 1 .. offset' : merged'[i] = policy[i]
  <2>1. offset <= Len(policy) /\ \A i \in 1 .. offset : merged[i] = policy[i]
    BY <1>8 DEF PagingInv
  <2>2. offset' = to /\ to <= Len(policy)
    BY <1>1, <1>8, <2>1
  <2> QED BY <1>1, <1>2, <2>1, <2>2
<1>9. ASSUME removed = {}, walk' = "whole", announced' # NotSaid PROVE merged' = policy
  <2>1. total # NotSaid
    BY <1>1, <1>9
  <2>2. offset <= Len(policy) /\ \A i \in 1 .. offset : merged[i] = policy[i]
    BY <1>9 DEF PagingInv
  <2>3. to = Len(policy)
    BY <1>1, <1>9, <2>1, <2>2
  <2>4. \A i \in 1 .. Len(policy) : merged'[i] = policy[i]
    BY <1>1, <1>2, <2>2, <2>3
  <2> QED BY <1>1, <1>2, <2>3, <2>4, SeqEqual
<1>10. (removed = {} => added = {}) /\ policy' = policy /\ added' = added /\ removed' = removed
  OBVIOUS
<1> QED BY <1>1, <1>2, <1>4, <1>5, <1>6, <1>7, <1>8, <1>9, <1>10 DEF PagingInv

LEMMA ReadPageKeeps == PagingInv /\ ReadPage => PagingInv'
<1> SUFFICES ASSUME PagingInv, ReadPage PROVE PagingInv'
  OBVIOUS
<1>1. walk = "reading" /\ pages' = pages + 1 /\ UNCHANGED <<policy, added, removed>>
  BY DEF ReadPage
<1> SUFFICES ASSUME added = {} PROVE PagingInv'
  BY <1>1 DEF PagingInv
<1>2. /\ policy \in Seq(ServedRule) /\ merged \in Seq(ServedRule) /\ offset \in Nat /\ offset = Len(merged) /\ Len(policy) \in Nat
  BY <1>1, LenProperties DEF PagingInv
<1> DEFINE A == offset .. Max({offset, Len(policy)})
           B == {t \in {NotSaid, Len(policy)} : pages > 0 => (t = NotSaid) = (announced = NotSaid)}
<1> PICK page \in Answers :
        /\ merged' = merged \o page.rules
        /\ announced' = IF pages = 0 THEN page.total ELSE announced
        /\ walk' = AfterPage(page)
        /\ offset' = IF walk' = "reading" THEN Reached(page) ELSE offset
  BY DEF ReadPage
<1>3. Answers = {[rules |-> SubSeq(policy, offset + 1, to), total |-> total] : to \in A, total \in B}
  BY DEF Answers
<1> HIDE DEF A, B
<1>4. PICK to \in A, total \in B : page = [rules |-> SubSeq(policy, offset + 1, to), total |-> total]
  BY <1>3
<1>5. to \in Nat /\ offset <= to /\ (to > offset => to <= Len(policy))
  <2>1. \A a, b \in Nat : Max({a, b}) \in {a, b}
    BY MaxOfTwo
  <2>2. Max({offset, Len(policy)}) \in {offset, Len(policy)}
    BY <1>2, <2>1
  <2> QED BY <1>2, <2>2 DEF A
<1>6. total \in {NotSaid, Len(policy)} /\ (pages > 0 => (total = NotSaid <=> announced = NotSaid))
  BY DEF B
<1>7. page.rules = SubSeq(policy, offset + 1, to) /\ page.total = total
  BY <1>4
<1>8. Len(page.rules) = to - offset
  BY <1>2, <1>5, <1>7, PageIs
<1>9. Reached(page) = to
  BY <1>2, <1>5, <1>8 DEF Reached
<1>10. walk' = "whole" => total = NotSaid \/ to >= total
  BY <1>7, <1>9 DEF AfterPage
<1>11. merged' = Read(merged, policy, to)
  BY <1>2, <1>7 DEF Read
<1> QED BY <1>1, <1>5, <1>6, <1>7, <1>9, <1>10, <1>11, PageKeeps

\* What is left of the policy is ahead of the walk as it was.
LEMMA DeletedKeeps ==
    ASSUME NEW S, NEW s \in Seq(S), NEW m \in Seq(S), NEW i \in 1 .. Len(s), Distinct(s), Ahead(s, m)
    PROVE  /\ RemoveAt(s, i) \in Seq(S) /\ Distinct(RemoveAt(s, i)) /\ Ahead(RemoveAt(s, i), m)
           /\ ToSet(RemoveAt(s, i)) \subseteq ToSet(s)
<1>1. Len(s) \in Nat /\ Len(m) \in Nat
  BY LenProperties
<1>2. /\ RemoveAt(s, i) \in Seq(S) /\ Len(RemoveAt(s, i)) = Len(s) - 1
      /\ \A j \in 1 .. Len(s) - 1 : RemoveAt(s, i)[j] = IF j < i THEN s[j] ELSE s[j + 1]
  BY RemovedIs
<1> PICK r \in Seq(S) : r = RemoveAt(s, i)
  BY <1>2
<1>3. Len(r) = Len(s) - 1 /\ \A j \in 1 .. Len(r) : r[j] = IF j < i THEN s[j] ELSE s[j + 1]
  BY <1>2
<1> DEFINE at(j) == IF j < i THEN j ELSE j + 1
<1>4. \A j \in 1 .. Len(r) : at(j) \in 1 .. Len(s) /\ at(j) >= j /\ r[j] = s[at(j)]
  BY <1>1, <1>3
<1>5. \A j, k \in 1 .. Len(r) : at(j) = at(k) => j = k
  BY <1>1, <1>3
<1> HIDE DEF at
<1>6. Distinct(r)
  BY <1>4, <1>5 DEF Distinct
<1>7. Ahead(r, m)
  <2>1. ASSUME NEW j \in 1 .. Len(r), NEW k \in 1 .. Len(m), j > Len(m) PROVE r[j] # m[k]
    <3>1. at(j) \in 1 .. Len(s) /\ at(j) > Len(m)
      BY <1>1, <1>3, <1>4, <2>1
    <3> QED BY <1>4, <3>1 DEF Ahead
  <2> QED BY <2>1 DEF Ahead
<1>8. ToSet(r) \subseteq ToSet(s)
  <2>1. ToSet(s) = {s[j] : j \in 1 .. Len(s)} /\ ToSet(r) = {r[j] : j \in 1 .. Len(r)}
    BY DistinctCount
  <2> QED BY <1>4, <2>1
<1> QED BY <1>6, <1>7, <1>8

LEMMA EditPolicyKeeps == PagingInv /\ EditPolicy => PagingInv'
<1> SUFFICES ASSUME PagingInv, EditPolicy PROVE PagingInv'
  OBVIOUS
<1>1. walk = "reading" /\ UNCHANGED <<offset, pages, merged, announced, walk>>
  BY DEF EditPolicy
<1>2. \/ \E i \in DOMAIN policy : policy' = RemoveAt(policy, i) /\ removed' = removed \cup {policy[i]} /\ added' = added
      \/ \E rule \in removed : added' = added \cup {rule} /\ removed' = removed
  BY DEF EditPolicy
<1>3. CASE \E rule \in removed : added' = added \cup {rule} /\ removed' = removed
  <2>1. added' # {} /\ removed' # {}
    BY <1>3
  <2> QED BY <2>1 DEF PagingInv
<1>4. ASSUME NEW i \in DOMAIN policy, policy' = RemoveAt(policy, i), removed' = removed \cup {policy[i]}, added' = added
      PROVE  PagingInv'
  <2>1. removed' # {}
    BY <1>4
  <2>2. ASSUME added' = {}
        PROVE  /\ policy' \in Seq(ServedRule) /\ Distinct(policy') /\ Ahead(policy', merged)
               /\ announced # NotSaid => Cardinality(ToSet(merged) \cup ToSet(policy')) <= announced
    <3>1. /\ added = {} /\ policy \in Seq(ServedRule) /\ merged \in Seq(ServedRule) /\ Distinct(policy) /\ Ahead(policy, merged)
          /\ announced # NotSaid => announced \in Nat /\ Cardinality(ToSet(merged) \cup ToSet(policy)) <= announced
      BY <1>1, <1>4, <2>2 DEF PagingInv
    <3>2. i \in 1 .. Len(policy)
      BY <1>4, <3>1, LenProperties
    <3>3. /\ policy' \in Seq(ServedRule) /\ Distinct(policy') /\ Ahead(policy', merged)
          /\ ToSet(policy') \subseteq ToSet(policy)
      BY <1>4, <3>1, <3>2, DeletedKeeps
    <3>4. IsFiniteSet(ToSet(merged) \cup ToSet(policy))
      BY <3>1, DistinctCount, FS_Union
    <3>5. ToSet(merged) \cup ToSet(policy') \subseteq ToSet(merged) \cup ToSet(policy)
      BY <3>3
    <3>6. /\ Cardinality(ToSet(merged) \cup ToSet(policy')) <= Cardinality(ToSet(merged) \cup ToSet(policy))
          /\ IsFiniteSet(ToSet(merged) \cup ToSet(policy'))
      BY <3>4, <3>5, FS_Subset
    <3>7. Cardinality(ToSet(merged) \cup ToSet(policy')) \in Nat /\ Cardinality(ToSet(merged) \cup ToSet(policy)) \in Nat
      BY <3>4, <3>6, FS_CardinalityType
    <3> QED BY <3>1, <3>3, <3>6, <3>7
  <2>3. added = added'
    BY <1>4
  <2> QED BY <1>1, <2>1, <2>2, <2>3 DEF PagingInv
<1> QED BY <1>2, <1>3, <1>4

LEMMA PagingInductive == PagingSpec => []PagingInv
<1>1. ASSUME PagingInv, UNCHANGED pagingVars PROVE PagingInv'
  BY <1>1 DEF PagingInv, pagingVars
<1>2. PagingInv /\ [PagingNext]_pagingVars => PagingInv'
  BY <1>1, ReadPageKeeps, EditPolicyKeeps DEF PagingNext
<1> QED BY <1>2, PagingInitInv, PTL DEF PagingSpec

\* What the walk calls whole is the policy, or short of what was announced.
LEMMA NoGap == PagingInv => NoSilentGap
<1> SUFFICES ASSUME PagingInv, walk = "whole", announced # NotSaid
             PROVE  /\ removed = {} => merged = policy
                    /\ added = {} => ToSet(policy) \subseteq ToSet(merged) \/ ShortfallReported
  BY DEF NoSilentGap
<1>1. removed = {} => merged = policy
  BY DEF PagingInv
<1>2. ASSUME added = {}, NEW rule \in ToSet(policy), rule \notin ToSet(merged) PROVE ShortfallReported
  <2> DEFINE seen == ToSet(merged)
             all == ToSet(merged) \cup ToSet(policy)
  <2>1. merged \in Seq(ServedRule) /\ policy \in Seq(ServedRule) /\ Distinct(merged) /\ announced \in Nat /\ Cardinality(all) <= announced
    BY <1>2 DEF PagingInv
  <2>2. IsFiniteSet(seen) /\ Cardinality(seen) = Len(merged) /\ IsFiniteSet(all)
    BY <2>1, DistinctCount, FS_Union
  <2>3. seen \subseteq all /\ seen # all
    BY <1>2
  <2>4. Cardinality(seen) < Cardinality(all) /\ Cardinality(seen) \in Nat /\ Cardinality(all) \in Nat
    BY <2>2, <2>3, FS_Subset, FS_CardinalityType
  <2> QED BY <2>1, <2>2, <2>4 DEF ShortfallReported
<1> QED BY <1>1, <1>2
-----------------------------------------------------------------------------
(***************************************************************************)
(* Collecting one device.                                                  *)
(***************************************************************************)

\* Every entry the session has passed was answered well or counted as a failure; the
\* device has the sessions it opened; and a collection is over once it is told to stop.
CollectionInv ==
    /\ profile \in Profiles
    /\ session = [step |-> session.step, next |-> session.next, config |-> session.config, failures |-> session.failures]
    /\ atDevice = [open |-> atDevice.open, lost |-> atDevice.lost, offered |-> atDevice.offered,
                   stopped |-> atDevice.stopped, answered |-> atDevice.answered]
    /\ session.step \in {"idle", "pinning", "commands"} /\ session.next \in Nat /\ atDevice.stopped \in BOOLEAN
    /\ atDevice.lost \in Nat /\ atDevice.open = atDevice.lost + (IF session.step = "idle" THEN 0 ELSE 1)
    /\ session.step # "commands" => session.next = 1 /\ session.failures = {}
    /\ \A i \in DOMAIN profile.entries :
        i < session.next /\ profile.entries[i].kind # "setup" => i \in atDevice.answered \/ i \in session.failures
    /\ outcome # "none" => session.step = "idle"
    /\ atDevice.stopped => outcome # "none"
    /\ CompleteIsComplete

LEMMA Kinds ==
    ASSUME profile \in Profiles
    PROVE  /\ Len(profile.entries) \in Nat /\ DOMAIN profile.entries = 1 .. Len(profile.entries)
           /\ \A i \in 1 .. Len(profile.entries) : profile.entries[i].kind \in {"setup", "config", "required", "data"}
<1> DEFINE E == [kind : {"setup", "config", "required", "data"}, allowed : BOOLEAN]
<1>1. profile \in [entries : Seq(E), bundled : BOOLEAN]
  BY CollectionAssumption DEF CollectionAssumption
<1>2. profile.entries \in Seq(E)
  BY <1>1
<1>3. \A i \in 1 .. Len(profile.entries) : profile.entries[i] \in E
  BY <1>2, ElementOfSeq
<1>4. \A e \in E : e.kind \in {"setup", "config", "required", "data"}
  OBVIOUS
<1> HIDE DEF E
<1> QED BY <1>2, <1>3, <1>4, LenProperties

LEMMA CollectionInitInv == CollectionInit => CollectionInv
<1> SUFFICES ASSUME CollectionInit PROVE CollectionInv
  OBVIOUS
<1>1. /\ profile \in Profiles /\ session = [step |-> "idle", next |-> 1, config |-> {}, failures |-> {}]
      /\ atDevice = [open |-> 0, lost |-> 0, offered |-> <<>>, stopped |-> FALSE, answered |-> {}]
      /\ outcome \in {"auth_failed", "none"}
  BY DEF CollectionInit, NoSession
<1>2. \A i \in DOMAIN profile.entries : ~(i < 1)
  BY <1>1, Kinds
<1> QED BY <1>1, <1>2 DEF CollectionInv, CompleteIsComplete

\* However the session ends: a result that counts as complete needs every entry behind it.
LEMMA LeaveKeeps ==
    ASSUME CollectionInv, session.step # "idle", NEW result, NEW stopped \in BOOLEAN, Leave(result, stopped),
           stopped => result # "none",
           result = "succeeded" => session.next > Len(profile.entries) /\ session.failures = {}
    PROVE  CollectionInv'
<1>1. /\ outcome' = result /\ session' = [step |-> "idle", next |-> 1, config |-> {}, failures |-> {}] /\ profile' = profile
  BY DEF Leave, NoSession
<1>2. PICK through \in BOOLEAN :
        /\ through => Releases
        /\ atDevice' = [atDevice EXCEPT !.open = IF through THEN @ - 1 ELSE @, !.stopped = @ \/ stopped,
                            !.lost = IF session.step = "pinning" \/ (Releases /\ ~through) THEN @ + 1 ELSE @]
  BY DEF Leave
<1>3. /\ atDevice' = [open |-> IF through THEN atDevice.open - 1 ELSE atDevice.open,
                      lost |-> IF session.step = "pinning" \/ (Releases /\ ~through) THEN atDevice.lost + 1 ELSE atDevice.lost,
                      offered |-> atDevice.offered, stopped |-> atDevice.stopped \/ stopped, answered |-> atDevice.answered]
  BY <1>2 DEF CollectionInv
<1>4. atDevice.lost \in Nat /\ atDevice.open = atDevice.lost + 1 /\ atDevice.stopped \in BOOLEAN /\ outcome = "none" /\ ~atDevice.stopped
  BY DEF CollectionInv
<1>5. session.step = "pinning" \/ Releases
  BY DEF CollectionInv, Releases
<1>6. session.step = "pinning" => ~Releases
  BY DEF Releases
<1>7. atDevice'.lost \in Nat /\ atDevice'.open = atDevice'.lost
  BY <1>2, <1>3, <1>4, <1>5, <1>6
<1>8. \A i \in DOMAIN profile.entries : ~(i < 1)
  BY Kinds DEF CollectionInv
<1>9. CompleteIsComplete'
  <2>1. ASSUME result = "succeeded", NEW i \in DOMAIN profile.entries, profile.entries[i].kind # "setup" PROVE i \in atDevice.answered
    <3>1. i < session.next /\ session.failures = {}
      BY <2>1, Kinds DEF CollectionInv
    <3> QED BY <2>1, <3>1 DEF CollectionInv
  <2> QED BY <1>1, <1>3, <2>1 DEF CompleteIsComplete
<1> QED BY <1>1, <1>3, <1>4, <1>7, <1>8, <1>9 DEF CollectionInv

LEMMA CollectionKeeps == CollectionInv /\ [CollectionNext]_collectionVars => CollectionInv'
<1> SUFFICES ASSUME CollectionInv, [CollectionNext]_collectionVars PROVE CollectionInv'
  OBVIOUS
<1>1. CASE Login
  <2>1. outcome = "none" /\ session.step = "idle" /\ profile' = profile /\ session.next = 1 /\ session.failures = {} /\ session.config = session.config
    BY <1>1 DEF Login, CollectionInv
  <2>2. \A i \in DOMAIN profile.entries : ~(i < 1)
    BY Kinds DEF CollectionInv
  <2>3. atDevice.lost \in Nat /\ atDevice.open = atDevice.lost /\ ~atDevice.stopped
    BY <2>1 DEF CollectionInv
  <2> DEFINE offered == Append(atDevice.offered, Head(fallback))
  <2>4. \/ /\ atDevice' = [open |-> atDevice.open + 1, lost |-> atDevice.lost, offered |-> offered, stopped |-> atDevice.stopped, answered |-> {}]
           /\ outcome' = outcome /\ session' = [step |-> "pinning", next |-> 1, config |-> {}, failures |-> {}]
        \/ \E error \in {"auth", "silence"} :
           /\ atDevice' = [open |-> atDevice.open, lost |-> atDevice.lost, offered |-> offered, stopped |-> error # "auth", answered |-> {}]
           /\ outcome' = AfterError(error, fallback') /\ session' = session
    BY <1>1 DEF Login, CollectionInv, NoSession
  <2> HIDE DEF offered
  <2>5. CASE /\ atDevice' = [open |-> atDevice.open + 1, lost |-> atDevice.lost, offered |-> offered, stopped |-> atDevice.stopped, answered |-> {}]
             /\ outcome' = outcome /\ session' = [step |-> "pinning", next |-> 1, config |-> {}, failures |-> {}]
    BY <2>1, <2>2, <2>3, <2>5 DEF CollectionInv, CompleteIsComplete
  <2>6. ASSUME NEW error \in {"auth", "silence"}, outcome' = AfterError(error, fallback'), session' = session,
               atDevice' = [open |-> atDevice.open, lost |-> atDevice.lost, offered |-> offered, stopped |-> error # "auth", answered |-> {}]
        PROVE  CollectionInv'
    <3>1. outcome' \in {"failed", "auth_failed", "none"} /\ (error # "auth" => outcome' = "failed")
      BY <2>6 DEF AfterError
    <3>2. CompleteIsComplete'
      BY <3>1 DEF CompleteIsComplete
    <3> QED BY <2>1, <2>2, <2>3, <2>6, <3>1, <3>2 DEF CollectionInv
  <2> QED BY <2>4, <2>5, <2>6
<1>2. CASE Pin
  <2>1. CASE session' = [session EXCEPT !.step = "commands"] /\ UNCHANGED <<profile, assigned, fallback, outcome, atDevice>>
    <3>1. session.step = "pinning" /\ session.next = 1 /\ session.failures = {}
      BY <1>2 DEF Pin, CollectionInv
    <3>2. session' = [step |-> "commands", next |-> 1, config |-> session.config, failures |-> {}]
      BY <2>1, <3>1 DEF CollectionInv
    <3> QED BY <2>1, <3>1, <3>2 DEF CollectionInv, CompleteIsComplete
  <2>2. CASE Leave("failed", TRUE)
    BY <1>2, <2>2, LeaveKeeps DEF Pin
  <2> QED BY <1>2, <2>1, <2>2 DEF Pin
<1>3. CASE Issue
  <2>1. PICK status \in {"ok", "error"}, text \in BOOLEAN :
            /\ session' = Keeps(status, text)
            /\ atDevice' = IF status = "ok" THEN [atDevice EXCEPT !.answered = @ \cup {session.next}] ELSE atDevice
    BY <1>3 DEF Issue
  <2>2. session.step = "commands" /\ session.next <= Len(profile.entries) /\ UNCHANGED <<profile, outcome>> /\ outcome = "none"
    BY <1>3 DEF Issue, InProfile, CollectionInv
  <2>3. PICK config : session' = [step |-> "commands", next |-> session.next + 1, config |-> config,
             failures |-> IF Asked.kind # "setup" /\ status = "error" THEN session.failures \cup {session.next} ELSE session.failures]
    BY <2>1, <2>2 DEF Keeps, CollectionInv
  <2>4. PICK more \in {{}, {session.next}} :
          /\ atDevice' = [open |-> atDevice.open, lost |-> atDevice.lost, offered |-> atDevice.offered,
                          stopped |-> atDevice.stopped, answered |-> atDevice.answered \cup more]
          /\ status = "ok" => more = {session.next}
    <3>1. CASE status = "ok"
      BY <2>1, <3>1 DEF CollectionInv
    <3>2. CASE status # "ok"
      <4>1. atDevice' = [open |-> atDevice.open, lost |-> atDevice.lost, offered |-> atDevice.offered,
                         stopped |-> atDevice.stopped, answered |-> atDevice.answered \cup {}]
        BY <2>1, <3>2 DEF CollectionInv
      <4> QED BY <3>2, <4>1
    <3> QED BY <3>1, <3>2
  <2>5. ASSUME NEW i \in DOMAIN profile.entries, i < session.next + 1, profile.entries[i].kind # "setup"
        PROVE  i \in atDevice'.answered \/ i \in session'.failures
    <3>1. i < session.next \/ i = session.next
      BY <2>5, Kinds DEF CollectionInv
    <3>2. CASE i < session.next
      <4>1. i \in atDevice.answered \/ i \in session.failures
        BY <2>5, <3>2 DEF CollectionInv
      <4> QED BY <2>3, <2>4, <4>1
    <3>3. CASE i = session.next
      BY <2>3, <2>4, <2>5, <3>3 DEF Asked
    <3> QED BY <3>1, <3>2, <3>3
  <2>6. CompleteIsComplete'
    BY <2>2 DEF CompleteIsComplete
  <2> QED BY <2>2, <2>3, <2>4, <2>5, <2>6 DEF CollectionInv
<1>4. CASE IssueFails
  <2>1. session.step = "commands" /\ session.next <= Len(profile.entries)
    BY <1>4 DEF IssueFails, InProfile
  <2>2. CASE Asked.kind \in {"config", "required"}
    <3>1. PICK error \in {"auth", "silence"} : Leave(AfterError(error, fallback), error # "auth")
      BY <1>4, <2>2 DEF IssueFails
    <3>2. AfterError(error, fallback) # "succeeded" /\ (error # "auth" => AfterError(error, fallback) # "none")
      BY DEF AfterError
    <3> QED BY <2>1, <3>1, <3>2, LeaveKeeps
  <2>3. CASE Asked.kind \notin {"config", "required"}
    <3>1. /\ session' = [session EXCEPT !.next = @ + 1, !.failures = IF Asked.kind = "data" THEN @ \cup {session.next} ELSE @]
          /\ UNCHANGED <<profile, outcome, atDevice>>
      BY <1>4, <2>3 DEF IssueFails
    <3>2. session' = [step |-> "commands", next |-> session.next + 1, config |-> session.config,
                      failures |-> IF Asked.kind = "data" THEN session.failures \cup {session.next} ELSE session.failures]
      BY <2>1, <3>1 DEF CollectionInv
    <3>3. ASSUME NEW i \in DOMAIN profile.entries, i < session.next + 1, profile.entries[i].kind # "setup"
          PROVE  i \in atDevice.answered \/ i \in session'.failures
      <4>1. i \in 1 .. Len(profile.entries) /\ (i < session.next \/ i = session.next) /\ profile.entries[i].kind \in {"setup", "config", "required", "data"}
        BY <3>3, Kinds DEF CollectionInv
      <4>2. CASE i < session.next
        <5>1. i \in atDevice.answered \/ i \in session.failures
          BY <3>3, <4>2 DEF CollectionInv
        <5> QED BY <3>2, <5>1
      <4>3. CASE i = session.next
        BY <2>3, <3>2, <3>3, <4>1, <4>3 DEF Asked
      <4> QED BY <4>1, <4>2, <4>3
    <3>4. CompleteIsComplete'
      BY <3>1 DEF CompleteIsComplete, CollectionInv
    <3>5. session'.step = "commands" /\ session'.next = session.next + 1 /\ session.next \in Nat /\ outcome = "none"
      BY <2>1, <3>2 DEF CollectionInv
    <3>6. session' = [step |-> session'.step, next |-> session'.next, config |-> session'.config, failures |-> session'.failures]
      BY <3>2
    <3>7. \A i \in DOMAIN profile'.entries :
            i < session'.next /\ profile'.entries[i].kind # "setup" => i \in atDevice'.answered \/ i \in session'.failures
      BY <3>1, <3>3, <3>5
    <3> QED BY <2>1, <3>1, <3>4, <3>5, <3>6, <3>7 DEF CollectionInv
  <2> QED BY <2>2, <2>3
<1>5. CASE Refuse
  <2>1. Leave("failed", TRUE) /\ session.step # "idle"
    BY <1>5 DEF Refuse, InProfile
  <2> QED BY <2>1, LeaveKeeps
<1>6. CASE Store
  <2> DEFINE result == IF session.config = {} THEN "failed" ELSE IF session.failures = {} THEN "succeeded" ELSE "partial"
  <2>1. session.step # "idle" /\ session.next > Len(profile.entries) /\ Leave(result, TRUE)
    BY <1>6 DEF Store
  <2>2. result # "none" /\ (result = "succeeded" => session.failures = {})
    OBVIOUS
  <2> HIDE DEF result
  <2> QED BY <2>1, <2>2, LeaveKeeps
<1>7. CASE UNCHANGED collectionVars
  BY <1>7 DEF CollectionInv, CompleteIsComplete, collectionVars
<1> QED BY <1>1, <1>2, <1>3, <1>4, <1>5, <1>6, <1>7 DEF CollectionNext

LEMMA CollectionInductive == CollectionSpec => []CollectionInv
BY CollectionInitInv, CollectionKeeps, PTL DEF CollectionSpec

\* A row is in an ordering of finitely many rows once, and each of them is in it.
LEMMA OrderedOnce ==
    ASSUME NEW R, IsFiniteSet(R), NEW s \in Ordered(R)
    PROVE  /\ Cardinality(R) \in Nat /\ s \in Seq(R) /\ Len(s) = Cardinality(R) /\ DOMAIN s = 1 .. Cardinality(R)
           /\ \A i \in 1 .. Cardinality(R) : s[i] \in R
           /\ \A r \in R : \E i \in 1 .. Cardinality(R) : s[i] = r
           /\ \A i, j \in 1 .. Cardinality(R) : s[i] = s[j] => i = j
<1> DEFINE n == Cardinality(R)
<1>1. n \in Nat
  BY FS_CardinalityType
<1>2. s \in [1 .. n -> R] /\ ToSet(s) = R
  BY DEF Ordered
<1> HIDE DEF n
<1>3. \A r \in R : \E i \in 1 .. n : s[i] = r
  BY <1>2 DEF ToSet
<1>4. s \in Surjection(1 .. n, R)
  BY <1>2, <1>3 DEF Surjection
<1>5. IsFiniteSet(1 .. n) /\ Cardinality(1 .. n) = n
  BY <1>1, FS_Interval
<1>6. s \in Injection(1 .. n, R)
  BY <1>4, <1>5, FS_Surjection DEF n
<1>7. \A i, j \in 1 .. n : s[i] = s[j] => i = j
  BY <1>2, <1>6 DEF Injection, IsInjective
<1>8. s \in Seq(R) /\ Len(s) = n
  <2>1. s \in Seq(R)
    BY <1>1, <1>2, SeqDef
  <2>2. Len(s) \in Nat /\ 1 .. Len(s) = 1 .. n
    BY <1>2, <2>1, LenProperties
  <2> QED BY <1>1, <2>1, <2>2
<1> QED BY <1>1, <1>2, <1>3, <1>7, <1>8 DEF n

AssignedRow == [cred : Credential, level : {"device", "group"}, priority : Nat]

\* What is offered next is what came before it and the rest of the list.
LEMMA OneMore ==
    ASSUME NEW s \in Seq(Credential), NEW t \in Seq(Credential), t # <<>>
    PROVE  /\ Append(s, Head(t)) \in Seq(Credential) /\ Tail(t) \in Seq(Credential)
           /\ Append(s, Head(t)) \o Tail(t) = s \o t
<1> DEFINE a == Append(s, Head(t))
           b == Tail(t)
<1>1. Head(t) = t[1] /\ Head(t) \in Credential /\ Len(t) \in Nat \ {0} /\ Len(s) \in Nat
  BY HeadTailProperties, EmptySeq, LenProperties
<1>2. a \in Seq(Credential) /\ Len(a) = Len(s) + 1 /\ a[Len(s) + 1] = Head(t) /\ \A i \in 1 .. Len(s) : a[i] = s[i]
  BY <1>1, AppendProperties
<1>3. b \in Seq(Credential) /\ Len(b) = Len(t) - 1 /\ \A i \in 1 .. Len(b) : b[i] = t[i + 1]
  BY HeadTailProperties
<1> HIDE DEF a, b
<1>4. /\ a \o b \in Seq(Credential) /\ Len(a \o b) = Len(s) + Len(t)
      /\ \A i \in 1 .. Len(s) + Len(t) : (a \o b)[i] = IF i <= Len(s) + 1 THEN a[i] ELSE b[i - (Len(s) + 1)]
  <2>1. /\ a \o b \in Seq(Credential) /\ Len(a \o b) = Len(a) + Len(b)
        /\ \A i \in 1 .. Len(a) + Len(b) : (a \o b)[i] = IF i <= Len(a) THEN a[i] ELSE b[i - Len(a)]
    BY <1>2, <1>3, ConcatProperties
  <2>2. Len(a) + Len(b) = Len(s) + Len(t)
    BY <1>1, <1>2, <1>3
  <2> QED BY <1>2, <2>1, <2>2
<1>5. /\ s \o t \in Seq(Credential) /\ Len(s \o t) = Len(s) + Len(t)
      /\ \A i \in 1 .. Len(s) + Len(t) : (s \o t)[i] = IF i <= Len(s) THEN s[i] ELSE t[i - Len(s)]
  BY ConcatProperties
<1>6. ASSUME NEW i \in 1 .. Len(s) + Len(t) PROVE (a \o b)[i] = (s \o t)[i]
  <2>1. CASE i <= Len(s)
    <3>1. i \in 1 .. Len(s) /\ i <= Len(s) + 1
      BY <1>1, <2>1
    <3> QED BY <1>2, <1>4, <1>5, <2>1, <3>1
  <2>2. CASE i = Len(s) + 1
    <3>1. ~(i <= Len(s)) /\ i - Len(s) = 1 /\ i <= Len(s) + 1
      BY <1>1, <2>2
    <3> QED BY <1>1, <1>2, <1>4, <1>5, <2>2, <3>1
  <2>3. CASE i > Len(s) + 1
    <3>1. /\ ~(i <= Len(s)) /\ ~(i <= Len(s) + 1)
          /\ i - (Len(s) + 1) \in 1 .. Len(b) /\ (i - (Len(s) + 1)) + 1 = i - Len(s)
      BY <1>1, <1>3, <2>3
    <3>2. b[i - (Len(s) + 1)] = t[i - Len(s)]
      BY <1>3, <3>1
    <3> QED BY <1>4, <1>5, <3>1, <3>2
  <2>4. i <= Len(s) \/ i = Len(s) + 1 \/ i > Len(s) + 1
    BY <1>1
  <2> QED BY <2>1, <2>2, <2>3, <2>4
<1>7. a \o b = s \o t
  BY <1>4, <1>5, <1>6, SeqEqual
<1> QED BY <1>2, <1>3, <1>7 DEF a, b

LEMMA CredentialsOf ==
    ASSUME NEW n \in Nat, NEW s, DOMAIN s = 1 .. n, \A i \in 1 .. n : s[i] \in AssignedRow
    PROVE  /\ Credentials(s) \in Seq(Credential) /\ Len(Credentials(s)) = n
           /\ \A i \in 1 .. n : Credentials(s)[i] = s[i].cred
<1> DEFINE c == Credentials(s)
<1>1. c = [i \in 1 .. n |-> s[i].cred] /\ \A i \in 1 .. n : s[i].cred \in Credential
  BY DEF Credentials, AssignedRow
<1> HIDE DEF c
<1>2. c \in [1 .. n -> Credential] /\ \A i \in 1 .. n : c[i] = s[i].cred
  BY <1>1
<1>3. c \in Seq(Credential)
  BY <1>2, SeqDef
<1>4. Len(c) \in Nat /\ 1 .. Len(c) = 1 .. n
  BY <1>2, <1>3, LenProperties
<1>5. Len(c) = n
  BY <1>4
<1> QED BY <1>2, <1>3, <1>5 DEF c

\* A resolved list is the device's own credentials, row by row, then those lent.
IsResolved(list, given, D, own, lent) ==
    /\ D = Cardinality(AtLevel(given, "device")) /\ D \in Nat /\ Len(list) = D + Cardinality(Lent(given))
    /\ own \in Ordered(AtLevel(given, "device")) /\ lent \in Ordered(Lent(given))
    /\ \A i \in 1 .. D : list[i] = own[i].cred
    /\ \A i \in 1 .. Len(list) : i > D => i - D \in 1 .. Cardinality(Lent(given)) /\ list[i] = lent[i - D].cred

LEMMA AssignedRows ==
    ASSUME NEW given \in Assignments
    PROVE  /\ given \subseteq AssignedRow /\ Lent(given) \subseteq AtLevel(given, "group")
           /\ \A level \in {"device", "group"} : AtLevel(given, level) \subseteq given
           /\ IsFiniteSet(AtLevel(given, "device")) /\ IsFiniteSet(Lent(given))
<1>1. IsFiniteSet(given) /\ given \subseteq AssignedRow
  BY CollectionAssumption DEF CollectionAssumption, AssignedRow
<1>2. AtLevel(given, "device") \subseteq given /\ AtLevel(given, "group") \subseteq given /\ Lent(given) \subseteq AtLevel(given, "group")
  BY DEF AtLevel, Lent
<1> QED BY <1>1, <1>2, FS_Subset

LEMMA ResolvedIs ==
    ASSUME NEW given \in Assignments, NEW list \in ResolveForDevice(given)
    PROVE  list \in Seq(Credential) /\ \E D, own, lent : IsResolved(list, given, D, own, lent)
<1> DEFINE d == AtLevel(given, "device")
           g == Lent(given)
           D == Cardinality(d)
           G == Cardinality(g)
<1>1. PICK both \in [own : Ordered(d), lent : Ordered(g)] : list = Credentials(both.own) \o Credentials(both.lent)
  BY DEF ResolveForDevice
<1>2. both.own \in Ordered(d) /\ both.lent \in Ordered(g)
  BY <1>1
<1>3. IsFiniteSet(d) /\ IsFiniteSet(g) /\ d \subseteq AssignedRow /\ g \subseteq AssignedRow
  BY AssignedRows
<1> HIDE DEF d, g
<1>4. D \in Nat /\ DOMAIN both.own = 1 .. D /\ \A i \in 1 .. D : both.own[i] \in d
  BY <1>2, <1>3, OrderedOnce
<1>5. G \in Nat /\ DOMAIN both.lent = 1 .. G /\ \A i \in 1 .. G : both.lent[i] \in g
  BY <1>2, <1>3, OrderedOnce
<1>6. (\A i \in 1 .. D : both.own[i] \in AssignedRow) /\ (\A i \in 1 .. G : both.lent[i] \in AssignedRow)
  BY <1>3, <1>4, <1>5
<1> HIDE DEF D, G
<1> DEFINE a == Credentials(both.own)
           b == Credentials(both.lent)
<1>7. a \in Seq(Credential) /\ Len(a) = D /\ \A i \in 1 .. D : a[i] = both.own[i].cred
  BY <1>4, <1>6, CredentialsOf
<1>8. b \in Seq(Credential) /\ Len(b) = G /\ \A i \in 1 .. G : b[i] = both.lent[i].cred
  BY <1>5, <1>6, CredentialsOf
<1>9. list = a \o b
  BY <1>1
<1> HIDE DEF a, b
<1>10. list \in Seq(Credential) /\ Len(list) = D + G /\ \A i \in 1 .. D + G : list[i] = IF i <= D THEN a[i] ELSE b[i - D]
  <2>1. /\ list \in Seq(Credential) /\ Len(list) = Len(a) + Len(b)
        /\ \A i \in 1 .. Len(a) + Len(b) : list[i] = IF i <= Len(a) THEN a[i] ELSE b[i - Len(a)]
    BY <1>7, <1>8, <1>9, ConcatProperties
  <2> QED BY <1>7, <1>8, <2>1
<1>11. ASSUME NEW i \in 1 .. D PROVE list[i] = both.own[i].cred
  <2>1. i \in 1 .. D + G /\ i <= D
    BY <1>4, <1>5
  <2> QED BY <1>7, <1>10, <2>1
<1>12. ASSUME NEW i \in 1 .. Len(list), i > D PROVE i - D \in 1 .. G /\ list[i] = both.lent[i - D].cred
  <2>1. i \in 1 .. D + G /\ ~(i <= D) /\ i - D \in 1 .. G
    BY <1>4, <1>5, <1>10, <1>12
  <2> QED BY <1>8, <1>10, <2>1
<1>13. IsResolved(list, given, D, both.own, both.lent)
  BY <1>2, <1>4, <1>10, <1>11, <1>12 DEF IsResolved, D, G, d, g
<1> QED BY <1>10, <1>13

\* What was offered and what is left is the resolved list, from its start; and a
\* collection that has nothing left to offer is over.
OfferInv ==
    /\ assigned \in Assignments
    /\ atDevice.offered \in Seq(Credential) /\ fallback \in Seq(Credential)
    /\ atDevice.offered \o fallback \in ResolveForDevice(assigned)
    /\ outcome = "none" /\ session.step = "idle" => fallback # <<>>

LEMMA OfferInit == CollectionInit => OfferInv
<1> SUFFICES ASSUME CollectionInit PROVE OfferInv
  OBVIOUS
<1>1. /\ assigned \in Assignments /\ fallback \in ResolveForDevice(assigned) /\ atDevice.offered = <<>>
      /\ outcome = IF fallback = <<>> THEN "auth_failed" ELSE "none"
  BY DEF CollectionInit
<1>2. fallback \in Seq(Credential) /\ <<>> \in Seq(Credential)
  BY <1>1, ResolvedIs
<1>3. <<>> \o fallback = fallback
  BY <1>2, ConcatEmptySeq
<1> QED BY <1>1, <1>2, <1>3 DEF OfferInv

LEMMA OfferKeeps == CollectionInv /\ OfferInv /\ [CollectionNext]_collectionVars => OfferInv'
<1> SUFFICES ASSUME CollectionInv, OfferInv, [CollectionNext]_collectionVars PROVE OfferInv'
  OBVIOUS
<1>1. ASSUME NEW result, NEW stopped, session.step # "idle", Leave(result, stopped), result = "none" => fallback # <<>> PROVE OfferInv'
  <2>1. outcome' = result /\ UNCHANGED <<assigned, fallback>>
    BY <1>1 DEF Leave
  <2>2. atDevice'.offered = atDevice.offered
    BY <1>1 DEF Leave, CollectionInv
  <2> QED BY <1>1, <2>1, <2>2 DEF OfferInv
<1>2. ASSUME UNCHANGED <<assigned, fallback>>, atDevice'.offered = atDevice.offered,
             outcome' = "none" /\ session'.step = "idle" => outcome = "none" /\ session.step = "idle"
      PROVE  OfferInv'
  BY <1>2 DEF OfferInv
<1>3. \A error : AfterError(error, fallback) = "none" => fallback # <<>>
  BY DEF AfterError
<1>4. CASE Login
  <2>1. outcome = "none" /\ session.step = "idle" /\ fallback' = Tail(fallback) /\ assigned' = assigned /\ fallback # <<>>
    BY <1>4 DEF Login, OfferInv
  <2>2. atDevice'.offered = Append(atDevice.offered, Head(fallback))
    BY <1>4 DEF Login, CollectionInv
  <2>3. atDevice'.offered \in Seq(Credential) /\ fallback' \in Seq(Credential) /\ atDevice'.offered \o fallback' = atDevice.offered \o fallback
    BY <2>1, <2>2, OneMore DEF OfferInv
  <2>4. outcome' = "none" /\ session'.step = "idle" => fallback' # <<>>
    <3>1. CASE session' = [NoSession EXCEPT !.step = "pinning"]
      BY <3>1 DEF NoSession
    <3>2. ASSUME NEW error \in {"auth", "silence"}, outcome' = AfterError(error, fallback') PROVE outcome' = "none" => fallback' # <<>>
      BY <3>2 DEF AfterError
    <3> QED BY <1>4, <3>1, <3>2 DEF Login
  <2> QED BY <2>1, <2>3, <2>4 DEF OfferInv
<1>5. CASE Pin
  <2>1. CASE session' = [session EXCEPT !.step = "commands"] /\ UNCHANGED <<profile, assigned, fallback, outcome, atDevice>>
    <3>1. session'.step # "idle"
      BY <2>1 DEF CollectionInv
    <3> QED BY <1>2, <2>1, <3>1
  <2>2. CASE Leave("failed", TRUE)
    BY <1>1, <1>5, <2>2 DEF Pin
  <2> QED BY <1>5, <2>1, <2>2 DEF Pin
<1>6. CASE Issue
  <2>1. UNCHANGED <<assigned, fallback, outcome>> /\ session.step = "commands" /\ outcome' = outcome
    BY <1>6 DEF Issue, InProfile
  <2>2. session'.step = session.step
    BY <1>6 DEF Issue, Keeps, CollectionInv
  <2>3. atDevice'.offered = atDevice.offered
    BY <1>6 DEF Issue, CollectionInv
  <2> QED BY <1>2, <2>1, <2>2, <2>3
<1>7. CASE IssueFails
  <2>1. session.step = "commands"
    BY <1>7 DEF IssueFails, InProfile
  <2>2. CASE Asked.kind \in {"config", "required"}
    <3>1. PICK error \in {"auth", "silence"} : Leave(AfterError(error, fallback), error # "auth")
      BY <1>7, <2>2 DEF IssueFails
    <3> QED BY <1>1, <1>3, <2>1, <3>1
  <2>3. CASE Asked.kind \notin {"config", "required"}
    <3>1. /\ session' = [session EXCEPT !.next = @ + 1, !.failures = IF Asked.kind = "data" THEN @ \cup {session.next} ELSE @]
          /\ UNCHANGED <<assigned, fallback, outcome, atDevice>>
      BY <1>7, <2>3 DEF IssueFails
    <3>2. session'.step = "commands"
      BY <2>1, <3>1 DEF CollectionInv
    <3> QED BY <1>2, <3>1, <3>2
  <2> QED BY <2>2, <2>3
<1>8. CASE Refuse
  <2>1. Leave("failed", TRUE) /\ session.step # "idle"
    BY <1>8 DEF Refuse, InProfile
  <2> QED BY <1>1, <2>1
<1>9. CASE Store
  <2> DEFINE result == IF session.config = {} THEN "failed" ELSE IF session.failures = {} THEN "succeeded" ELSE "partial"
  <2>1. session.step # "idle" /\ Leave(result, TRUE) /\ result # "none"
    BY <1>9 DEF Store
  <2> HIDE DEF result
  <2> QED BY <1>1, <2>1
<1>10. CASE UNCHANGED collectionVars
  BY <1>2, <1>10 DEF collectionVars
<1> QED BY <1>4, <1>5, <1>6, <1>7, <1>8, <1>9, <1>10 DEF CollectionNext

LEMMA OfferInductive == CollectionSpec => []OfferInv
BY OfferInit, OfferKeeps, CollectionInductive, PTL DEF CollectionSpec

\* Whatever was offered is in the resolved list at the same place, where no two
\* places hold one credential but for two rows of the device itself.
LEMMA OfferedOnce == OfferInv => EachIsOfferedOnce
<1> SUFFICES ASSUME OfferInv PROVE EachIsOfferedOnce
  OBVIOUS
<1> DEFINE s == atDevice.offered
           list == s \o fallback
           device == AtLevel(assigned, "device")
           G == Cardinality(Lent(assigned))
<1>1. assigned \in Assignments /\ s \in Seq(Credential) /\ fallback \in Seq(Credential) /\ list \in ResolveForDevice(assigned)
  BY DEF OfferInv
<1>2. PICK D, own, lent : IsResolved(list, assigned, D, own, lent)
  BY <1>1, ResolvedIs
<1>3. Len(s) \in Nat /\ Len(fallback) \in Nat /\ DOMAIN s = 1 .. Len(s)
  BY <1>1, LenProperties
<1>4. Len(list) = Len(s) + Len(fallback) /\ \A i \in 1 .. Len(s) + Len(fallback) : list[i] = IF i <= Len(s) THEN s[i] ELSE fallback[i - Len(s)]
  BY <1>1, ConcatProperties
<1> HIDE DEF s, list
<1>5. \A i \in 1 .. Len(s) : i \in 1 .. Len(list) /\ s[i] = list[i]
  <2> TAKE i \in 1 .. Len(s)
  <2>1. i \in 1 .. Len(s) + Len(fallback) /\ i <= Len(s)
    BY <1>3
  <2> QED BY <1>4, <2>1
<1>6. /\ IsFiniteSet(device) /\ IsFiniteSet(Lent(assigned)) /\ assigned \subseteq AssignedRow
      /\ device \subseteq assigned /\ Lent(assigned) \subseteq AtLevel(assigned, "group")
      /\ AtLevel(assigned, "group") \subseteq assigned
  BY <1>1, AssignedRows
<1>7. /\ D \in Nat /\ D = Cardinality(device) /\ own \in Ordered(device) /\ lent \in Ordered(Lent(assigned))
      /\ \A i \in 1 .. D : list[i] = own[i].cred
      /\ \A i \in 1 .. Len(list) : i > D => i - D \in 1 .. G /\ list[i] = lent[i - D].cred
  BY <1>2 DEF IsResolved
<1>8. /\ \A i \in 1 .. D : own[i] \in device
      /\ \A r \in device : \E i \in 1 .. D : own[i] = r
      /\ \A i, j \in 1 .. D : own[i] = own[j] => i = j
  BY <1>6, <1>7, OrderedOnce
<1>9. /\ \A i \in 1 .. G : lent[i] \in Lent(assigned)
      /\ \A i, j \in 1 .. G : lent[i] = lent[j] => i = j
  BY <1>6, <1>7, OrderedOnce
<1>10. \A r \in device : r \in assigned /\ r.level = "device"
  BY DEF AtLevel
<1>11. \A r \in Lent(assigned), t \in assigned : t # r /\ t.cred = r.cred => t.level = "group" /\ t.priority > r.priority
  BY DEF Lent
<1>12. \A r \in Lent(assigned) : r \in assigned /\ r.level = "group" /\ r.priority \in Nat
  BY <1>6 DEF AtLevel, AssignedRow
<1> HIDE DEF device, G
\* A credential that a group lends stands in the list once.
<1>13. ASSUME NEW i \in 1 .. Len(s), i > D, NEW j \in 1 .. Len(s), s[i] = s[j] PROVE i = j
  <2>1. i \in Nat /\ j \in Nat /\ i - D \in 1 .. G /\ s[i] = lent[i - D].cred /\ lent[i - D] \in Lent(assigned)
    BY <1>3, <1>5, <1>7, <1>9, <1>13
  <2>2. CASE j > D
    <3>1. j - D \in 1 .. G /\ s[j] = lent[j - D].cred /\ lent[j - D] \in Lent(assigned)
      BY <1>5, <1>7, <1>9, <2>2
    <3>2. lent[i - D] = lent[j - D]
      <4> SUFFICES ASSUME lent[i - D] # lent[j - D] PROVE FALSE
        OBVIOUS
      <4>1. lent[j - D].priority > lent[i - D].priority
        BY <1>11, <1>12, <1>13, <2>1, <3>1
      <4>2. lent[i - D].priority > lent[j - D].priority
        BY <1>11, <1>12, <1>13, <2>1, <3>1
      <4>3. lent[i - D].priority \in Nat /\ lent[j - D].priority \in Nat
        BY <1>12, <2>1, <3>1
      <4> QED BY <4>1, <4>2, <4>3
    <3>3. i - D = j - D
      BY <1>9, <2>1, <3>1, <3>2
    <3> QED BY <1>7, <2>1, <3>3
  <2>3. CASE ~(j > D)
    <3>1. j \in 1 .. D
      BY <1>7, <2>1, <2>3
    <3>2. s[j] = own[j].cred /\ own[j] \in assigned /\ own[j].level = "device"
      BY <1>5, <1>7, <1>8, <1>10, <3>1
    <3>3. own[j] # lent[i - D]
      BY <1>12, <2>1, <3>2
    <3> QED BY <1>11, <1>13, <2>1, <3>2, <3>3
  <2> QED BY <2>2, <2>3
<1>14. ASSUME NEW i \in 1 .. Len(s), NEW j \in 1 .. Len(s), i # j, s[i] = s[j]
       PROVE  \E r, t \in device : r # t /\ r.cred = s[i] /\ t.cred = r.cred
  <2>1. ~(i > D) /\ ~(j > D)
    BY <1>13, <1>14
  <2>2. i \in 1 .. D /\ j \in 1 .. D
    BY <1>3, <1>7, <2>1
  <2>3. own[i] \in device /\ own[j] \in device /\ own[i] # own[j] /\ own[i].cred = s[i] /\ own[j].cred = s[j]
    BY <1>5, <1>7, <1>8, <1>14, <2>2
  <2> QED BY <1>14, <2>3
<1>15. ASSUME NEW i \in 1 .. Len(s), \A r \in device : r.cred # s[i], NEW r \in device
       PROVE  \E j \in 1 .. i - 1 : s[j] = r.cred
  <2>1. ~(i \in 1 .. D)
    BY <1>5, <1>7, <1>8, <1>15
  <2>2. PICK j \in 1 .. D : own[j] = r
    BY <1>8, <1>15
  <2>3. j \in 1 .. i - 1 /\ j \in 1 .. Len(s)
    BY <1>3, <1>7, <2>1
  <2>4. s[j] = r.cred
    BY <1>5, <1>7, <2>2, <2>3
  <2> QED BY <2>3, <2>4
<1> QED BY <1>3, <1>14, <1>15 DEF EachIsOfferedOnce, device, s

\* A device is offered no credential twice and none of a group's before its own ran
\* out, as far as its assignments are distinct; once it fell silent or was done with it
\* is asked nothing more; and it is left with no session but those whose logout did not
\* get through.
THEOREM DeviceIsLeftAlone == CollectionSpec => DevicesAreSpared
<1>1. CollectionInv => NoSessionIsLeft
  BY DEF CollectionInv, NoSessionIsLeft
<1>2. CollectionInv /\ [CollectionNext]_collectionVars => [atDevice.stopped => UNCHANGED <<atDevice.offered, outcome>>]_collectionVars
  <2> SUFFICES ASSUME CollectionInv, CollectionNext, atDevice.stopped PROVE UNCHANGED <<atDevice.offered, outcome>>
    OBVIOUS
  <2>1. session.step = "idle" /\ outcome # "none"
    BY DEF CollectionInv
  <2> QED BY <2>1 DEF CollectionNext, Login, Pin, Issue, IssueFails, Refuse, Store, InProfile
<1> QED BY <1>1, <1>2, OfferedOnce, OfferInductive, CollectionInductive, PTL DEF CollectionSpec, OnlyRejectionGoesOn, DevicesAreSpared

\* What is brought is what was there: no gap in a rulebase without a remark, no
\* burst of probes, nothing missing from a collection called complete.
THEOREM WhatIsBroughtIsHonest == PagingSpec /\ PacerSpec /\ CollectionSpec => []CollectionIsHonest
<1>1. CollectionInv => CompleteIsComplete
  BY DEF CollectionInv
<1> QED BY <1>1, NoGap, PaceHolds, PagingInductive, PacerInductive, CollectionInductive, PTL DEF CollectionIsHonest
=============================================================================
