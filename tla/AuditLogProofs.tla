--------------------------- MODULE AuditLogProofs ---------------------------
(***************************************************************************)
(* Machine-checked proofs about AuditLog, for any number of transactions,  *)
(* contents and batch sizes: the chain never forks, records become visible *)
(* in the order of their ids, and a replay accepts an intact table.        *)
(***************************************************************************)
EXTENDS AuditLog, FiniteSetTheorems, WellFoundedInduction, TLAPS

----------------------------------------------------------------------------
(* The inductive invariant *)

\* Ids identify records.
Keyed(S) == \A r, q \in S : r.id = q.id => r = q

\* Whoever is in record(), or has records to commit, holds the lock; its ids
\* are above every committed one.
Locked ==
    /\ \A t \in Tx : step[t] # "open" \/ mine[t] # {} => lock = t
    /\ \A t \in Tx : step[t] # "open" => nextid <= MaxId
    /\ \A r \in rows : r.id < nextid
    /\ \A t \in Tx : \A r \in mine[t] : r.id < nextid /\ \A q \in rows : q.id < r.id

\* What every transaction sees is one chain, and a tail it has read is current.
Chained ==
    /\ Keyed(rows) /\ Linear(rows)
    /\ \A t \in Tx : /\ Keyed(View(t)) /\ Linear(View(t))
                     /\ step[t] = "read" => IsTail(View(t), tail[t])

\* The replay stands at a committed record and remembers its hash.
Following ==
    /\ ver.pc # "invalid"
    /\ ver.pc = "reading" =>
          /\ IsTail({r \in rows : r.id <= ver.last}, ver.prev)
          /\ ver.last = 0 \/ \E r \in rows : r.id = ver.last

IInv == TypeOK /\ Locked /\ (losses = 0 => Chained /\ Following)

----------------------------------------------------------------------------
(* Tails *)

\* A set of records has a last one: its query returns a record.
LEMMA LastExists ==
    ASSUME NEW S, S \subseteq Entry, S # {}
    PROVE  \E r \in S : \A q \in S : q.id <= r.id
<1> DEFINE Above == {MaxId - r.id : r \in S}
<1>1. Above \subseteq Nat /\ Above # {}
  BY BoundAssumption DEF BoundAssumption, Entry
<1>2. PICK x \in Above : \A y \in Above : ~ (<<y, x>> \in OpToRel(<, Nat))
  <2> HIDE DEF Above
  <2> QED BY <1>1, NatLessThanWellFounded, WFMin, Zenon
<1>3. \A y \in Above : x <= y
  <2> SUFFICES ASSUME NEW y \in Above PROVE x <= y
    OBVIOUS
  <2>1. x \in Nat /\ y \in Nat
    BY <1>1
  <2>2. ~ (y < x)
    BY <2>1, <1>2 DEF OpToRel
  <2> HIDE DEF Above
  <2> QED BY <2>1, <2>2
<1>4. PICK r \in S : x = MaxId - r.id
  OBVIOUS
<1>5. ASSUME NEW q \in S PROVE q.id <= r.id
  <2>1. MaxId - r.id <= MaxId - q.id
    BY <1>3, <1>4
  <2> QED BY <2>1, BoundAssumption DEF BoundAssumption, Entry
<1> QED BY <1>4, <1>5

\* The query's result is the tail.
LEMMA TailExists ==
    ASSUME NEW S, S \subseteq Entry
    PROVE  IsTail(S, TailHash(S)) /\ TailHash(S) \in Hash
<1>1. CASE S = {}
  BY <1>1 DEF IsTail, TailHash, GENESIS_HASH, Hash
<1>2. CASE S # {}
  <2> DEFINE r == CHOOSE x \in S : \A q \in S : q.id <= x.id
  <2>1. r \in S /\ \A q \in S : q.id <= r.id
    BY <1>2, LastExists
  <2>2. TailHash(S) = r.hash
    BY <1>2 DEF TailHash
  <2> HIDE DEF r
  <2> QED BY <2>1, <2>2 DEF IsTail, Entry
<1> QED BY <1>1, <1>2

\* It is the only one.
LEMMA TailIsUnique ==
    ASSUME NEW S, S \subseteq Entry, \A r, q \in S : r.id = q.id => r = q,
           NEW h, NEW k, IsTail(S, h), IsTail(S, k)
    PROVE  h = k
<1>1. CASE S = {}
  BY <1>1 DEF IsTail
<1>2. CASE S # {}
  <2>1. PICK r \in S : h = r.hash /\ \A q \in S : q.id <= r.id
    BY <1>2 DEF IsTail
  <2>2. PICK s \in S : k = s.hash /\ \A q \in S : q.id <= s.id
    BY <1>2 DEF IsTail
  <2>3. r.id \in Nat /\ s.id \in Nat /\ r.id <= s.id /\ s.id <= r.id
    BY <2>1, <2>2 DEF Entry
  <2>4. r = s
    BY <2>3
  <2> QED BY <2>1, <2>2, <2>4
<1> QED BY <1>1, <1>2

\* A record appended behind an ordered chain, linked to its tail, extends it.
LEMMA AppendKeepsChain ==
    ASSUME NEW S, S \subseteq Entry, Keyed(S), Linear(S), NEW e \in Entry,
           \A q \in S : q.id < e.id,
           e.hash = compute_hash(e.content, e.prev), IsTail(S, e.prev)
    PROVE  Keyed(S \cup {e}) /\ Linear(S \cup {e})
<1>0. \A q \in S \cup {e} : q.id \in Nat
  BY DEF Entry
<1>1. Keyed(S \cup {e})
  BY <1>0 DEF Keyed
<1>2. {q \in S \cup {e} : q.id < e.id} = S
  BY <1>0
<1>3. ASSUME NEW r \in S PROVE {q \in S \cup {e} : q.id < r.id} = {q \in S : q.id < r.id}
  BY <1>0
<1>4. Linear(S \cup {e})
  BY <1>2, <1>3 DEF Linear
<1> QED BY <1>1, <1>4

\* Every query with LIMIT returns an initial part of what it selects from.
LEMMA FirstNInitial ==
    ASSUME NEW S, NEW n, NEW b \in FirstN(S, n)
    PROVE  b \subseteq S /\ \A r \in b, q \in S : q.id < r.id => q \in b
BY DEF FirstN

----------------------------------------------------------------------------
(* Types *)

\* The initial state satisfies the invariant.
LEMMA InitIInv == Init => IInv
<1> SUFFICES ASSUME Init PROVE IInv
  OBVIOUS
<1>1. GENESIS_HASH \in Hash
  BY DEF GENESIS_HASH, Hash
<1>2. TypeOK
  <2>1. rows \subseteq Entry /\ mine \in [Tx -> SUBSET Entry] /\ tail \in [Tx -> Hash]
    BY <1>1 DEF Init
  <2>2. ver \in Replay
    BY <1>1, BoundAssumption DEF BoundAssumption, Init, Replay
  <2>3. nextid \in 1..(MaxId + 1) /\ losses \in 0..MaxLosses
    BY BoundAssumption DEF BoundAssumption, Init
  <2> QED BY <2>1, <2>2, <2>3 DEF Init, TypeOK
<1>3. Locked
  BY DEF Init, Locked
<1>4. Chained /\ Following
  BY DEF Init, Chained, Following, Keyed, Linear, View
<1> QED BY <1>2, <1>3, <1>4 DEF IInv


----------------------------------------------------------------------------
(* Appending keeps the invariant *)

\* Only the holder of the lock is in record() or has records to commit.
LEMMA OthersAreIdle ==
    ASSUME Locked, TypeOK, NEW t \in Tx, lock \in {t, NoTx}, NEW u \in Tx, u # t
    PROVE  step[u] = "open" /\ mine[u] = {}
BY TxAssumption DEF TxAssumption, Locked

\* Taking the lock changes no record.
LEMMA AcquireLockStep ==
    ASSUME IInv, NEW t \in Tx, AcquireLock(t), UNCHANGED <<ver, losses, torn>>
    PROVE  IInv'
<1> USE DEF AcquireLock
<1>1. TypeOK'
  BY DEF IInv, TypeOK
<1>2. Locked'
  BY OthersAreIdle DEF IInv, Locked, TypeOK
<1>3. ASSUME losses' = 0 PROVE Chained' /\ Following'
  <2>1. \A u \in Tx : View(u)' = View(u)
    BY DEF View
  <2>2. \A u \in Tx : step'[u] = "read" => step[u] = "read"
    BY DEF IInv, TypeOK
  <2>3. Chained /\ Following
    BY <1>3 DEF IInv
  <2>4. Chained'
    BY <2>1, <2>2, <2>3 DEF Chained
  <2>5. Following'
    BY <2>3 DEF Following
  <2> QED BY <2>4, <2>5
<1> QED BY <1>1, <1>2, <1>3 DEF IInv

\* Reading the tail, with the lock held, leaves it current.
LEMMA ReadTailStep ==
    ASSUME IInv, NEW t \in Tx, ReadTail(t), UNCHANGED <<ver, losses, torn>>
    PROVE  IInv'
<1> USE DEF ReadTail
<1>1. View(t) \subseteq Entry
  BY DEF IInv, TypeOK, View
<1>2. IsTail(View(t), TailHash(View(t))) /\ TailHash(View(t)) \in Hash
  BY <1>1, TailExists
<1>3. TypeOK'
  BY <1>2 DEF IInv, TypeOK
<1>4. Locked'
  BY DEF IInv, Locked, TypeOK
<1>5. ASSUME losses' = 0 PROVE Chained' /\ Following'
  <2>1. \A u \in Tx : View(u)' = View(u)
    BY DEF View
  <2>2. Chained /\ Following
    BY <1>5 DEF IInv
  <2>3. ASSUME NEW u \in Tx, step'[u] = "read" PROVE IsTail(View(u), tail'[u])
    BY <2>2, <2>3, <1>2 DEF Chained, IInv, TypeOK
  <2>4. Chained'
    BY <2>1, <2>2, <2>3 DEF Chained
  <2>5. Following'
    BY <2>2 DEF Following
  <2> QED BY <2>4, <2>5
<1> QED BY <1>3, <1>4, <1>5 DEF IInv

\* The inserted record is linked to the tail, above every id in use.
LEMMA InsertStep ==
    ASSUME IInv, NEW t \in Tx, Insert(t), UNCHANGED <<ver, losses, torn>>
    PROVE  IInv'
<1> USE DEF Insert
<1>1. PICK c \in Content :
        mine' = [mine EXCEPT ![t] = @ \cup {[id |-> nextid, content |-> c, prev |-> tail[t],
                                             hash |-> compute_hash(c, tail[t])]}]
  OBVIOUS
<1> DEFINE e == [id |-> nextid, content |-> c, prev |-> tail[t],
                 hash |-> compute_hash(c, tail[t])]
<1>2. lock = t /\ nextid <= MaxId
  BY DEF IInv, Locked
<1>3. e \in Entry
  <2>1. nextid \in 1..MaxId
    BY <1>2, BoundAssumption DEF BoundAssumption, IInv, TypeOK
  <2>2. tail[t] \in Hash /\ compute_hash(c, tail[t]) \in Hash
    BY DEF IInv, TypeOK, Hash, compute_hash
  <2> QED BY <2>1, <2>2 DEF Entry
<1>4. mine' = [mine EXCEPT ![t] = @ \cup {e}]
  BY <1>1
<1>5. e.id = nextid /\ e.prev = tail[t] /\ e.hash = compute_hash(e.content, e.prev)
  OBVIOUS
<1> HIDE DEF e
<1>6. \A u \in Tx : u # t => step[u] = "open" /\ mine[u] = {}
  BY <1>2, OthersAreIdle DEF IInv
<1>7. TypeOK'
  BY <1>3, <1>4, <1>2, BoundAssumption DEF BoundAssumption, IInv, TypeOK
<1>8. Locked'
  <2>1. \A u \in Tx : u # t => mine'[u] = {} /\ step'[u] = "open"
    BY <1>4, <1>6 DEF IInv, TypeOK
  <2>2. step'[t] = "open" /\ mine'[t] = mine[t] \cup {e}
    BY <1>4 DEF IInv, TypeOK
  <2>3. \A r \in rows \cup mine[t] : r.id < nextid /\ r.id \in Nat
    BY DEF IInv, TypeOK, Locked, Entry
  <2>4. nextid \in Nat
    BY DEF IInv, TypeOK
  <2> QED BY <1>2, <1>5, <2>1, <2>2, <2>3, <2>4 DEF IInv, Locked
<1>9. ASSUME losses' = 0 PROVE Chained' /\ Following'
  <2>1. Chained /\ Following
    BY <1>9 DEF IInv
  <2>2. View(t)' = View(t) \cup {e}
    BY <1>4 DEF View, IInv, TypeOK
  <2>3. \A u \in Tx : u # t => View(u)' = View(u)
    BY <1>4 DEF View, IInv, TypeOK
  <2>4. View(t) \subseteq Entry /\ \A q \in View(t) : q.id < e.id
    BY <1>5 DEF IInv, TypeOK, Locked, View
  <2>5. Keyed(View(t)) /\ Linear(View(t)) /\ IsTail(View(t), e.prev)
    BY <2>1, <1>5 DEF Chained
  <2>6. Keyed(View(t) \cup {e}) /\ Linear(View(t) \cup {e})
    BY <2>4, <2>5, <1>3, <1>5, AppendKeepsChain
  <2>7. \A u \in Tx : step'[u] = "open"
    BY <1>6 DEF IInv, TypeOK
  <2>8. Chained'
    BY <2>1, <2>2, <2>3, <2>6, <2>7 DEF Chained
  <2>9. Following'
    BY <2>1 DEF Following
  <2> QED BY <2>8, <2>9
<1> QED BY <1>7, <1>8, <1>9 DEF IInv

\* A commit publishes one transaction's view; nobody else's changes.
LEMMA CommitStep ==
    ASSUME IInv, NEW t \in Tx, Commit(t), UNCHANGED <<ver, losses, torn>>
    PROVE  IInv'
<1> USE DEF Commit
<1>1. TypeOK'
  BY DEF IInv, TypeOK
<1>2. mine[t] # {} => lock = t /\ \A u \in Tx : u # t => step[u] = "open" /\ mine[u] = {}
  BY OthersAreIdle DEF IInv, Locked
<1>3. /\ mine'[t] = {} /\ step'[t] = "open"
      /\ \A u \in Tx : u # t => mine'[u] = mine[u] /\ step'[u] = step[u]
  BY DEF IInv, TypeOK
<1>4. Locked'
  <2>1. \A u \in Tx : step'[u] # "open" \/ mine'[u] # {} => lock' = u
    BY <1>3 DEF IInv, Locked
  <2>2. \A u \in Tx : step'[u] # "open" => nextid' <= MaxId
    BY DEF IInv, Locked
  <2>3. \A r \in rows' : r.id < nextid'
    BY DEF IInv, Locked
  <2>4. ASSUME NEW u \in Tx, NEW r \in mine'[u]
        PROVE  r.id < nextid' /\ \A q \in rows' : q.id < r.id
    <3>1. u # t /\ r \in mine[u] /\ mine[t] = {}
      BY <1>2, <1>3, <2>4
    <3> QED BY <3>1 DEF IInv, Locked
  <2> QED BY <2>1, <2>2, <2>3, <2>4 DEF Locked
<1>5. ASSUME losses' = 0 PROVE Chained' /\ Following'
  <2>1. Chained /\ Following
    BY <1>5 DEF IInv
  <2>2. Keyed(rows') /\ Linear(rows')
    BY <2>1 DEF Chained, View
  <2>3. View(t)' = rows'
    BY <1>3 DEF View
  <2>4. ASSUME NEW u \in Tx, u # t
        PROVE  /\ Keyed(View(u)') /\ Linear(View(u)')
               /\ step'[u] = "read" => IsTail(View(u)', tail'[u])
    <3>1. CASE mine[t] = {}
      <4>1. View(u)' = View(u)
        BY <1>3, <2>4, <3>1 DEF View
      <4> QED BY <4>1, <1>3, <2>1, <2>4 DEF Chained
    <3>2. CASE mine[t] # {}
      <4>1. View(u)' = rows' /\ step'[u] = "open"
        BY <1>2, <1>3, <2>4, <3>2 DEF View
      <4> QED BY <4>1, <2>2
    <3> QED BY <3>1, <3>2
  <2>5. Chained'
    BY <1>3, <2>2, <2>3, <2>4 DEF Chained
  <2>6. ASSUME ver'.pc = "reading"
        PROVE  /\ IsTail({r \in rows' : r.id <= ver'.last}, ver'.prev)
               /\ ver'.last = 0 \/ \E r \in rows' : r.id = ver'.last
    <3>1. ver.last \in Nat /\ \A r \in rows' : r.id \in Nat \ {0}
      BY BoundAssumption, <1>1 DEF BoundAssumption, IInv, TypeOK, Replay, Entry
    <3>2. /\ IsTail({r \in rows : r.id <= ver.last}, ver.prev)
          /\ ver.last = 0 \/ \E r \in rows : r.id = ver.last
      BY <2>1, <2>6 DEF Following
    <3>3. \A r \in mine[t], q \in rows : q.id < r.id
      BY DEF IInv, Locked
    <3>4. \A r \in mine[t] : ~ (r.id <= ver.last)
      BY <3>1, <3>2, <3>3
    <3>5. {r \in rows' : r.id <= ver.last} = {r \in rows : r.id <= ver.last}
      BY <3>4
    <3> QED BY <3>2, <3>5
  <2>7. Following'
    BY <2>1, <2>6 DEF Following
  <2> QED BY <2>5, <2>7
<1> QED BY <1>1, <1>4, <1>5 DEF IInv

\* A rollback leaves the transaction with the committed rows.
LEMMA RollBackStep ==
    ASSUME IInv, NEW t \in Tx, RollBack(t), UNCHANGED <<ver, losses, torn>>
    PROVE  IInv'
<1> USE DEF RollBack
<1>1. TypeOK'
  BY DEF IInv, TypeOK
<1>2. /\ mine'[t] = {} /\ step'[t] = "open"
      /\ \A u \in Tx : u # t => mine'[u] = mine[u] /\ step'[u] = step[u]
  BY DEF IInv, TypeOK
<1>3. Locked'
  BY <1>2 DEF IInv, Locked
<1>4. ASSUME losses' = 0 PROVE Chained' /\ Following'
  <2>1. Chained /\ Following
    BY <1>4 DEF IInv
  <2>2. View(t)' = rows /\ \A u \in Tx : u # t => View(u)' = View(u)
    BY <1>2 DEF View
  <2>3. Chained'
    BY <1>2, <2>1, <2>2 DEF Chained
  <2>4. Following'
    BY <2>1 DEF Following
  <2> QED BY <2>3, <2>4
<1> QED BY <1>1, <1>3, <1>4 DEF IInv

----------------------------------------------------------------------------
(* Replaying and losing keep the invariant *)

\* A replay starts at the anchor.
LEMMA StartReplayStep ==
    ASSUME IInv, StartReplay PROVE IInv'
<1> USE DEF StartReplay, log
<1>1. TypeOK'
  BY BoundAssumption DEF BoundAssumption, IInv, TypeOK, Replay, GENESIS_HASH, Hash
<1>2. Locked'
  BY DEF IInv, Locked
<1>3. ASSUME losses' = 0 PROVE Chained' /\ Following'
  <2>1. Chained'
    BY <1>3 DEF IInv, Chained, View
  <2>2. \A r \in rows : ~ (r.id <= 0)
    BY DEF IInv, TypeOK, Entry
  <2>3. {r \in rows' : r.id <= ver'.last} = {}
    BY <2>2
  <2>4. Following'
    BY <2>3 DEF Following, IsTail
  <2> QED BY <2>1, <2>4
<1> QED BY <1>1, <1>2, <1>3 DEF IInv

\* The next batch of an intact chain follows on from what was replayed.
LEMMA BatchIsValid ==
    ASSUME IInv, losses = 0, ver.pc = "reading",
           NEW b \in FirstN({r \in rows : r.id > ver.last}, BatchSize)
    PROVE  Invalid(b, ver.prev) = {}
<1> DEFINE R == {r \in rows : r.id > ver.last}
<1>1. b \subseteq R /\ \A r \in b, q \in R : q.id < r.id => q \in b
  BY FirstNInitial
<1>2. Keyed(rows) /\ Linear(rows) /\ IsTail({r \in rows : r.id <= ver.last}, ver.prev)
  BY DEF IInv, Chained, Following
<1>3. rows \subseteq Entry /\ ver.last \in Nat /\ \A r \in rows : r.id \in Nat
  BY BoundAssumption DEF BoundAssumption, IInv, TypeOK, Replay, Entry
<1>4. ASSUME NEW r \in b
      PROVE  r.prev = Expected(b, r, ver.prev) /\ r.hash = compute_hash(r.content, r.prev)
  <2> DEFINE before == {q \in b : q.id < r.id}
             S == {q \in rows : q.id < r.id}
  <2>1. r \in rows /\ r.id > ver.last
    BY <1>1
  <2>2. IsTail(S, r.prev) /\ r.hash = compute_hash(r.content, r.prev)
    BY <1>2, <2>1 DEF Linear
  <2>3. \A q \in S : q.id > ver.last => q \in before
    BY <1>1
  <2>4. S \subseteq Entry /\ \A p, q \in S : p.id = q.id => p = q
    BY <1>2, <1>3 DEF Keyed
  <2>5. CASE before = {}
    <3>1. S = {q \in rows : q.id <= ver.last}
      <4>1. ASSUME NEW q \in rows PROVE q.id < r.id <=> q.id <= ver.last
        BY <2>1, <2>3, <2>5, <1>3
      <4> QED BY <4>1
    <3>2. Expected(b, r, ver.prev) = ver.prev
      BY <2>5 DEF Expected
    <3>3. IsTail(S, ver.prev)
      BY <3>1, <1>2
    <3> HIDE DEF S, before
    <3>4. r.prev = ver.prev
      BY <2>2, <2>4, <3>3, TailIsUnique
    <3> QED BY <2>2, <3>2, <3>4
  <2>6. CASE before # {}
    <3>1. Expected(b, r, ver.prev) = TailHash(before)
      BY <2>6 DEF Expected
    <3>2. before \subseteq S /\ before \subseteq Entry
      BY <1>1, <1>3
    <3>3. IsTail(before, TailHash(before))
      BY <3>2, TailExists
    <3>4. PICK l \in before : TailHash(before) = l.hash /\ \A q \in before : q.id <= l.id
      BY <2>6, <3>3 DEF IsTail
    <3>5. l \in S /\ l.id > ver.last
      BY <1>1, <3>2
    <3>6. \A q \in S : q.id <= l.id
      <4>1. ASSUME NEW q \in S, ~ (q.id > ver.last) PROVE q.id <= l.id
        BY <4>1, <3>5, <1>3
      <4> QED BY <4>1, <2>3, <3>4
    <3>7. IsTail(S, TailHash(before))
      BY <3>4, <3>5, <3>6 DEF IsTail
    <3> HIDE DEF S, before
    <3>8. r.prev = TailHash(before)
      BY <2>2, <2>4, <3>7, TailIsUnique
    <3> QED BY <2>2, <3>1, <3>8
  <2> QED BY <2>5, <2>6
<1> QED BY <1>4 DEF Invalid

\* Reading a batch moves the replay to the batch's last record.
LEMMA ReadBatchStep ==
    ASSUME IInv, ReadBatch PROVE IInv'
<1>1. PICK b \in FirstN({r \in rows : r.id > ver.last}, BatchSize) :
        \/ b = {} /\ ver' = [ver EXCEPT !.pc = "valid"]
        \/ Invalid(b, ver.prev) # {} /\ ver' = [ver EXCEPT !.pc = "invalid"]
        \/ /\ Invalid(b, ver.prev) = {}
           /\ \E r \in b : /\ \A q \in b : q.id <= r.id
                           /\ ver' = [ver EXCEPT !.last = r.id, !.prev = r.hash]
  BY DEF ReadBatch
<1>2. ver.pc = "reading" /\ UNCHANGED <<log, losses, torn>>
  BY DEF ReadBatch
<1>3. b \subseteq rows /\ \A r \in b, q \in rows : q.id > ver.last /\ q.id < r.id => q \in b
  BY FirstNInitial
<1>4. TypeOK'
  <2>1. \A r \in b : r.id \in 0..MaxId /\ r.hash \in Hash
    BY <1>3 DEF IInv, TypeOK, Entry
  <2>2. ver' \in Replay
    BY <1>1, <2>1 DEF IInv, TypeOK, Replay
  <2> QED BY <1>2, <2>2 DEF IInv, TypeOK, log
<1>5. Locked'
  BY <1>2 DEF IInv, Locked, log
<1>6. ASSUME losses' = 0 PROVE Chained' /\ Following'
  <2>1. losses = 0 /\ Chained /\ Following
    BY <1>2, <1>6 DEF IInv
  <2>2. Chained'
    BY <1>2, <2>1 DEF Chained, View, log
  <2>3. Invalid(b, ver.prev) = {}
    BY <1>2, <2>1, BatchIsValid
  <2>4. CASE b = {} /\ ver' = [ver EXCEPT !.pc = "valid"]
    BY <2>2, <2>4 DEF Following, IInv, TypeOK, Replay
  <2>5. ASSUME NEW r \in b, ver' = [ver EXCEPT !.last = r.id, !.prev = r.hash]
        PROVE  Following'
    <3>1. ver'.pc = "reading" /\ ver'.last = r.id /\ ver'.prev = r.hash
      BY <1>2, <2>5 DEF IInv, TypeOK, Replay
    <3>2. r \in rows /\ r.id \in Nat
      BY <1>3 DEF IInv, TypeOK, Entry
    <3>3. IsTail({q \in rows : q.id <= r.id}, r.hash)
      BY <3>2 DEF IsTail
    <3> QED BY <1>2, <3>1, <3>2, <3>3 DEF Following, log
  <2> QED BY <1>1, <2>2, <2>3, <2>4, <2>5
<1> QED BY <1>4, <1>5, <1>6 DEF IInv

\* A loss leaves ids and locks as they were.
LEMMA LoseStep ==
    ASSUME IInv, NEW r \in rows, Lose(r) PROVE IInv'
<1>1. losses' \in 0..MaxLosses /\ losses' # 0
  BY BoundAssumption DEF BoundAssumption, Lose, IInv, TypeOK
<1>2. rows' \subseteq Entry /\ \A p \in rows' : \E q \in rows : p.id = q.id
  <2>1. CASE rows' = rows \ {r}
    BY <2>1 DEF IInv, TypeOK
  <2>2. ASSUME NEW c \in Content, rows' = (rows \ {r}) \cup {[r EXCEPT !.content = c]}
        PROVE  rows' \subseteq Entry /\ \A p \in rows' : \E q \in rows : p.id = q.id
    <3>1. [r EXCEPT !.content = c] \in Entry /\ [r EXCEPT !.content = c].id = r.id
      BY DEF IInv, TypeOK, Entry
    <3> QED BY <2>2, <3>1 DEF IInv, TypeOK
  <2> QED BY <2>1, <2>2 DEF Lose
<1>3. TypeOK'
  <2>1. torn' \in BOOLEAN
    BY DEF Lose, IInv, TypeOK
  <2> QED BY <1>1, <1>2, <2>1 DEF Lose, IInv, TypeOK
<1>4. Locked'
  <2>1. \A u \in Tx : \A p \in mine'[u] : p.id < nextid' /\ \A q \in rows' : q.id < p.id
    BY <1>2 DEF Lose, IInv, Locked
  <2> QED BY <1>2, <2>1 DEF Lose, IInv, Locked
<1> QED BY <1>1, <1>3, <1>4 DEF IInv

----------------------------------------------------------------------------
(* The theorems *)

\* Every step keeps the invariant.
LEMMA StepIInv == IInv /\ [Next]_vars => IInv'
<1> SUFFICES ASSUME IInv, [Next]_vars PROVE IInv'
  OBVIOUS
<1>1. ASSUME NEW t \in Tx, AcquireLock(t), UNCHANGED <<ver, losses, torn>> PROVE IInv'
  BY <1>1, AcquireLockStep
<1>2. ASSUME NEW t \in Tx, ReadTail(t), UNCHANGED <<ver, losses, torn>> PROVE IInv'
  BY <1>2, ReadTailStep
<1>3. ASSUME NEW t \in Tx, Insert(t), UNCHANGED <<ver, losses, torn>> PROVE IInv'
  BY <1>3, InsertStep
<1>4. ASSUME NEW t \in Tx, Commit(t), UNCHANGED <<ver, losses, torn>> PROVE IInv'
  BY <1>4, CommitStep
<1>5. ASSUME NEW t \in Tx, RollBack(t), UNCHANGED <<ver, losses, torn>> PROVE IInv'
  BY <1>5, RollBackStep
<1>6. CASE StartReplay
  BY <1>6, StartReplayStep
<1>7. CASE ReadBatch
  BY <1>7, ReadBatchStep
<1>8. ASSUME NEW r \in rows, Lose(r) PROVE IInv'
  BY <1>8, LoseStep
<1>9. CASE UNCHANGED vars
  BY <1>9 DEF vars, log, IInv, TypeOK, Locked, Chained, Following, View
<1> QED BY <1>1, <1>2, <1>3, <1>4, <1>5, <1>6, <1>7, <1>8, <1>9 DEF Next

\* The invariant holds in every reachable state.
THEOREM Inductive == Spec => []IInv
BY InitIInv, StepIInv, PTL DEF Spec

\* Every variable keeps its type.
THEOREM TypeCorrectness == Spec => []TypeOK
<1>1. IInv => TypeOK
  BY DEF IInv
<1> QED BY Inductive, <1>1, PTL

\* Concurrent appends and rollbacks never fork or break the chain.
THEOREM ChainNeverForks == Spec => []ChainIsLinear
<1>1. IInv => ChainIsLinear
  BY DEF IInv, Chained, ChainIsLinear
<1> QED BY Inductive, <1>1, PTL

\* A replay that runs beside appends accepts an intact table.
THEOREM ReplayIsExact == Spec => []IntactIsValid
<1>1. IInv => IntactIsValid
  BY BoundAssumption DEF BoundAssumption, IInv, TypeOK, Following, IntactIsValid
<1> QED BY Inductive, <1>1, PTL

\* Records become visible in the order of their ids.
THEOREM VisibleInOrder == Spec => IdsFollowCommits
<1> DEFINE A == losses' = losses => \A r \in rows' \ rows : \A q \in rows : q.id < r.id
<1>1. ASSUME IInv, [Next]_vars PROVE A
  <2>1. CASE rows' = rows
    BY <2>1
  <2>2. ASSUME NEW t \in Tx, Commit(t) PROVE A
    BY <1>1, <2>2 DEF Commit, IInv, Locked
  <2>3. ASSUME NEW r \in rows, Lose(r) PROVE A
    BY <1>1, <2>3 DEF Lose, IInv, TypeOK
  <2> QED
    BY <1>1, <2>1, <2>2, <2>3
       DEF Next, vars, log, AcquireLock, ReadTail, Insert, RollBack, StartReplay, ReadBatch
<1>2. IInv /\ [Next]_vars => [A]_vars
  BY <1>1
<1> QED BY Inductive, <1>2, PTL DEF Spec, IdsFollowCommits

----------------------------------------------------------------------------
(* A loss is reported *)

\* What the replay has read so far is one chain, and it remembers where it ends.
Checked ==
    /\ Linear({r \in rows : r.id <= ver.last}) /\ IsTail({r \in rows : r.id <= ver.last}, ver.prev)
    /\ ver.last = 0 \/ \E r \in rows : r.id = ver.last

\* One loss under later records breaks the chain for good, so a replay that starts
\* afterwards never comes to its end.
LossInv ==
    /\ Keyed(rows) /\ \A t \in Tx : Keyed(mine[t])
    /\ torn => losses # 0
    /\ ver.torn => torn
    /\ losses <= 1 =>
          /\ torn => ~Linear(rows)
          /\ ver.torn => ver.pc # "valid" /\ (ver.pc = "reading" => Checked)

\* A record changed or taken out from under later ones.
LEMMA LossBreaks ==
    ASSUME IInv, losses = 0, NEW r \in rows, Lose(r), \E q \in rows : q.id > r.id
    PROVE  ~Linear(rows')
<1>1. rows \subseteq Entry /\ Keyed(rows) /\ Linear(rows) /\ \A p \in rows : p.id \in Nat
  BY DEF IInv, TypeOK, Chained, Entry
<1>2. r.hash = compute_hash(r.content, r.prev) /\ r.prev \in Seq(Content) /\ r.content \in Content
  BY <1>1 DEF Linear, Entry, Hash
<1>3. CASE rows' = rows \ {r}
  <2> DEFINE later == {q \in rows : q.id > r.id}
  <2>1. later \subseteq Entry /\ later # {}
    BY <1>1
  <2>2. PICK f \in later : \A q \in later : f.id <= q.id
    <3> DEFINE ids == {q.id : q \in later}
    <3>1. ids \subseteq Nat /\ ids # {}
      BY <1>1, <2>1
    <3>2. PICK x \in ids : \A y \in ids : ~ (<<y, x>> \in OpToRel(<, Nat))
      <4> HIDE DEF ids
      <4> QED BY <3>1, NatLessThanWellFounded, WFMin, Zenon
    <3>3. PICK f \in later : f.id = x
      BY <3>2
    <3>4. ASSUME NEW q \in later PROVE f.id <= q.id
      <4>1. q.id \in ids /\ q.id \in Nat /\ x \in Nat
        BY <3>1, <3>2
      <4>2. ~ (q.id < x)
        BY <3>2, <4>1 DEF OpToRel
      <4> QED BY <3>3, <4>1, <4>2
    <3> QED BY <3>4
  <2>3. f \in rows /\ f.id > r.id
    OBVIOUS
  <2>4. IsTail({q \in rows : q.id < f.id}, f.prev)
    BY <1>1, <2>3 DEF Linear
  <2>5. \A q \in rows : q.id < f.id => q.id <= r.id
    <3>1. ASSUME NEW q \in rows, q.id < f.id, ~(q.id <= r.id) PROVE FALSE
      <4>1. q \in later
        BY <1>1, <3>1
      <4> QED BY <1>1, <2>2, <2>3, <3>1, <4>1
    <3> QED BY <3>1
  <2>6. f.prev = r.hash
    <3>1. IsTail({q \in rows : q.id < f.id}, r.hash)
      BY <1>1, <2>3, <2>5 DEF IsTail
    <3> DEFINE S == {q \in rows : q.id < f.id}
    <3>2. S \subseteq Entry /\ \A p, q \in S : p.id = q.id => p = q
      BY <1>1 DEF Keyed
    <3>3. IsTail(S, f.prev) /\ IsTail(S, r.hash)
      BY <2>4, <3>1
    <3> HIDE DEF S
    <3> QED BY <3>2, <3>3, TailIsUnique
  <2>7. {q \in rows' : q.id < f.id} = {q \in rows : q.id < r.id}
    <3>1. ASSUME NEW q \in rows, q # r PROVE q.id < f.id <=> q.id < r.id
      <4>1. q.id # r.id
        BY <1>1, <3>1 DEF Keyed
      <4> QED BY <1>1, <2>3, <2>5, <3>1, <4>1
    <3> QED BY <1>1, <1>3, <3>1
  <2>8. f \in rows'
    BY <1>1, <1>3, <2>3
  <2>9. ASSUME Linear(rows') PROVE FALSE
    <3> DEFINE S == {q \in rows : q.id < r.id}
    <3>1. IsTail(S, r.hash) /\ IsTail(S, r.prev)
      BY <1>1, <2>6, <2>7, <2>8, <2>9 DEF Linear
    <3>2. S \subseteq Entry /\ \A p, q \in S : p.id = q.id => p = q
      BY <1>1 DEF Keyed
    <3> HIDE DEF S
    <3>3. r.hash = r.prev
      BY <3>1, <3>2, TailIsUnique
    <3>4. Len(r.hash) = Len(r.prev) + 1
      BY <1>2 DEF compute_hash
    <3> QED BY <1>2, <3>3, <3>4
  <2> QED BY <2>9
<1>4. ASSUME NEW c \in Content \ {r.content}, rows' = (rows \ {r}) \cup {[r EXCEPT !.content = c]}
      PROVE  ~Linear(rows')
  <2> DEFINE new == [r EXCEPT !.content = c]
  <2>1. new \in rows' /\ new.content = c /\ new.prev = r.prev /\ new.hash = r.hash
    BY <1>1, <1>4 DEF Entry
  <2> HIDE DEF new
  <2>2. Append(r.prev, c) # Append(r.prev, r.content)
    <3>1. Append(r.prev, c)[Len(r.prev) + 1] = c /\ Append(r.prev, r.content)[Len(r.prev) + 1] = r.content
      BY <1>2
    <3> QED BY <3>1
  <2> QED BY <1>2, <2>1, <2>2 DEF Linear, compute_hash
<1> QED BY <1>3, <1>4 DEF Lose

\* A step that appends behind every committed record leaves the replay what it read.
LEMMA CheckedLasts ==
    ASSUME IInv, rows \subseteq rows', \A r \in rows' \ rows : r \in Entry /\ \A q \in rows : q.id < r.id,
           ver' = ver
    PROVE  /\ Linear(rows') => Linear(rows)
           /\ Checked => Checked'
<1>1. \A r \in rows' : r.id \in Nat /\ r.id # 0
  BY BoundAssumption DEF IInv, TypeOK, Entry
<1>2. ASSUME Linear(rows'), NEW r \in rows PROVE {q \in rows' : q.id < r.id} = {q \in rows : q.id < r.id}
  BY <1>1
<1>3. Linear(rows') => Linear(rows)
  BY <1>2 DEF Linear
<1>4. ASSUME ver.last = 0 \/ \E r \in rows : r.id = ver.last
      PROVE  {r \in rows' : r.id <= ver.last} = {r \in rows : r.id <= ver.last}
  <2>1. ASSUME NEW r \in rows' \ rows PROVE ~(r.id <= ver.last)
    BY <1>1, <1>4
  <2> QED BY <2>1
<1> QED BY <1>3, <1>4 DEF Checked

\* What the replay has read, with the next valid batch.
LEMMA BatchChecks ==
    ASSUME IInv, Keyed(rows), Checked, NEW b \in FirstN({r \in rows : r.id > ver.last}, BatchSize), Invalid(b, ver.prev) = {},
           NEW e \in b, \A q \in b : q.id <= e.id
    PROVE  /\ Linear({r \in rows : r.id <= e.id}) /\ IsTail({r \in rows : r.id <= e.id}, e.hash)
<1>1. b \subseteq {r \in rows : r.id > ver.last} /\ \A r \in b, q \in rows : q.id > ver.last /\ q.id < r.id => q \in b
  BY FirstNInitial
<1>2. rows \subseteq Entry /\ ver.last \in Nat /\ \A r \in rows : r.id \in Nat
  BY BoundAssumption DEF BoundAssumption, IInv, TypeOK, Replay, Entry
<1> DEFINE R == {r \in rows : r.id <= e.id}
           P == {r \in rows : r.id <= ver.last}
<1>3. e \in rows /\ e.id > ver.last
  BY <1>1
<1>4. \A r \in R : {q \in R : q.id < r.id} = {q \in rows : q.id < r.id}
  BY <1>2, <1>3
<1>5. ASSUME NEW r \in R
      PROVE  r.hash = compute_hash(r.content, r.prev) /\ IsTail({q \in rows : q.id < r.id}, r.prev)
  <2>1. CASE r.id <= ver.last
    <3>1. r \in P
      BY <2>1
    <3>2. {q \in P : q.id < r.id} = {q \in rows : q.id < r.id}
      BY <1>2, <2>1
    <3> QED BY <3>1, <3>2 DEF Checked, Linear
  <2>2. CASE ~(r.id <= ver.last)
    <3> DEFINE before == {q \in b : q.id < r.id}
               S == {q \in rows : q.id < r.id}
    <3>1. r \in b
      BY <1>1, <1>2, <1>3, <2>2 DEF Keyed
    <3>2. r.prev = Expected(b, r, ver.prev) /\ r.hash = compute_hash(r.content, r.prev)
      BY <3>1 DEF Invalid
    <3>3. CASE before = {}
      <4>1. ASSUME NEW q \in rows PROVE q.id < r.id <=> q.id <= ver.last
        BY <1>1, <1>2, <2>2, <3>1, <3>3
      <4>2. S = P
        BY <4>1
      <4>3. r.prev = ver.prev
        BY <3>2, <3>3 DEF Expected
      <4> QED BY <3>2, <4>2, <4>3 DEF Checked
    <3>4. CASE before # {}
      <4>1. Expected(b, r, ver.prev) = TailHash(before)
        BY <3>4 DEF Expected
      <4>2. before \subseteq S /\ before \subseteq Entry
        BY <1>1, <1>2
      <4>3. IsTail(before, TailHash(before))
        BY <4>2, TailExists
      <4>4. PICK l \in before : TailHash(before) = l.hash /\ \A q \in before : q.id <= l.id
        BY <3>4, <4>3 DEF IsTail
      <4>5. l \in S /\ l.id > ver.last
        BY <1>1, <4>2
      <4>6. ASSUME NEW q \in S PROVE q.id <= l.id
        <5>1. q \in rows /\ l \in rows
          BY <4>5
        <5>2. CASE q.id > ver.last
          <6>1. q \in before
            BY <1>1, <3>1, <5>2
          <6> QED BY <4>4, <6>1
        <5>3. CASE ~(q.id > ver.last)
          BY <1>2, <4>5, <5>1, <5>3
        <5> QED BY <5>2, <5>3
      <4>7. IsTail(S, TailHash(before))
        BY <4>4, <4>5, <4>6 DEF IsTail
      <4> QED BY <3>2, <4>1, <4>7
    <3> QED BY <3>3, <3>4
  <2> QED BY <2>1, <2>2
<1>6. Linear(R)
  BY <1>4, <1>5 DEF Linear
<1>7. IsTail(R, e.hash)
  BY <1>3, <1>2 DEF IsTail
<1> QED BY <1>6, <1>7

LEMMA LossInit == Init => LossInv
BY DEF Init, LossInv, Keyed

LEMMA LossStep == IInv /\ LossInv /\ [Next]_vars => LossInv'
<1> SUFFICES ASSUME IInv, LossInv, [Next]_vars PROVE LossInv'
  OBVIOUS
<1>0. rows \subseteq Entry /\ losses \in Nat /\ (\A r \in rows : r.id \in Nat) /\ mine \in [Tx -> SUBSET Entry] /\ ver \in Replay
  BY BoundAssumption DEF IInv, TypeOK, Entry
<1>1. CASE UNCHANGED <<rows, mine, ver, losses, torn>>
  BY <1>1 DEF LossInv, Keyed, Checked, Linear, IsTail
<1>2. ASSUME NEW t \in Tx, Insert(t), UNCHANGED <<ver, losses, torn>> PROVE LossInv'
  <2>1. PICK c \in Content : mine' = [mine EXCEPT ![t] = @ \cup {[id |-> nextid, content |-> c, prev |-> tail[t], hash |-> compute_hash(c, tail[t])]}]
    BY <1>2 DEF Insert
  <2> DEFINE e == [id |-> nextid, content |-> c, prev |-> tail[t], hash |-> compute_hash(c, tail[t])]
  <2>2. mine' = [mine EXCEPT ![t] = mine[t] \cup {e}] /\ e.id = nextid
    BY <2>1
  <2> HIDE DEF e
  <2>3. \A r \in mine[t] : r.id < nextid /\ r.id \in Nat
    BY <1>0 DEF IInv, Locked, Entry
  <2>4. nextid \in Nat
    BY BoundAssumption DEF IInv, TypeOK
  <2>5. Keyed(mine[t] \cup {e})
    BY <2>2, <2>3, <2>4 DEF LossInv, Keyed
  <2>6. ASSUME NEW u \in Tx PROVE Keyed(mine'[u])
    <3>1. mine'[u] = IF u = t THEN mine[t] \cup {e} ELSE mine[u]
      BY <1>0, <2>2
    <3> QED BY <2>5, <3>1 DEF LossInv
  <2>7. UNCHANGED <<rows, ver, losses, torn>>
    BY <1>2 DEF Insert
  <2> QED BY <2>6, <2>7 DEF LossInv, Keyed, Checked, Linear, IsTail
<1>3. ASSUME NEW t \in Tx, Commit(t), UNCHANGED <<ver, losses, torn>> PROVE LossInv'
  <2>1. rows' = rows \cup mine[t] /\ mine' = [mine EXCEPT ![t] = {}]
    BY <1>3 DEF Commit
  <2>2. \A r \in mine[t] : r \in Entry /\ r.id \in Nat /\ \A q \in rows : q.id < r.id
    BY <1>0 DEF IInv, Locked, Entry
  <2>3. Keyed(rows')
    BY <1>0, <2>1, <2>2 DEF LossInv, Keyed
  <2>4. \A u \in Tx : Keyed(mine'[u])
    BY <1>0, <2>1 DEF LossInv, Keyed
  <2>5. (Linear(rows') => Linear(rows)) /\ (Checked => Checked')
    BY <1>3, <2>1, <2>2, CheckedLasts
  <2> QED BY <1>3, <2>3, <2>4, <2>5 DEF LossInv
<1>4. ASSUME NEW t \in Tx, RollBack(t), UNCHANGED <<ver, losses, torn>> PROVE LossInv'
  <2>1. UNCHANGED <<rows, ver, losses, torn>> /\ mine' = [mine EXCEPT ![t] = {}]
    BY <1>4 DEF RollBack
  <2>2. \A u \in Tx : Keyed(mine'[u])
    BY <1>0, <2>1 DEF LossInv, Keyed
  <2> QED BY <2>1, <2>2 DEF LossInv, Keyed, Checked, Linear, IsTail
<1>5. CASE StartReplay
  <2>1. UNCHANGED <<rows, mine, losses, torn>> /\ ver' = [pc |-> "reading", last |-> 0, prev |-> GENESIS_HASH, torn |-> torn]
    BY <1>5 DEF StartReplay, log
  <2>2. {r \in rows' : r.id <= ver'.last} = {}
    BY <1>0, <2>1, BoundAssumption DEF IInv, TypeOK, Entry
  <2>3. Checked'
    BY <2>1, <2>2 DEF Checked, Linear, IsTail
  <2> QED BY <2>1, <2>3 DEF LossInv, Keyed, Linear, IsTail
<1>6. CASE ReadBatch
  <2>1. UNCHANGED <<rows, mine, losses, torn>> /\ ver.pc = "reading"
    BY <1>6 DEF ReadBatch, log
  <2>2. PICK b \in FirstN({r \in rows : r.id > ver.last}, BatchSize) :
        \/ b = {} /\ ver' = [ver EXCEPT !.pc = "valid"]
        \/ Invalid(b, ver.prev) # {} /\ ver' = [ver EXCEPT !.pc = "invalid"]
        \/ /\ Invalid(b, ver.prev) = {}
           /\ \E r \in b : /\ \A q \in b : q.id <= r.id
                           /\ ver' = [ver EXCEPT !.last = r.id, !.prev = r.hash]
    BY <1>6 DEF ReadBatch
  <2>3. ver'.torn = ver.torn
    BY <1>0, <2>2 DEF Replay
  <2>4. ASSUME losses <= 1, ver.torn PROVE ver'.pc # "valid" /\ (ver'.pc = "reading" => Checked')
    <3>1. Checked /\ ~Linear(rows) /\ Keyed(rows)
      BY <2>1, <2>4 DEF LossInv
    <3>2. CASE b = {} /\ ver' = [ver EXCEPT !.pc = "valid"]
      <4> DEFINE R == {r \in rows : r.id > ver.last}
      <4>1. R = {}
        <5>1. Cardinality({}) = 0 /\ BatchSize # 0
          BY FS_EmptySet, BoundAssumption DEF BoundAssumption
        <5>2. IF b = R THEN Cardinality(b) <= BatchSize ELSE Cardinality(b) = BatchSize
          BY DEF FirstN
        <5> QED BY <3>2, <5>1, <5>2
      <4>2. {r \in rows : r.id <= ver.last} = rows
        <5>1. ver.last \in Nat
          BY <1>0, BoundAssumption DEF BoundAssumption, Replay
        <5>2. \A r \in rows : ~(r.id > ver.last)
          BY <4>1
        <5> QED BY <1>0, <5>1, <5>2
      <4> QED BY <3>1, <4>2 DEF Checked
    <3>3. CASE ver' = [ver EXCEPT !.pc = "invalid"]
      BY <1>0, <3>3 DEF Replay
    <3>4. ASSUME Invalid(b, ver.prev) = {}, NEW e \in b, \A q \in b : q.id <= e.id, ver' = [ver EXCEPT !.last = e.id, !.prev = e.hash]
          PROVE  ver'.pc # "valid" /\ Checked'
      <4>1. ver'.pc = "reading" /\ ver'.last = e.id /\ ver'.prev = e.hash
        BY <1>0, <2>1, <3>4 DEF Replay
      <4>2. Linear({r \in rows : r.id <= e.id}) /\ IsTail({r \in rows : r.id <= e.id}, e.hash)
        BY <3>1, <3>4, BatchChecks
      <4>3. e \in rows
        BY FirstNInitial
      <4>4. Linear({r \in rows' : r.id <= ver'.last}) /\ IsTail({r \in rows' : r.id <= ver'.last}, ver'.prev)
        BY <2>1, <4>1, <4>2
      <4> QED BY <2>1, <4>1, <4>3, <4>4 DEF Checked, Linear, IsTail
    <3> QED BY <2>2, <3>2, <3>3, <3>4
  <2> QED BY <2>1, <2>3, <2>4 DEF LossInv, Keyed, Linear, IsTail
<1>7. ASSUME NEW r \in rows, Lose(r) PROVE LossInv'
  <2>1. UNCHANGED <<mine, ver>> /\ losses' = losses + 1 /\ torn' = (torn \/ \E q \in rows : q.id > r.id)
    BY <1>7 DEF Lose
  <2>2. Keyed(rows')
    <3>1. CASE rows' = rows \ {r}
      BY <3>1 DEF LossInv, Keyed
    <3>2. ASSUME NEW c \in Content, rows' = (rows \ {r}) \cup {[r EXCEPT !.content = c]} PROVE Keyed(rows')
      <4>1. [r EXCEPT !.content = c].id = r.id
        BY <1>0 DEF Entry
      <4> HIDE DEF Keyed
      <4>2. \A p, q \in rows : p.id = q.id => p = q
        BY DEF LossInv, Keyed
      <4> QED BY <3>2, <4>1, <4>2 DEF Keyed
    <3> QED BY <1>7, <3>1, <3>2 DEF Lose
  <2>3. losses' # 0 /\ (losses' <= 1 => losses = 0)
    BY <1>0, <2>1
  <2>4. ASSUME losses = 0 PROVE ~torn /\ ~ver.torn /\ (torn' => ~Linear(rows'))
    <3>1. ~torn /\ ~ver.torn
      BY <2>4 DEF LossInv
    <3>2. ASSUME torn' PROVE ~Linear(rows')
      <4>1. \E q \in rows : q.id > r.id
        BY <2>1, <3>1, <3>2
      <4> QED BY <1>7, <2>4, <4>1, LossBreaks
    <3> QED BY <3>1, <3>2
  <2> QED BY <2>1, <2>2, <2>3, <2>4 DEF LossInv, Keyed
<1> QED BY <1>1, <1>2, <1>3, <1>4, <1>5, <1>6, <1>7 DEF Next, vars, log, AcquireLock, ReadTail

\* A replay that starts after one record was lost or changed under later ones never
\* calls the table valid, whatever is appended, committed or undone meanwhile.
THEOREM LossIsTold == Spec => []LossIsReported
<1>1. IInv /\ LossInv => LossIsReported
  BY BoundAssumption DEF IInv, TypeOK, LossInv, LossIsReported
<1> QED BY <1>1, Inductive, LossInit, LossStep, PTL DEF Spec
=============================================================================
