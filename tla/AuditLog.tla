------------------------------ MODULE AuditLog ------------------------------
(***************************************************************************)
(* The audit trail: an append-only table whose rows carry the hash of      *)
(* their predecessor (AuditService.record), and the replay that checks it  *)
(* (AuditService.verify_chain).                                            *)
(*                                                                         *)
(* Any number of transactions append.  Each record takes a transaction-    *)
(* scoped advisory lock, reads the tail, and inserts; the lock goes with   *)
(* the transaction.  The replay reads batch after batch at READ COMMITTED  *)
(* while transactions commit.  Rows may be lost or changed outside the     *)
(* service (a partial restore, a manual edit), at most MaxLosses times.    *)
(*                                                                         *)
(* A hash is modelled as what it digests, so it never collides: the hash   *)
(* of a row is the sequence of contents from the first row to it.          *)
(***************************************************************************)
EXTENDS Naturals, Sequences, FiniteSets

CONSTANTS
    Tx,          \* database transactions, one per request or worker pass
    Content,     \* what a record says
    BatchSize,   \* batch_size of the replay
    MaxId,       \* bound: values the id sequence hands out
    MaxLosses,   \* bound: losses outside the service
    NoTx

ASSUME TxAssumption == NoTx \notin Tx
ASSUME BoundAssumption ==
    BatchSize \in Nat \ {0} /\ MaxId \in Nat /\ MaxLosses \in Nat

Hash == Seq(Content)
GENESIS_HASH == <<>>
compute_hash(content, prev) == Append(prev, content)
Entry == [id : 1..MaxId, content : Content, prev : Hash, hash : Hash]

VARIABLES
    rows,     \* committed records
    mine,     \* records a transaction has inserted and not committed
    nextid,   \* the id sequence: never rolled back
    lock,     \* holder of the advisory lock, or NoTx
    step,     \* where a transaction is in record()
    tail,     \* the tail hash it has read
    ver,      \* the replay
    losses,   \* losses so far
    torn      \* history: some row was lost that a later row followed

log == <<rows, mine, nextid, lock, step, tail>>
vars == <<log, ver, losses, torn>>

Replay == [pc : {"idle", "reading", "valid", "invalid"}, last : 0..MaxId, prev : Hash,
           torn : BOOLEAN]   \* torn: as it was when the replay started

TypeOK ==
    /\ rows \subseteq Entry
    /\ mine \in [Tx -> SUBSET Entry]
    /\ nextid \in 1..(MaxId + 1)
    /\ lock \in Tx \cup {NoTx}
    /\ step \in [Tx -> {"open", "locked", "read"}]
    /\ tail \in [Tx -> Hash]
    /\ ver \in Replay
    /\ losses \in 0..MaxLosses
    /\ torn \in BOOLEAN

Init ==
    /\ rows = {} /\ nextid = 1 /\ lock = NoTx
    /\ mine = [t \in Tx |-> {}]
    /\ step = [t \in Tx |-> "open"]
    /\ tail = [t \in Tx |-> GENESIS_HASH]
    /\ ver = [pc |-> "idle", last |-> 0, prev |-> GENESIS_HASH, torn |-> FALSE]
    /\ losses = 0 /\ torn = FALSE

----------------------------------------------------------------------------
(* Appending *)

\* READ COMMITTED: the committed rows and one's own.
View(t) == rows \cup mine[t]

\* _tail_hash: ORDER BY id DESC LIMIT 1, or the anchor.
IsTail(S, h) ==
    \/ S = {} /\ h = GENESIS_HASH
    \/ \E r \in S : h = r.hash /\ \A q \in S : q.id <= r.id
TailHash(S) ==
    IF S = {} THEN GENESIS_HASH ELSE (CHOOSE r \in S : \A q \in S : q.id <= r.id).hash

\* SELECT pg_advisory_xact_lock(...)
AcquireLock(t) ==
    /\ step[t] = "open" /\ nextid <= MaxId
    /\ lock \in {NoTx, t}
    /\ lock' = t
    /\ step' = [step EXCEPT ![t] = "locked"]
    /\ UNCHANGED <<rows, mine, nextid, tail>>

ReadTail(t) ==
    /\ step[t] = "locked"
    /\ tail' = [tail EXCEPT ![t] = TailHash(View(t))]
    /\ step' = [step EXCEPT ![t] = "read"]
    /\ UNCHANGED <<rows, mine, nextid, lock>>

\* Mutant: the lock guards the statement, not the transaction.
Insert_Unlocks(t) ==
    /\ step[t] = "read"
    /\ \E c \in Content :
        mine' = [mine EXCEPT ![t] = @ \cup {[id |-> nextid, content |-> c, prev |-> tail[t],
                                             hash |-> compute_hash(c, tail[t])]}]
    /\ nextid' = nextid + 1
    /\ lock' = NoTx
    /\ step' = [step EXCEPT ![t] = "open"]
    /\ UNCHANGED <<rows, tail>>

Insert(t) ==
    /\ step[t] = "read"
    /\ \E c \in Content :
        mine' = [mine EXCEPT ![t] = @ \cup {[id |-> nextid, content |-> c, prev |-> tail[t],
                                             hash |-> compute_hash(c, tail[t])]}]
    /\ nextid' = nextid + 1
    /\ step' = [step EXCEPT ![t] = "open"]
    /\ UNCHANGED <<rows, lock, tail>>

\* COMMIT, between two records.
Commit(t) ==
    /\ step[t] = "open"
    /\ rows' = rows \cup mine[t]
    /\ mine' = [mine EXCEPT ![t] = {}]
    /\ lock' = IF lock = t THEN NoTx ELSE lock
    /\ UNCHANGED <<nextid, step, tail>>

\* The request fails or its process dies, anywhere; ids it drew are gone.
RollBack(t) ==
    /\ mine' = [mine EXCEPT ![t] = {}]
    /\ lock' = IF lock = t THEN NoTx ELSE lock
    /\ step' = [step EXCEPT ![t] = "open"]
    /\ UNCHANGED <<rows, nextid, tail>>

----------------------------------------------------------------------------
(* The replay *)

\* ORDER BY id ASC LIMIT n: the results such a query over S can have.
FirstN(S, n) ==
    {b \in SUBSET S : /\ \A r \in b, q \in S : q.id < r.id => q \in b
                      /\ IF b = S THEN Cardinality(b) <= n ELSE Cardinality(b) = n}

\* The hash a row of batch b should refer to, when h preceded the batch.
Expected(b, r, h) ==
    LET before == {q \in b : q.id < r.id} IN IF before = {} THEN h ELSE TailHash(before)

\* Mutant: the linkage is not compared.
Invalid_ContentsOnly(b, h) == {r \in b : r.hash # compute_hash(r.content, r.prev)}

Invalid(b, h) ==
    {r \in b : r.prev # Expected(b, r, h) \/ r.hash # compute_hash(r.content, r.prev)}

StartReplay ==
    /\ ver.pc # "reading"
    /\ ver' = [pc |-> "reading", last |-> 0, prev |-> GENESIS_HASH, torn |-> torn]
    /\ UNCHANGED <<log, losses, torn>>

\* Mutant: each batch is replayed from the anchor.
ReadBatch_FromAnchor ==
    /\ ver.pc = "reading"
    /\ \E b \in FirstN({r \in rows : r.id > ver.last}, BatchSize) :
        \/ b = {} /\ ver' = [ver EXCEPT !.pc = "valid"]
        \/ Invalid(b, ver.prev) # {} /\ ver' = [ver EXCEPT !.pc = "invalid"]
        \/ /\ Invalid(b, ver.prev) = {}
           /\ \E r \in b : /\ \A q \in b : q.id <= r.id
                           /\ ver' = [ver EXCEPT !.last = r.id, !.prev = GENESIS_HASH]
    /\ UNCHANGED <<log, losses, torn>>

\* Mutant: the cursor is moved past the next id.
ReadBatch_SkipsOne ==
    /\ ver.pc = "reading"
    /\ \E b \in FirstN({r \in rows : r.id > ver.last}, BatchSize) :
        \/ b = {} /\ ver' = [ver EXCEPT !.pc = "valid"]
        \/ Invalid(b, ver.prev) # {} /\ ver' = [ver EXCEPT !.pc = "invalid"]
        \/ /\ Invalid(b, ver.prev) = {}
           /\ \E r \in b : /\ \A q \in b : q.id <= r.id
                           /\ ver' = [ver EXCEPT !.last = r.id + 1, !.prev = r.hash]
    /\ UNCHANGED <<log, losses, torn>>

ReadBatch ==
    /\ ver.pc = "reading"
    /\ \E b \in FirstN({r \in rows : r.id > ver.last}, BatchSize) :
        \/ b = {} /\ ver' = [ver EXCEPT !.pc = "valid"]
        \/ Invalid(b, ver.prev) # {} /\ ver' = [ver EXCEPT !.pc = "invalid"]
        \/ /\ Invalid(b, ver.prev) = {}
           /\ \E r \in b : /\ \A q \in b : q.id <= r.id
                           /\ ver' = [ver EXCEPT !.last = r.id, !.prev = r.hash]
    /\ UNCHANGED <<log, losses, torn>>

----------------------------------------------------------------------------
(* Losses outside the service *)

Lose(r) ==
    /\ losses < MaxLosses
    /\ \/ rows' = rows \ {r}
       \/ \E c \in Content \ {r.content} : rows' = (rows \ {r}) \cup {[r EXCEPT !.content = c]}
    /\ losses' = losses + 1
    /\ torn' = (torn \/ \E q \in rows : q.id > r.id)
    /\ UNCHANGED <<mine, nextid, lock, step, tail, ver>>

Next ==
    \/ /\ \E t \in Tx : AcquireLock(t) \/ ReadTail(t) \/ Insert(t) \/ Commit(t) \/ RollBack(t)
       /\ UNCHANGED <<ver, losses, torn>>
    \/ StartReplay \/ ReadBatch
    \/ \E r \in rows : Lose(r)

Spec == Init /\ [][Next]_vars

----------------------------------------------------------------------------
(* Properties *)

\* Each record refers to the one before it, the first to the anchor, and each
\* hash is its record's own.
Linear(S) ==
    \A r \in S :
        /\ r.hash = compute_hash(r.content, r.prev)
        /\ IsTail({q \in S : q.id < r.id}, r.prev)

\* However many transactions append at once, and whatever is rolled back, the
\* committed records form one unforked chain (record holds the advisory lock
\* from the tail's SELECT to the COMMIT).
ChainIsLinear == losses = 0 => Linear(rows)

\* Records become visible in the order of their ids: a reader that has seen an
\* id never misses a smaller one later.  SIEM forwarding relies on it.
IdsFollowCommits ==
    [][losses' = losses => \A r \in rows' \ rows : \A q \in rows : q.id < r.id]_vars

\* A replay that runs while records are appended reports no damage to an intact
\* table, across its batches.
IntactIsValid == ver.pc = "invalid" => losses > 0

\* Losing or changing one record that others follow is reported by every replay
\* that starts afterwards.  (The newest record has no follower to tell.)
LossIsReported == ver.pc = "valid" /\ ver.torn => losses > 1
=============================================================================
