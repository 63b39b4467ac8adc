--------------------------- MODULE SiemForwarding ---------------------------
(***************************************************************************)
(* Forwarding the audit trail and the findings to a SIEM, by watermark     *)
(* (SiemForwardingService.forward).  Forward runs share transactions with  *)
(* whatever else a worker pass does: any transaction of AuditLog may also  *)
(* insert findings and forward, and several may forward at once.           *)
(*                                                                         *)
(* The audit watermark is the last id sent.  The findings watermark is a   *)
(* creation time, read Lag behind the present; a finding is stamped when   *)
(* it is inserted and visible when its transaction commits, whenever that  *)
(* is: nothing in the code ends a transaction within the lag.              *)
(***************************************************************************)
EXTENDS AuditLog, TLC

CONSTANTS
    Limit,        \* BATCH_LIMIT, records of each stream per run
    Lag,          \* COMMIT_LAG, in ticks
    MaxClock,     \* bound: time
    MaxFindings   \* bound: findings ever inserted

ASSUME ForwardAssumption ==
    /\ Limit \in Nat \ {0} /\ Lag \in Nat
    /\ MaxClock \in Nat \ {0} /\ MaxFindings \in Nat

Key == {"audit", "findings"}     \* the two settings rows that hold watermarks
Finding == [n : 1..MaxFindings, at : 1..MaxClock]

VARIABLES
    clock,
    findings, fmine,     \* committed findings; those of an open transaction
    late,                \* of the committed, those that were longer open than the lag
    nfind,               \* findings inserted so far
    mark,                \* committed watermarks; 0: no row yet
    mnew, mlock,         \* newest version of each row, and who has it locked
    fw,                  \* the forward run a transaction is in
    sent, fsent          \* what the collector has taken: audit ids, findings

\* Bound: audit records and findings together.
RecordsBound == nextid + nfind <= 4

\* No transaction is told from another: TLC may take them for each other.
TxSymmetry == Permutations(Tx)

fwd == <<clock, findings, fmine, late, nfind, mark, mnew, mlock, fw, sent, fsent>>
all == <<vars, fwd>>

FwIdle == [pc |-> "idle", cutoff |-> 0, audit |-> {}, found |-> {}, todo |-> {}, seen |-> FALSE]
ForwardRun ==
    [pc : {"idle", "findings", "send", "select", "write"}, cutoff : Nat,
     audit : SUBSET (1..MaxId), found : SUBSET Finding, todo : SUBSET Key, seen : BOOLEAN]

ForwardTypeOK ==
    /\ TypeOK
    /\ clock \in 1..MaxClock /\ nfind \in 0..MaxFindings
    /\ findings \subseteq Finding /\ late \subseteq Finding /\ fmine \in [Tx -> SUBSET Finding]
    /\ {mark, mnew} \subseteq [Key -> Nat]
    /\ mlock \in [Key -> Tx \cup {NoTx}]
    /\ fw \in [Tx -> ForwardRun]
    /\ sent \subseteq 1..MaxId /\ fsent \subseteq Finding

ForwardInit ==
    /\ Init
    /\ clock = 1 /\ nfind = 0 /\ findings = {} /\ late = {} /\ fmine = [t \in Tx |-> {}]
    /\ mark = [k \in Key |-> 0] /\ mnew = mark /\ mlock = [k \in Key |-> NoTx]
    /\ fw = [t \in Tx |-> FwIdle]
    /\ sent = {} /\ fsent = {}

----------------------------------------------------------------------------
(* What a transaction sees *)

AuditIds(t) == {r.id : r \in View(t)}
Found(t) == findings \cup fmine[t]
Watermark(t, k) == IF mlock[k] = t THEN mnew[k] ELSE mark[k]

\* ORDER BY created_at LIMIT n; equal stamps come in any order.
FirstFound(S, n) ==
    {b \in SUBSET S : /\ \A f \in b, g \in S : g.at < f.at => g \in b
                      /\ IF b = S THEN Cardinality(b) <= n ELSE Cardinality(b) = n}

FirstIds(S, n) ==
    {b \in SUBSET S : /\ \A i \in b, j \in S : j < i => j \in b
                      /\ IF b = S THEN Cardinality(b) <= n ELSE Cardinality(b) = n}

----------------------------------------------------------------------------
(* The rest of the pass *)

\* A record is appended between two other statements of the pass, the one
\* complete() makes for the forward job among them.
Record(t) ==
    /\ fw[t].pc = "idle"
    /\ AcquireLock(t) \/ ReadTail(t) \/ Insert(t)
    /\ UNCHANGED <<ver, losses, torn, fwd>>

NewFinding(t) ==
    /\ step[t] = "open" /\ fw[t].pc = "idle" /\ nfind < MaxFindings
    /\ nfind' = nfind + 1
    /\ fmine' = [fmine EXCEPT ![t] = @ \cup {[n |-> nfind', at |-> clock]}]
    /\ UNCHANGED <<vars, clock, findings, late, mark, mnew, mlock, fw, sent, fsent>>

\* Longer open than the lag.  The properties remember it; the code does not know.
Overdue(f) == f.at + Lag < clock

FreeMarks(t) == [k \in Key |-> IF mlock[k] = t THEN NoTx ELSE mlock[k]]

CommitPass(t) ==
    /\ Commit(t) /\ fw[t].pc = "idle"
    /\ findings' = findings \cup fmine[t]
    /\ fmine' = [fmine EXCEPT ![t] = {}]
    /\ late' = late \cup {f \in fmine[t] : Overdue(f)}
    /\ mark' = [k \in Key |-> Watermark(t, k)]
    /\ mlock' = FreeMarks(t)
    /\ UNCHANGED <<ver, losses, torn, clock, nfind, mnew, fw, sent, fsent>>

\* An error, a lost deadlock or a killed process: the whole pass is undone.  What
\* the collector has taken stays taken.
RollBackPass(t) ==
    /\ RollBack(t)
    /\ fmine' = [fmine EXCEPT ![t] = {}]
    /\ mlock' = FreeMarks(t)
    /\ fw' = [fw EXCEPT ![t] = FwIdle]
    /\ UNCHANGED <<ver, losses, torn, clock, findings, late, nfind, mark, mnew, sent, fsent>>

\* Time passes, however many transactions are open.
Tick ==
    /\ clock < MaxClock /\ clock' = clock + 1
    /\ UNCHANGED <<vars, findings, fmine, late, nfind, mark, mnew, mlock, fw, sent, fsent>>

----------------------------------------------------------------------------
(* A forward run *)

Forwards == UNCHANGED <<vars, clock, findings, fmine, late, nfind, mark>>

\* forward() notes the time and reads the audit records above the watermark.
ReadAudit(t) ==
    /\ step[t] = "open" /\ fw[t].pc = "idle"
    /\ \E b \in FirstIds({i \in AuditIds(t) : i > Watermark(t, "audit")}, Limit) :
        fw' = [fw EXCEPT ![t] = [FwIdle EXCEPT !.pc = "findings", !.audit = b,
                                               !.cutoff = IF clock > Lag THEN clock - Lag ELSE 0]]
    /\ Forwards /\ UNCHANGED <<mnew, mlock, sent, fsent>>

\* Mutant: the present is not left alone.
ReadFindings_NoLag(t) ==
    /\ fw[t].pc = "findings"
    /\ \E b \in FirstFound({f \in Found(t) : f.at > Watermark(t, "findings")}, Limit) :
        fw' = [fw EXCEPT ![t].found = b,
                         ![t].pc = IF fw[t].audit = {} /\ b = {} THEN "idle" ELSE "send"]
    /\ Forwards /\ UNCHANGED <<mnew, mlock, sent, fsent>>

ReadFindings(t) ==
    /\ fw[t].pc = "findings"
    /\ \E b \in FirstFound({f \in Found(t) : /\ f.at <= fw[t].cutoff
                                              /\ f.at > Watermark(t, "findings")}, Limit) :
        fw' = [fw EXCEPT ![t] = IF fw[t].audit = {} /\ b = {} THEN FwIdle
                                ELSE [@ EXCEPT !.found = b, !.pc = "send"]]
    /\ Forwards /\ UNCHANGED <<mnew, mlock, sent, fsent>>

\* The streams that had something to send.
ToMark(t) == {k \in Key : IF k = "audit" THEN fw[t].audit # {} ELSE fw[t].found # {}}

Send(t) ==
    /\ fw[t].pc = "send"
    /\ sent' = sent \cup fw[t].audit
    /\ fsent' = fsent \cup fw[t].found
    /\ fw' = [fw EXCEPT ![t] = [@ EXCEPT !.pc = "select", !.todo = ToMark(t)]]
    /\ Forwards /\ UNCHANGED <<mnew, mlock>>

\* Mutant: the watermarks advance although the send failed.
SendFails_Advances(t) ==
    /\ fw[t].pc = "send"
    /\ fw' = [fw EXCEPT ![t] = [@ EXCEPT !.pc = "select", !.todo = ToMark(t)]]
    /\ Forwards /\ UNCHANGED <<mnew, mlock, sent, fsent>>

\* The send raises: the run ends, its watermarks where they were.
SendFails(t) ==
    /\ fw[t].pc = "send"
    /\ fw' = [fw EXCEPT ![t] = FwIdle]
    /\ Forwards /\ UNCHANGED <<mnew, mlock, sent, fsent>>

\* The audit watermark is written before the findings'.
NextKey(t) == IF "audit" \in fw[t].todo THEN "audit" ELSE "findings"

\* _set_watermark: look for the row ...
SelectMark(t) ==
    /\ fw[t].pc = "select"
    /\ fw' = [fw EXCEPT ![t] = [@ EXCEPT !.pc = "write",
                                             !.seen = Watermark(t, NextKey(t)) > 0]]
    /\ Forwards /\ UNCHANGED <<mnew, mlock, sent, fsent>>

LastSent(t, k) ==
    IF k = "audit" THEN CHOOSE i \in fw[t].audit : \A j \in fw[t].audit : j <= i
    ELSE (CHOOSE f \in fw[t].found : \A g \in fw[t].found : g.at <= f.at).at

\* ... then UPDATE it, or INSERT it if there was none, which fails when another
\* transaction has inserted it meanwhile.  Both wait for the row's lock.
WriteMark(t) ==
    LET k == NextKey(t) IN
    /\ fw[t].pc = "write" /\ mlock[k] \in {NoTx, t}
    /\ fw[t].seen \/ Watermark(t, k) = 0
    /\ mnew' = [mnew EXCEPT ![k] = LastSent(t, k)]
    /\ mlock' = [mlock EXCEPT ![k] = t]
    /\ fw' = [fw EXCEPT ![t] = IF fw[t].todo = {k} THEN FwIdle
                               ELSE [fw[t] EXCEPT !.todo = fw[t].todo \ {k}, !.pc = "select"]]
    /\ Forwards /\ UNCHANGED <<sent, fsent>>

\* What certainly ends a run badly: the INSERT conflicts, or two runs wait for
\* each other and the database picks one.
Waits(t, u) == fw[t].pc = "write" /\ mlock[NextKey(t)] = u
Undone(t) ==
    /\ fw[t].pc = "write"
    /\ \/ /\ ~fw[t].seen /\ mlock[NextKey(t)] \in {NoTx, t}
          /\ Watermark(t, NextKey(t)) > 0
       \/ \E u \in Tx \ {t} : Waits(t, u) /\ Waits(u, t)
    /\ RollBackPass(t)

Forward(t) == \/ ReadAudit(t) \/ ReadFindings(t) \/ Send(t) \/ SendFails(t)
              \/ SelectMark(t) \/ WriteMark(t)

ForwardNext ==
    \/ \E t \in Tx : Record(t) \/ NewFinding(t) \/ CommitPass(t) \/ RollBackPass(t) \/ Forward(t)
    \/ Tick

ForwardSpec == ForwardInit /\ [][ForwardNext]_all

\* Forward runs are scheduled again and again; now and then one is not undone
\* half-way, the collector is up, and the pass commits.
ForwardFairness ==
    \A t \in Tx : /\ WF_all(Record(t) /\ step[t] # "open") /\ WF_all(Undone(t))
                  /\ SF_all(ReadAudit(t)) /\ SF_all(ReadFindings(t))
                  /\ SF_all(Send(t))
                  /\ SF_all(SelectMark(t) \/ WriteMark(t))
                  /\ SF_all(CommitPass(t))

FairForwardSpec == ForwardSpec /\ ForwardFairness

----------------------------------------------------------------------------
(* Properties *)

\* Every audit record at or below the committed watermark has reached the
\* collector, whatever commits, fails or runs at once ("no possibility of a gap").
AuditNeverSkipped == \A r \in rows : r.id <= mark["audit"] => r.id \in sent

\* What the lag does not save: a finding whose transaction was open for longer, and
\* one of two that have the same time, if the end of a batch comes between them.
Lost(f) == f \in late \/ \E g \in findings \ {f} : g.at = f.at

\* Every finding at or below the committed watermark has reached the collector but
\* for those: whatever else is late in the pass, of it or beside it, loses none.
FindingsNeverSkipped == \A f \in findings : f.at <= mark["findings"] => f \in fsent \/ Lost(f)

\* Every committed audit record reaches the collector.
AuditIsDelivered == \A i \in 1..MaxId : (\E r \in rows : r.id = i) ~> i \in sent

\* Every committed finding does, once the lag has passed, but for the same.
FindingsAreDelivered ==
    \A k \in 1..MaxFindings :
        (\E f \in findings : f.n = k /\ f.at + Lag <= clock)
            ~> (\E f \in findings : f.n = k /\ (f \in fsent \/ Lost(f)))

\* A watermark speaks for everything at or below it, the findings that are late or
\* share their time with another excepted: the source concludes from the lag that
\* "any transaction which produced them has certainly committed".
NothingIsSkipped == AuditNeverSkipped /\ FindingsNeverSkipped

\* Everything committed reaches the collector in the end, with that exception.
EverythingIsDelivered == AuditIsDelivered /\ FindingsAreDelivered
=============================================================================
