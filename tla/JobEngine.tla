----------------------------- MODULE JobEngine -----------------------------
(***************************************************************************)
(* The job engine of NetSecOps: job rows in PostgreSQL, the worker         *)
(* containers that claim them, the API requests that run the jobs they     *)
(* create in-process (`InlineQueue`), and the operators who cancel them.   *)
(*                                                                         *)
(* Every actor is one database transaction at a time, at READ COMMITTED: a *)
(* worker pass (`run_once`, up to Batch jobs), an inline run (`run_job`)   *)
(* or a cancel request.  `job` and `dev` are the committed rows, `wjob`    *)
(* and `wdev` the newest row versions; they differ exactly on the rows     *)
(* some transaction has updated and not committed, which it has locked.    *)
(* `audit` is the advisory lock AuditService.record holds to commit.       *)
(***************************************************************************)
EXTENDS Naturals, FiniteSets

CONSTANTS
    Worker,      \* worker containers (`netsecops-cli worker`)
    Operator,    \* cancel requests in flight at once (API)
    NumJobs,     \* bound: jobs are numbered in creation order
    Device,      \* inventory devices
    Poison,      \* devices whose collection makes a statement fail in the database
    Batch,       \* BATCH, jobs per worker pass
    MaxCrashes,  \* bound: executor processes that die mid-transaction
    MaxCancels,  \* bound: cancel requests
    NoTx, NoDev

Job == 1..NumJobs
NoJob == 0
Executor == Worker \cup Job        \* executor j \in Job is the request that created job j
Tx == Executor \cup Operator

ASSUME TxAssumption ==
    /\ NoTx \notin Tx
    /\ Worker \cap Job = {} /\ Operator \cap Executor = {}
    /\ NoDev \notin Device
ASSUME BoundAssumption ==
    NumJobs \in Nat /\ Batch \in Nat \ {0} /\ MaxCrashes \in Nat /\ MaxCancels \in Nat
ASSUME PoisonAssumption == Poison \subseteq Device

Terminal == {"cancelled", "succeeded", "partial", "failed"}
JobStatus == {"none", "queued", "running", "cancelling"} \cup Terminal
DeviceJobStatus == {"none", "pending", "running", "succeeded", "failed", "cancelled"}
JobRow == [status : JobStatus, cancel : BOOLEAN]   \* cancel: cancel_requested_at is set
PC == {"off", "between", "entry", "start", "loop", "claim", "session", "close", "audit", "commit"}
OpPC == {"idle", "update", "audit"}

VARIABLES
    job, dev,        \* committed rows
    wjob, wdev,      \* newest row versions
    jlock, dlock,    \* row locks: the transaction that updated the row, or NoTx
    audit,           \* holder of the audit chain's advisory lock
    pc, cur, on,     \* executor: where it is, its job, the device it has a session to
    mem,             \* executor: the job row as its ORM object last saw it
    ran,             \* worker: jobs already run in this pass
    op,              \* operator: cancel in flight, the job, the row and the devices it read
    crashes, cancels

rows == <<job, dev>>
work == <<wjob, wdev, jlock, dlock, audit>>
exec == <<pc, cur, on, mem, ran>>
vars == <<rows, work, exec, op, crashes, cancels>>

Blank == [status |-> "none", cancel |-> FALSE]
OpIdle == [pc |-> "idle", job |-> NoJob, seen |-> "none", pend |-> {}]

TypeOK ==
    /\ job \in [Job -> JobRow] /\ wjob \in [Job -> JobRow]
    /\ dev \in [Job -> [Device -> DeviceJobStatus]]
    /\ wdev \in [Job -> [Device -> DeviceJobStatus]]
    /\ jlock \in [Job -> Tx \cup {NoTx}]
    /\ dlock \in [Job -> [Device -> Tx \cup {NoTx}]]
    /\ audit \in Tx \cup {NoTx}
    /\ pc \in [Executor -> PC]
    /\ cur \in [Executor -> Job \cup {NoJob}]
    /\ on \in [Executor -> Device \cup {NoDev}]
    /\ mem \in [Executor -> JobRow]
    /\ ran \in [Worker -> 0..Batch]
    /\ op \in [Operator -> [pc : OpPC, job : Job \cup {NoJob}, seen : JobStatus,
                            pend : SUBSET Device]]
    /\ crashes \in 0..MaxCrashes /\ cancels \in 0..MaxCancels

Init ==
    /\ job = [j \in Job |-> Blank] /\ wjob = job
    /\ dev = [j \in Job |-> [d \in Device |-> "none"]] /\ wdev = dev
    /\ jlock = [j \in Job |-> NoTx]
    /\ dlock = [j \in Job |-> [d \in Device |-> NoTx]]
    /\ audit = NoTx
    /\ pc = [e \in Executor |-> IF e \in Worker THEN "between" ELSE "off"]
    /\ cur = [e \in Executor |-> NoJob]
    /\ on = [e \in Executor |-> NoDev]
    /\ mem = [e \in Executor |-> Blank]
    /\ ran = [w \in Worker |-> 0]
    /\ op = [o \in Operator |-> OpIdle]
    /\ crashes = 0 /\ cancels = 0

----------------------------------------------------------------------------
(* Transactions *)

\* What transaction t reads: its own uncommitted version, else the committed row.
View(t, j) == IF jlock[j] = t THEN wjob[j] ELSE job[j]
DevView(t, j, d) == IF dlock[j][d] = t THEN wdev[j][d] ELSE dev[j][d]

\* An UPDATE of the row waits for the transaction that has it locked.
CanWriteJob(t, j) == jlock[j] \in {NoTx, t}
CanAudit(t) == audit \in {NoTx, t}

Free(lock, t) == [j \in Job |-> IF lock[j] = t THEN NoTx ELSE lock[j]]
FreeDev(t) == [j \in Job |-> [d \in Device |-> IF dlock[j][d] = t THEN NoTx ELSE dlock[j][d]]]
FreeAudit(t) == IF audit = t THEN NoTx ELSE audit

\* COMMIT publishes every row t wrote; its row and advisory locks go with it.
Commit(t) ==
    /\ job' = [j \in Job |-> IF jlock[j] = t THEN wjob[j] ELSE job[j]]
    /\ dev' = [j \in Job |-> [d \in Device |->
                 IF dlock[j][d] = t THEN wdev[j][d] ELSE dev[j][d]]]
    /\ jlock' = Free(jlock, t) /\ dlock' = FreeDev(t) /\ audit' = FreeAudit(t)
    /\ UNCHANGED <<wjob, wdev>>

\* Mutant: the connection goes back to its pool with its locks.
RollBack_KeepsLocks(t) ==
    /\ wjob' = [j \in Job |-> IF jlock[j] = t THEN job[j] ELSE wjob[j]]
    /\ wdev' = [j \in Job |-> [d \in Device |->
                  IF dlock[j][d] = t THEN dev[j][d] ELSE wdev[j][d]]]
    /\ UNCHANGED <<rows, jlock, dlock, audit>>

\* ROLLBACK restores them.
RollBack(t) ==
    /\ wjob' = [j \in Job |-> IF jlock[j] = t THEN job[j] ELSE wjob[j]]
    /\ wdev' = [j \in Job |-> [d \in Device |->
                  IF dlock[j][d] = t THEN dev[j][d] ELSE wdev[j][d]]]
    /\ jlock' = Free(jlock, t) /\ dlock' = FreeDev(t) /\ audit' = FreeAudit(t)
    /\ UNCHANGED rows

\* The transaction is over: a worker is ready for its next pass, a request is answered.
Leave(e) ==
    /\ pc' = [pc EXCEPT ![e] = IF e \in Worker THEN "between" ELSE "off"]
    /\ cur' = [cur EXCEPT ![e] = NoJob]
    /\ on' = [on EXCEPT ![e] = NoDev]
    /\ mem' = [mem EXCEPT ![e] = Blank]
    /\ ran' = [w \in Worker |-> IF w = e THEN 0 ELSE ran[w]]

----------------------------------------------------------------------------
(* Creation.  The transaction audits, so it needs the audit chain, and      *)
(* nobody sees the rows before it commits: one step.  Job types without     *)
(* device rows (discovery, feeds, SIEM, notify, report) have D = {}.        *)

Scope(j) == {d \in Device : wdev[j][d] # "none"}

NewJob(j, D) ==
    /\ wjob[j].status = "none"
    /\ \A i \in Job : i < j => wjob[i].status # "none"
    /\ audit = NoTx
    /\ job' = [job EXCEPT ![j].status = "queued"]
    /\ wjob' = [wjob EXCEPT ![j].status = "queued"]
    /\ dev' = [dev EXCEPT ![j] = [d \in Device |-> IF d \in D THEN "pending" ELSE "none"]]
    /\ wdev' = [wdev EXCEPT ![j] = [d \in Device |-> IF d \in D THEN "pending" ELSE "none"]]
    /\ UNCHANGED <<jlock, dlock, audit>>

\* The handler that created job j now runs it inside the request.
RunInline(j) ==
    /\ pc' = [pc EXCEPT ![j] = "entry"]
    /\ cur' = [cur EXCEPT ![j] = j]
    /\ UNCHANGED <<on, mem, ran>>

\* POST /jobs: create, commit, enqueue on the InlineQueue.
CreateApi(j) ==
    /\ \E D \in SUBSET Device : NewJob(j, D)
    /\ RunInline(j)
    /\ UNCHANGED <<op, crashes, cancels>>

\* ScheduleService creates the row and enqueues nothing.
CreateScheduled(j) ==
    /\ \E D \in SUBSET Device : NewJob(j, D)
    /\ UNCHANGED <<exec, op, crashes, cancels>>

\* POST /jobs/{i}/rerun-failed: a new job over the devices that failed.
RerunFailed(i, j) ==
    LET failed == {d \in Device : dev[i][d] = "failed"} IN
    /\ failed # {}
    /\ NewJob(j, failed)
    /\ RunInline(j)
    /\ UNCHANGED <<op, crashes, cancels>>

----------------------------------------------------------------------------
(* Execution *)

\* Mutant: FOR UPDATE dropped from the claim.
Claimable_Unlocked(w) == {j \in Job : View(w, j).status = "queued"}

\* SELECT ... WHERE status = 'queued' ORDER BY created_at LIMIT 1
\*   FOR UPDATE SKIP LOCKED
Claimable(w) == {j \in Job : View(w, j).status = "queued" /\ jlock[j] = NoTx}

\* Mutant: one job more than BATCH.
ClaimNext_OneMore(w) ==
    /\ pc[w] = "between" /\ ran[w] <= Batch
    /\ \E j \in Claimable(w) :
        /\ \A i \in Claimable(w) : j <= i
        /\ wjob' = [wjob EXCEPT ![j].status = "running"]
        /\ jlock' = [jlock EXCEPT ![j] = w]
        /\ mem' = [mem EXCEPT ![w] = [View(w, j) EXCEPT !.status = "running"]]
        /\ cur' = [cur EXCEPT ![w] = j]
    /\ pc' = [pc EXCEPT ![w] = "loop"]
    /\ UNCHANGED <<rows, wdev, dlock, audit, on, ran, op, crashes, cancels>>

\* The row is marked running at once; execute_job then finds it started.
ClaimNext(w) ==
    /\ pc[w] = "between" /\ ran[w] < Batch
    /\ \E j \in Claimable(w) :
        /\ \A i \in Claimable(w) : j <= i
        /\ wjob' = [wjob EXCEPT ![j].status = "running"]
        /\ jlock' = [jlock EXCEPT ![j] = w]
        /\ mem' = [mem EXCEPT ![w] = [View(w, j) EXCEPT !.status = "running"]]
        /\ cur' = [cur EXCEPT ![w] = j]
    /\ pc' = [pc EXCEPT ![w] = "loop"]
    /\ UNCHANGED <<rows, wdev, dlock, audit, on, ran, op, crashes, cancels>>

\* run_job: a fresh session reads the row.
Load(e) ==
    /\ pc[e] = "entry"
    /\ mem' = [mem EXCEPT ![e] = View(e, cur[e])]
    /\ pc' = [pc EXCEPT ![e] = IF View(e, cur[e]).status = "queued" THEN "start" ELSE "loop"]
    /\ UNCHANGED <<rows, work, cur, on, ran, op, crashes, cancels>>

\* JobService.start: the guard looked at the object in memory; the UPDATE may
\* have waited for another transaction and overwrites whatever that one left.
Start(e) ==
    /\ pc[e] = "start" /\ CanWriteJob(e, cur[e])
    /\ wjob' = [wjob EXCEPT ![cur[e]].status = "running"]
    /\ jlock' = [jlock EXCEPT ![cur[e]] = e]
    /\ mem' = [mem EXCEPT ![e].status = "running"]
    /\ pc' = [pc EXCEPT ![e] = "loop"]
    /\ UNCHANGED <<rows, wdev, dlock, audit, cur, on, ran, op, crashes, cancels>>

\* Top of the device loop: refresh the row, stop on a cancel.
Refresh(e) ==
    /\ pc[e] = "loop" /\ Scope(cur[e]) # {}
    /\ mem' = [mem EXCEPT ![e] = View(e, cur[e])]
    /\ pc' = [pc EXCEPT ![e] = IF View(e, cur[e]).cancel THEN "close" ELSE "claim"]
    /\ UNCHANGED <<rows, work, cur, on, ran, op, crashes, cancels>>

\* Mutant: a device that failed is visited again.
Pending_Retries(e) == {d \in Device : /\ DevView(e, cur[e], d) \in {"pending", "failed"}
                                      /\ dlock[cur[e]][d] = NoTx}

\* SELECT ... WHERE status = 'pending' LIMIT 1 FOR UPDATE SKIP LOCKED
Pending(e) == {d \in Device : /\ DevView(e, cur[e], d) = "pending"
                              /\ dlock[cur[e]][d] = NoTx}

\* claim_next_device, then the session is opened.
ClaimDevice(e) ==
    /\ pc[e] = "claim"
    /\ \E d \in Pending(e) :
        /\ wdev' = [wdev EXCEPT ![cur[e]][d] = "running"]
        /\ dlock' = [dlock EXCEPT ![cur[e]][d] = e]
        /\ on' = [on EXCEPT ![e] = d]
    /\ pc' = [pc EXCEPT ![e] = "session"]
    /\ UNCHANGED <<rows, wjob, jlock, audit, cur, mem, ran, op, crashes, cancels>>

NoDeviceLeft(e) ==
    /\ pc[e] = "claim" /\ Pending(e) = {}
    /\ pc' = [pc EXCEPT ![e] = "close"]
    /\ UNCHANGED <<rows, work, cur, on, mem, ran, op, crashes, cancels>>

\* The session ends, in success or in a classified failure.  Commands are
\* audited one by one, so a session that sent any holds the audit chain.
\* finish_device then writes the outcome and the job's statistics.
FinishDevice(e) ==
    /\ pc[e] = "session" /\ on[e] \notin Poison
    /\ CanWriteJob(e, cur[e])
    /\ \E s \in {"succeeded", "failed"} : wdev' = [wdev EXCEPT ![cur[e]][on[e]] = s]
    /\ \/ CanAudit(e) /\ audit' = e
       \/ UNCHANGED audit
    /\ jlock' = [jlock EXCEPT ![cur[e]] = e]
    /\ on' = [on EXCEPT ![e] = NoDev]
    /\ pc' = [pc EXCEPT ![e] = "loop"]
    /\ UNCHANGED <<rows, wjob, dlock, cur, mem, ran, op, crashes, cancels>>

\* A statement failed in the database: the transaction is unusable, so
\* finish_device, _mark_failed and the next claim fail too and the session
\* scope rolls the whole pass back, the jobs already run in it included.
PoisonDevice(e) ==
    /\ pc[e] = "session" /\ on[e] \in Poison
    /\ RollBack(e) /\ Leave(e)
    /\ UNCHANGED <<op, crashes, cancels>>

\* A job type without devices does its own work; it may audit before it closes.
RunBody(e) ==
    /\ pc[e] = "loop" /\ Scope(cur[e]) = {}
    /\ \/ CanAudit(e) /\ audit' = e
       \/ UNCHANGED audit
    /\ pc' = [pc EXCEPT ![e] = "close"]
    /\ UNCHANGED <<rows, wjob, wdev, jlock, dlock, cur, on, mem, ran, op, crashes, cancels>>

\* Mutant: no _mark_failed.
BodyRaises_Unmarked(e) ==
    /\ pc[e] = "loop" /\ Scope(cur[e]) = {}
    /\ \/ /\ e \in Worker
          /\ ran' = [ran EXCEPT ![e] = @ + 1]
          /\ pc' = [pc EXCEPT ![e] = "between"]
          /\ cur' = [cur EXCEPT ![e] = NoJob]
          /\ mem' = [mem EXCEPT ![e] = Blank]
          /\ UNCHANGED <<rows, work, on>>
       \/ e \in Job /\ RollBack(e) /\ Leave(e)
    /\ UNCHANGED <<op, crashes, cancels>>

\* ... or raises.  A worker records the failure on the job (_mark_failed) and
\* goes on; an inline run is rolled back and its request answers 500.
BodyRaises(e) ==
    /\ pc[e] = "loop" /\ Scope(cur[e]) = {}
    /\ \/ /\ e \in Worker
          /\ wjob' = [wjob EXCEPT ![cur[e]].status =
                        IF mem[e].status \in Terminal THEN @ ELSE "failed"]
          /\ ran' = [ran EXCEPT ![e] = @ + 1]
          /\ pc' = [pc EXCEPT ![e] = "between"]
          /\ cur' = [cur EXCEPT ![e] = NoJob]
          /\ mem' = [mem EXCEPT ![e] = Blank]
          /\ UNCHANGED <<rows, wdev, jlock, dlock, audit, on>>
       \/ e \in Job /\ RollBack(e) /\ Leave(e)
    /\ UNCHANGED <<op, crashes, cancels>>

\* JobService.complete: the final status, from the outcomes this transaction
\* sees, or from the body's own verdict (status_override).
Has(e, s) == \E d \in Device : DevView(e, cur[e], d) = s
\* Mutant: any success is a success.
Verdicts_AnySuccess(e) ==
    IF mem[e].cancel THEN {"cancelled"}
    ELSE IF Scope(cur[e]) = {} THEN {"succeeded", "failed", "partial"}
    ELSE IF Has(e, "succeeded") THEN {"succeeded"} ELSE {"failed"}
Verdicts(e) ==
    IF mem[e].cancel THEN {"cancelled"}
    ELSE IF Scope(cur[e]) = {} THEN {"succeeded", "failed", "partial"}
    ELSE IF ~Has(e, "failed") THEN {"succeeded"}
    ELSE IF ~Has(e, "succeeded") THEN {"failed"}
    ELSE {"partial"}

\* The UPDATE.  The ORM sends the status column only if the object changed.
Close(e) ==
    /\ pc[e] = "close" /\ CanWriteJob(e, cur[e])
    /\ \E v \in Verdicts(e) :
        wjob' = [wjob EXCEPT ![cur[e]].status = IF v = mem[e].status THEN @ ELSE v]
    /\ jlock' = [jlock EXCEPT ![cur[e]] = e]
    /\ pc' = [pc EXCEPT ![e] = "audit"]
    /\ UNCHANGED <<rows, wdev, dlock, audit, cur, on, mem, ran, op, crashes, cancels>>

\* job.completed is audited, and the executor goes on to its next job or commits.
AuditClose(e) ==
    /\ pc[e] = "audit" /\ CanAudit(e)
    /\ audit' = e
    /\ pc' = [pc EXCEPT ![e] = IF e \in Worker THEN "between" ELSE "commit"]
    /\ cur' = [cur EXCEPT ![e] = NoJob]
    /\ mem' = [mem EXCEPT ![e] = Blank]
    /\ ran' = [w \in Worker |-> IF w = e THEN ran[w] + 1 ELSE ran[w]]
    /\ UNCHANGED <<rows, wjob, wdev, jlock, dlock, on, op, crashes, cancels>>

\* session_scope: the pass or the inline run commits as one transaction.
CommitRun(e) ==
    /\ \/ pc[e] = "commit"
       \/ e \in Worker /\ pc[e] = "between" /\ ran[e] > 0
                       /\ (ran[e] = Batch \/ Claimable(e) = {})
    /\ Commit(e) /\ Leave(e)
    /\ UNCHANGED <<op, crashes, cancels>>

\* The process dies: its transaction dies with it.
Crash(e) ==
    /\ crashes < MaxCrashes
    /\ pc[e] # "off" /\ (e \in Worker => cur[e] # NoJob \/ ran[e] > 0)
    /\ crashes' = crashes + 1
    /\ RollBack(e) /\ Leave(e)
    /\ UNCHANGED <<op, cancels>>

----------------------------------------------------------------------------
(* Cancelling: POST /jobs/{id}/cancel *)

\* Reads the job and its pending devices as committed; refuses a closed job.
CancelRead(o, j) ==
    /\ op[o].pc = "idle" /\ cancels < MaxCancels
    /\ job[j].status \notin Terminal \cup {"none"}
    /\ op' = [op EXCEPT ![o] = [pc |-> "update", job |-> j, seen |-> job[j].status,
                                pend |-> {d \in Device : dev[j][d] = "pending"}]]
    /\ cancels' = cancels + 1
    /\ UNCHANGED <<rows, work, exec, crashes>>

\* Mutant: the pending devices are left as they are.
CancelUpdate_JobOnly(o) ==
    LET j == op[o].job IN
    /\ op[o].pc = "update" /\ jlock[j] = NoTx
    /\ wjob' = [wjob EXCEPT ![j] =
                  [status |-> IF op[o].seen = "cancelling" THEN @.status ELSE "cancelling",
                   cancel |-> TRUE]]
    /\ jlock' = [jlock EXCEPT ![j] = o]
    /\ op' = [op EXCEPT ![o].pc = "audit"]
    /\ UNCHANGED <<rows, wdev, dlock, audit, exec, crashes, cancels>>

\* The flush: waits for the rows, then overwrites them.
CancelUpdate(o) ==
    LET j == op[o].job IN
    /\ op[o].pc = "update" /\ jlock[j] = NoTx
    /\ \A d \in op[o].pend : dlock[j][d] = NoTx
    /\ wjob' = [wjob EXCEPT ![j] =
                  [status |-> IF op[o].seen = "cancelling" THEN @.status ELSE "cancelling",
                   cancel |-> TRUE]]
    /\ wdev' = [wdev EXCEPT ![j] = [d \in Device |->
                  IF d \in op[o].pend THEN "cancelled" ELSE wdev[j][d]]]
    /\ jlock' = [jlock EXCEPT ![j] = o]
    /\ dlock' = [dlock EXCEPT ![j] = [d \in Device |->
                  IF d \in op[o].pend THEN o ELSE dlock[j][d]]]
    /\ op' = [op EXCEPT ![o].pc = "audit"]
    /\ UNCHANGED <<rows, audit, exec, crashes, cancels>>

\* Audited and committed when the request ends.
CancelCommit(o) ==
    /\ op[o].pc = "audit" /\ audit = NoTx
    /\ Commit(o)
    /\ op' = [op EXCEPT ![o] = OpIdle]
    /\ UNCHANGED <<exec, crashes, cancels>>

----------------------------------------------------------------------------
(* PostgreSQL breaks a cycle of waits by aborting one of its transactions.  *)
(* The row waits are of one job each and the audit chain is one lock, so    *)
(* cycles have length two.                                                  *)

Holders(t) ==
    IF t \in Operator
    THEN CASE op[t].pc = "update" -> {jlock[op[t].job]} \cup {dlock[op[t].job][d] : d \in op[t].pend}
           [] op[t].pc = "audit"  -> {audit}
           [] OTHER -> {}
    ELSE CASE pc[t] \in {"start", "close"} -> {jlock[cur[t]]}
           [] pc[t] = "audit" -> {audit}
           [] OTHER -> {}

Blocks(u, t) == u # t /\ u \in Holders(t)

DeadlockVictim(t) ==
    /\ \E u \in Tx : Blocks(u, t) /\ Blocks(t, u)
    /\ RollBack(t)
    /\ \/ t \in Executor /\ Leave(t) /\ UNCHANGED op
       \/ t \in Operator /\ op' = [op EXCEPT ![t] = OpIdle] /\ UNCHANGED exec
    /\ UNCHANGED <<crashes, cancels>>

----------------------------------------------------------------------------
\* Nothing in flight and nothing claimable: waiting for the next request.
AtRest ==
    /\ \A w \in Worker : pc[w] = "between" /\ ran[w] = 0 /\ Claimable(w) = {}
    /\ \A j \in Job : pc[j] = "off"
    /\ \A o \in Operator : op[o].pc = "idle"
Idle == AtRest /\ UNCHANGED vars

Execute(e) ==
    \/ Load(e) \/ Start(e) \/ Refresh(e) \/ ClaimDevice(e) \/ NoDeviceLeft(e)
    \/ FinishDevice(e) \/ PoisonDevice(e) \/ RunBody(e) \/ BodyRaises(e)
    \/ Close(e) \/ AuditClose(e) \/ CommitRun(e)

Next ==
    \/ \E j \in Job : CreateApi(j) \/ CreateScheduled(j)
    \/ \E i, j \in Job : RerunFailed(i, j)
    \/ \E w \in Worker : ClaimNext(w)
    \/ \E e \in Executor : Execute(e) \/ Crash(e)
    \/ \E o \in Operator : CancelUpdate(o) \/ CancelCommit(o)
    \/ \E o \in Operator, j \in Job : CancelRead(o, j)
    \/ \E t \in Tx : DeadlockVictim(t)
    \/ Idle

Spec == Init /\ [][Next]_vars

\* Every process keeps running; PostgreSQL grants a free lock to a waiter.
Fairness ==
    /\ \A w \in Worker : WF_vars(ClaimNext(w) \/ Execute(w))
    /\ \A j \in Job : WF_vars(Execute(j))
    /\ \A o \in Operator : WF_vars(CancelUpdate(o) \/ CancelCommit(o))
    /\ \A t \in Tx : WF_vars(DeadlockVictim(t))
FairSpec == Spec /\ Fairness

----------------------------------------------------------------------------
(* Properties *)

InSession(e) == pc[e] = "session"
Closed(j) == job[j].status \in Terminal

\* One job has at most one device session at a time, whatever mix of workers
\* and inline run picked it up: claim_next skips locked rows, and an inline run
\* that lost the race finds no pending device left.
JobRunByOne ==
    \A e, f \in Executor : InSession(e) /\ InSession(f) /\ cur[e] = cur[f] => e = f

\* A closed job has no device left pending or running (JobService.complete is
\* reached only when claim_next_device found nothing, or on a cancel that has
\* already settled the pending devices).
SettledWhenClosed ==
    \A j \in Job : Closed(j) => \A d \in Device : dev[j][d] \notin {"pending", "running"}

\* The status of a closed job nobody cancelled agrees with the device outcomes
\* committed with it, however often the job was executed: succeeded means every
\* device did, failed that none did, partial that some did.
VerdictMatchesOutcomes ==
    \A j \in Job :
        LET D == {d \in Device : dev[j][d] # "none"}
            Outcomes == {dev[j][d] : d \in D}
        IN  Closed(j) /\ ~job[j].cancel /\ D # {} =>
                \/ job[j].status = "succeeded" /\ Outcomes = {"succeeded"}
                \/ job[j].status = "failed" /\ Outcomes = {"failed"}
                \/ job[j].status = "partial" /\ Outcomes = {"succeeded", "failed"}

\* running is never committed: a transaction that marks a job running also
\* closes it, or leaves no trace of it.
RunningNeverCommitted ==
    \A j \in Job : /\ job[j].status # "running"
                   /\ \A d \in Device : dev[j][d] # "running"

\* A session opens only for a job that is committed as queued and not
\* cancelled, to a device committed as pending: no result is collected twice
\* and nothing is collected for a job once its cancel is committed.
OpensOnQueuedWorkOnly ==
    [][\A e \in Executor : ~InSession(e) /\ InSession(e)' =>
          LET j == cur'[e] IN
          /\ job[j] = [status |-> "queued", cancel |-> FALSE]
          /\ dev[j][on'[e]] = "pending"]_vars

\* Workers alone are enough: a job that is queued, whoever created it and however
\* many processes die on the way, is eventually closed or its cancel committed.
\* Assumes that no statement fails in the database for good (Poison = {}).
QueuedIsClosed ==
    \A j \in Job : (job[j].status = "queued") ~> (Closed(j) \/ job[j].cancel)

----------------------------------------------------------------------------
(* The lock discipline: an inductive invariant of the engine. *)

Settled(row) == \A d \in Device : row[d] \notin {"pending", "running"}
Left(r) == r.status \notin {"none", "queued"}

\* Rows nobody has locked are committed; device rows are locked along with their job.
RowAgrees(j) ==
    /\ IF jlock[j] = NoTx THEN wjob[j] = job[j] ELSE Left(wjob[j])
    /\ job[j].status = "none" <=> wjob[j].status = "none"
    /\ \A d \in Device : IF dlock[j][d] = NoTx THEN wdev[j][d] = dev[j][d]
                       ELSE dlock[j][d] = jlock[j] /\ wdev[j][d] # "pending"

\* A job that left the queue, or is cancelled, has no device waiting.
LeftIsSettled(j) ==
    /\ Left(job[j]) => Settled(dev[j])
    /\ job[j].cancel => Left(job[j])
    /\ wjob[j].cancel => Left(wjob[j]) /\ Settled(wdev[j])
    /\ \A d \in Device : dev[j][d] # "running"

\* What an executor holds at each point: the job row, unless it came after the
\* run was over, and the row of the device it is in session with.
Holds(e) ==
    /\ cur[e] = NoJob <=> pc[e] \in {"off", "between", "commit"}
    /\ e \in Job => cur[e] \in {e, NoJob}
    /\ cur[e] # NoJob => job[cur[e]].status # "none"
    /\ e \in Worker => pc[e] \notin {"off", "entry", "start", "commit"}
    /\ e \in Worker /\ cur[e] # NoJob => jlock[cur[e]] = e
    /\ pc[e] \in {"loop", "claim", "close"} => jlock[cur[e]] = e \/ Left(job[cur[e]])
    /\ pc[e] \in {"session", "audit"} => jlock[cur[e]] = e
    /\ pc[e] = "session" => on[e] \in Device /\ dlock[cur[e]][on[e]] = e
    /\ pc[e] \in {"close", "audit"} /\ jlock[cur[e]] = e => Settled(wdev[cur[e]])

\* A locked row that is not being worked on is ready to commit.
HeldIsReady(j) ==
    /\ jlock[j] \in Executor /\ cur[jlock[j]] # j => Settled(wdev[j])
    /\ jlock[j] \in Operator => Settled(wdev[j])
    /\ \A d \in Device : wdev[j][d] = "running" =>
          /\ jlock[j] \in Executor /\ pc[jlock[j]] = "session"
          /\ cur[jlock[j]] = j /\ on[jlock[j]] = d

\* What a waiting cancel has read may be stale, but on the safe side.
ReadsSafely(o) ==
    op[o].pc = "update" =>
        /\ op[o].job \in Job
        /\ job[op[o].job].status # "none"
        /\ op[o].seen = "cancelling" => Left(job[op[o].job])
        /\ \A d \in Device : dev[op[o].job][d] = "pending" => d \in op[o].pend

\* Every row is written under its lock and leaves a transaction settled: the
\* discipline that claim_next, start, claim_next_device and cancel keep together.
LockDiscipline ==
    /\ \A j \in Job : RowAgrees(j) /\ LeftIsSettled(j) /\ HeldIsReady(j)
    /\ \A e \in Executor : Holds(e)
    /\ \A o \in Operator : ReadsSafely(o)

\* The committed rows are an implementation of the job's life cycle.
Lifecycle == INSTANCE JobLifecycle WITH job <- job, dev <- dev
ImplementsLifecycle == Lifecycle!Spec
----------------------------------------------------------------------------
(* The bookkeeping: what the statuses of rows say, locked or not. *)

Working == {"loop", "claim", "session", "close"}

\* What the committed rows of a job say fits together.
CommittedFits(j) ==
    /\ job[j].status # "running"
    /\ (job[j].status \in {"cancelling", "cancelled"} => job[j].cancel)
    /\ \A d \in Device : dev[j][d] = "cancelled" => job[j].cancel
    /\ job[j].status \in Terminal /\ ~job[j].cancel => job[j].status \in Lifecycle!Verdicts(dev[j])

\* The status an executor is about to commit: its outcomes', or a cancel's.
VerdictFits(j) ==
    \/ wjob[j].status \in Lifecycle!Verdicts(wdev[j])
    \/ wjob[j].cancel /\ wjob[j].status \in {"cancelled", job[j].status}

\* A job executor e has locked: running while e works on it, else about to be closed.
RunFits(e, j) ==
    /\ wjob[j].cancel = job[j].cancel
    /\ \A d \in Device : IF dev[j][d] = "pending"
                        THEN wdev[j][d] \in {"pending", "running", "succeeded", "failed"}
                        ELSE wdev[j][d] = dev[j][d]
    /\ \A d \in Device : dlock[j][d] = e => dev[j][d] = "pending"
    /\ e \in Job => e = j
    /\ cur[e] = j => pc[e] \in Working \cup {"audit"}
    /\ IF cur[e] = j /\ pc[e] \in Working
       THEN wjob[j].status = "running" /\ mem[e].status = "running"
       ELSE VerdictFits(j)

\* A job operator o has locked: cancelled, with the devices o saw pending.
CancelFits(o, j) ==
    /\ op[o].job = j /\ op[o].pc = "audit" /\ wjob[j].cancel
    /\ wjob[j].status = "cancelling" \/ (job[j].cancel /\ wjob[j].status = job[j].status)
    /\ \A d \in Device : /\ wdev[j][d] = IF d \in op[o].pend THEN "cancelled" ELSE dev[j][d]
                         /\ dev[j][d] = "pending" => d \in op[o].pend
                         /\ d \in op[o].pend => dev[j][d] # "none"

\* A cancel an executor remembers, or an operator has seen, is a committed one.
Remembers(e) == mem[e].cancel => cur[e] # NoJob /\ job[cur[e]].cancel
HasSeen(o) ==
    op[o].pc = "update" =>
        /\ (op[o].seen = "cancelling" => job[op[o].job].cancel)
        /\ \A d \in op[o].pend : dev[op[o].job][d] # "none"

Bookkeeping ==
    /\ \A j \in Job : CommittedFits(j)
    /\ \A j \in Job, e \in Executor : jlock[j] = e => RunFits(e, j)
    /\ \A j \in Job, o \in Operator : jlock[j] = o => CancelFits(o, j)
    /\ \A e \in Executor : Remembers(e)
    /\ \A o \in Operator : HasSeen(o)
=============================================================================
