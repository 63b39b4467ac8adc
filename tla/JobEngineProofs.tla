-------------------------- MODULE JobEngineProofs --------------------------
(***************************************************************************)
(* Machine-checked proofs about JobEngine, for any number of workers,      *)
(* operators, jobs and devices: its type invariant, the lock discipline,   *)
(* and what follows from it.                                               *)
(***************************************************************************)
EXTENDS JobEngine, TLAPS

USE DEF Executor, Tx

\* The marker for "no job" is not a job.
LEMMA NoJobNotJob == NoJob \notin Job
BY BoundAssumption DEF NoJob, Job

----------------------------------------------------------------------------
(* Type correctness *)

\* The initial state is well typed.
LEMMA InitType == Init => TypeOK
BY TxAssumption, BoundAssumption
   DEF Init, TypeOK, JobRow, JobStatus, Terminal, DeviceJobStatus, PC, OpPC, Blank, OpIdle

\* Writing a status, or a device's status, keeps the rows well typed.
LEMMA StatusType ==
    ASSUME NEW F \in [Job -> JobRow], NEW j \in Job, NEW s \in JobStatus
    PROVE  [F EXCEPT ![j].status = s] \in [Job -> JobRow]
BY DEF JobRow

LEMMA MemType ==
    ASSUME NEW F \in [Executor -> JobRow], NEW e \in Executor, NEW s \in JobStatus
    PROVE  [F EXCEPT ![e].status = s] \in [Executor -> JobRow]
BY DEF JobRow

LEMMA DeviceStatusType ==
    ASSUME NEW S, NEW F \in [Job -> [Device -> S]], NEW j \in Job, NEW d \in Device, NEW s \in S
    PROVE  [F EXCEPT ![j][d] = s] \in [Job -> [Device -> S]]
OBVIOUS

\* Commit keeps the rows and the locks well typed.
LEMMA CommitType ==
    ASSUME TypeOK, NEW t \in Tx, Commit(t)
    PROVE  /\ job' \in [Job -> JobRow] /\ wjob' \in [Job -> JobRow]
           /\ dev' \in [Job -> [Device -> DeviceJobStatus]]
           /\ wdev' \in [Job -> [Device -> DeviceJobStatus]]
           /\ jlock' \in [Job -> Tx \cup {NoTx}]
           /\ dlock' \in [Job -> [Device -> Tx \cup {NoTx}]]
           /\ audit' \in Tx \cup {NoTx}
BY DEF TypeOK, Commit, Free, FreeDev, FreeAudit

\* So does rollback.
LEMMA RollBackType ==
    ASSUME TypeOK, NEW t \in Tx, RollBack(t)
    PROVE  /\ job' \in [Job -> JobRow] /\ wjob' \in [Job -> JobRow]
           /\ dev' \in [Job -> [Device -> DeviceJobStatus]]
           /\ wdev' \in [Job -> [Device -> DeviceJobStatus]]
           /\ jlock' \in [Job -> Tx \cup {NoTx}]
           /\ dlock' \in [Job -> [Device -> Tx \cup {NoTx}]]
           /\ audit' \in Tx \cup {NoTx}
BY DEF TypeOK, RollBack, Free, FreeDev, FreeAudit, rows

\* An executor that leaves its transaction is back at its starting point.
LEMMA LeaveType ==
    ASSUME TypeOK, NEW e \in Executor, Leave(e)
    PROVE  /\ pc' \in [Executor -> PC] /\ cur' \in [Executor -> Job \cup {NoJob}]
           /\ on' \in [Executor -> Device \cup {NoDev}] /\ mem' \in [Executor -> JobRow]
           /\ ran' \in [Worker -> 0..Batch]
BY BoundAssumption DEF TypeOK, Leave, PC, Blank, JobRow, JobStatus

\* A worker runs no more than Batch jobs in a pass.
BatchBound == \A w \in Worker : cur[w] # NoJob => ran[w] < Batch

IInv == TypeOK /\ BatchBound /\ LockDiscipline

\* Every step keeps the types and the batch bound.
LEMMA TypeStep == IInv /\ [Next]_vars => TypeOK' /\ BatchBound'
<1> SUFFICES ASSUME IInv, [Next]_vars PROVE TypeOK' /\ BatchBound'
  OBVIOUS
<1> USE TxAssumption, BoundAssumption DEF NoJob
<1>0. /\ TypeOK /\ BatchBound /\ LockDiscipline
      /\ \A e \in Executor : cur[e] = 0 <=> pc[e] \in {"off", "between", "commit"}
      /\ \A e \in Executor : e \in Worker => pc[e] \notin {"off", "entry", "start", "commit"}
  BY DEF IInv, LockDiscipline, Holds
<1>1. ASSUME NEW j \in Job, CreateApi(j) \/ CreateScheduled(j) \/ \E i \in Job : RerunFailed(i, j)
      PROVE  TypeOK' /\ BatchBound'
  <2>1. PICK D : D \in SUBSET Device /\ NewJob(j, D)
    BY <1>1 DEF CreateApi, CreateScheduled, RerunFailed
  <2>2. RunInline(j) \/ UNCHANGED exec
    BY <1>1 DEF CreateApi, CreateScheduled, RerunFailed
  <2>3. UNCHANGED <<op, crashes, cancels>>
    BY <1>1 DEF CreateApi, CreateScheduled, RerunFailed
  <2>4. /\ job' \in [Job -> JobRow] /\ wjob' \in [Job -> JobRow]
        /\ dev' \in [Job -> [Device -> DeviceJobStatus]]
        /\ wdev' \in [Job -> [Device -> DeviceJobStatus]]
    <3>1. "queued" \in JobStatus
      BY DEF JobStatus
    <3>2. [d \in Device |-> IF d \in D THEN "pending" ELSE "none"] \in [Device -> DeviceJobStatus]
      BY DEF DeviceJobStatus
    <3> QED
      BY <1>0, <2>1, <3>1, <3>2, StatusType DEF NewJob, TypeOK
  <2>5. /\ pc' \in [Executor -> PC] /\ cur' \in [Executor -> Job \cup {NoJob}]
        /\ BatchBound'
    <3>1. CASE RunInline(j)
      <4>1. pc' \in [Executor -> PC] /\ cur' \in [Executor -> Job \cup {NoJob}]
        BY <1>0, <3>1 DEF RunInline, TypeOK, PC
      <4>2. ASSUME NEW w \in Worker PROVE cur'[w] = cur[w]
        BY <1>0, <3>1, <4>2 DEF RunInline, TypeOK
      <4> QED BY <1>0, <3>1, <4>1, <4>2 DEF RunInline, BatchBound
    <3>2. CASE UNCHANGED exec
      BY <1>0, <3>2 DEF exec, TypeOK, BatchBound
    <3> QED BY <2>2, <3>1, <3>2
  <2> QED
    BY <1>0, <2>1, <2>2, <2>3, <2>4, <2>5 DEF NewJob, RunInline, exec, TypeOK
<1>2. ASSUME NEW w \in Worker, ClaimNext(w) PROVE TypeOK' /\ BatchBound'
  <2>1. PICK j \in Claimable(w) :
           /\ wjob' = [wjob EXCEPT ![j].status = "running"]
           /\ jlock' = [jlock EXCEPT ![j] = w]
           /\ mem' = [mem EXCEPT ![w] = [View(w, j) EXCEPT !.status = "running"]]
           /\ cur' = [cur EXCEPT ![w] = j]
    BY <1>2 DEF ClaimNext
  <2>2. j \in Job /\ "running" \in JobStatus /\ View(w, j) \in JobRow
    BY <1>0, <2>1 DEF Claimable, View, TypeOK, JobStatus
  <2>3. wjob' \in [Job -> JobRow] /\ mem' \in [Executor -> JobRow]
    BY <1>0, <2>1, <2>2, StatusType DEF TypeOK, JobRow
  <2>4. BatchBound'
    BY <1>0, <1>2, <2>1 DEF ClaimNext, BatchBound, TypeOK
  <2> QED
    BY <1>0, <1>2, <2>1, <2>2, <2>3, <2>4 DEF ClaimNext, TypeOK, rows, PC
<1>3. ASSUME NEW e \in Executor, Load(e) \/ Start(e) \/ Refresh(e)
      PROVE  TypeOK' /\ BatchBound'
  <2>1. cur[e] \in Job
    BY <1>0, <1>3 DEF Load, Start, Refresh, TypeOK
  <2>2. CASE Load(e)
    BY <1>0, <2>1, <2>2 DEF Load, View, TypeOK, BatchBound, rows, work, PC
  <2>3. CASE Start(e)
    <3>1. wjob' \in [Job -> JobRow] /\ mem' \in [Executor -> JobRow]
      BY <1>0, <2>1, <2>3, StatusType, MemType DEF Start, TypeOK, JobStatus
    <3> QED
      BY <1>0, <2>1, <2>3, <3>1 DEF Start, TypeOK, BatchBound, rows, PC
  <2>4. CASE Refresh(e)
    BY <1>0, <2>1, <2>4 DEF Refresh, View, TypeOK, BatchBound, rows, work, PC
  <2> QED BY <1>3, <2>2, <2>3, <2>4
<1>4. ASSUME NEW e \in Executor, ClaimDevice(e) \/ NoDeviceLeft(e) \/ FinishDevice(e)
      PROVE  TypeOK' /\ BatchBound'
  <2>1. cur[e] \in Job
    BY <1>0, <1>4 DEF ClaimDevice, NoDeviceLeft, FinishDevice, TypeOK
  <2>2. CASE ClaimDevice(e)
    BY <1>0, <2>1, <2>2 DEF ClaimDevice, Pending, TypeOK, BatchBound, rows, DeviceJobStatus, PC
  <2>3. CASE NoDeviceLeft(e)
    BY <1>0, <2>1, <2>3 DEF NoDeviceLeft, TypeOK, BatchBound, rows, work, PC
  <2>4. CASE FinishDevice(e)
    <3>1. on[e] \in Device /\ {"succeeded", "failed"} \subseteq DeviceJobStatus
      BY <1>0, <2>4 DEF FinishDevice, LockDiscipline, Holds, DeviceJobStatus
    <3>2. wdev' \in [Job -> [Device -> DeviceJobStatus]]
      BY <1>0, <2>1, <2>4, <3>1, DeviceStatusType DEF FinishDevice, TypeOK
    <3> QED
      BY <1>0, <2>1, <2>4, <3>2 DEF FinishDevice, TypeOK, BatchBound, rows, PC
  <2> QED BY <1>4, <2>2, <2>3, <2>4
<1>5. ASSUME NEW e \in Executor, RollBack(e), Leave(e), UNCHANGED op,
             crashes' \in 0..MaxCrashes, UNCHANGED cancels
      PROVE  TypeOK' /\ BatchBound'
  BY <1>0, <1>5, RollBackType, LeaveType DEF TypeOK, BatchBound, Leave
<1>6. ASSUME NEW e \in Executor, PoisonDevice(e) \/ Crash(e) PROVE TypeOK' /\ BatchBound'
  <2>1. crashes' \in 0..MaxCrashes /\ UNCHANGED cancels
    BY <1>0, <1>6 DEF PoisonDevice, Crash, TypeOK
  <2> QED BY <1>5, <1>6, <2>1 DEF PoisonDevice, Crash
<1>7. ASSUME NEW e \in Executor, RunBody(e) PROVE TypeOK' /\ BatchBound'
  BY <1>0, <1>7 DEF RunBody, TypeOK, BatchBound, rows, PC
<1>8. ASSUME NEW e \in Executor, BodyRaises(e) PROVE TypeOK' /\ BatchBound'
  <2>1. CASE e \in Job /\ RollBack(e) /\ Leave(e)
    BY <1>0, <1>5, <1>8, <2>1 DEF BodyRaises, TypeOK
  <2>2. CASE e \in Worker /\ ~(e \in Job /\ RollBack(e) /\ Leave(e))
    <3> DEFINE s == IF mem[e].status \in Terminal THEN wjob[cur[e]].status ELSE "failed"
    <3>0. /\ pc[e] = "loop"
          /\ wjob' = [wjob EXCEPT ![cur[e]].status = s]
          /\ ran' = [ran EXCEPT ![e] = @ + 1]
          /\ pc' = [pc EXCEPT ![e] = "between"]
          /\ cur' = [cur EXCEPT ![e] = NoJob]
          /\ mem' = [mem EXCEPT ![e] = Blank]
          /\ UNCHANGED <<rows, wdev, jlock, dlock, audit, on, op, crashes, cancels>>
      BY <1>8, <2>2 DEF BodyRaises
    <3>1. cur[e] \in Job /\ ran[e] + 1 \in 0..Batch
      BY <1>0, <2>2, <3>0 DEF TypeOK, BatchBound
    <3>2. s \in JobStatus /\ Blank \in JobRow
      BY <1>0, <3>1 DEF TypeOK, JobRow, JobStatus, Terminal, Blank
    <3> HIDE DEF s
    <3>3. wjob' \in [Job -> JobRow]
      BY <1>0, <3>0, <3>1, <3>2, StatusType DEF TypeOK
    <3>4. ran' \in [Worker -> 0..Batch] /\ BatchBound'
      BY <1>0, <2>2, <3>0, <3>1 DEF TypeOK, BatchBound
    <3> QED
      BY <1>0, <3>0, <3>2, <3>3, <3>4 DEF TypeOK, rows, PC
  <2> QED BY <1>8, <2>1, <2>2 DEF BodyRaises
<1>9. ASSUME NEW e \in Executor, Close(e) PROVE TypeOK' /\ BatchBound'
  <2>1. cur[e] \in Job /\ Verdicts(e) \subseteq JobStatus
    BY <1>0, <1>9 DEF Close, TypeOK, Verdicts, JobStatus, Terminal
  <2>2. wjob[cur[e]].status \in JobStatus
    BY <1>0, <2>1 DEF TypeOK, JobRow
  <2>3. wjob' \in [Job -> JobRow]
    <3>1. PICK v \in Verdicts(e) : wjob' = [wjob EXCEPT ![cur[e]].status =
                                             IF v = mem[e].status THEN @ ELSE v]
      BY <1>9 DEF Close
    <3> DEFINE s == IF v = mem[e].status THEN wjob[cur[e]].status ELSE v
    <3>2. wjob' = [wjob EXCEPT ![cur[e]].status = s] /\ s \in JobStatus
      BY <2>1, <2>2, <3>1
    <3> HIDE DEF s
    <3> QED BY <1>0, <2>1, <3>2, StatusType DEF TypeOK
  <2> QED
    BY <1>0, <1>9, <2>1, <2>3 DEF Close, TypeOK, BatchBound, rows, PC
<1>10. ASSUME NEW e \in Executor, AuditClose(e) PROVE TypeOK' /\ BatchBound'
  <2>1. e \in Worker => ran[e] + 1 \in 0..Batch
    BY <1>0, <1>10 DEF AuditClose, TypeOK, BatchBound
  <2> QED
    BY <1>0, <1>10, <2>1 DEF AuditClose, TypeOK, BatchBound, rows, Blank, JobRow, JobStatus, PC
<1>11. ASSUME NEW e \in Executor, CommitRun(e) PROVE TypeOK' /\ BatchBound'
  BY <1>0, <1>11, CommitType, LeaveType DEF CommitRun, TypeOK, BatchBound, Leave
<1>12. ASSUME NEW o \in Operator, NEW j \in Job, CancelRead(o, j) PROVE TypeOK' /\ BatchBound'
  BY <1>0, <1>12 DEF CancelRead, TypeOK, BatchBound, rows, work, exec, JobRow, OpPC
<1>13. ASSUME NEW o \in Operator, CancelUpdate(o) PROVE TypeOK' /\ BatchBound'
  <2>1. op[o].job \in Job
    BY <1>0, <1>13 DEF LockDiscipline, ReadsSafely, CancelUpdate
  <2>2. wjob' \in [Job -> JobRow] /\ wdev' \in [Job -> [Device -> DeviceJobStatus]]
    BY <1>0, <1>13, <2>1 DEF CancelUpdate, TypeOK, JobRow, JobStatus, DeviceJobStatus
  <2>3. jlock' \in [Job -> Tx \cup {NoTx}] /\ dlock' \in [Job -> [Device -> Tx \cup {NoTx}]]
    BY <1>0, <1>13, <2>1 DEF CancelUpdate, TypeOK
  <2>4. op' \in [Operator -> [pc : OpPC, job : Job \cup {NoJob}, seen : JobStatus,
                              pend : SUBSET Device]]
    <3>1. "audit" \in OpPC /\ op \in [Operator -> [pc : OpPC, job : Job \cup {NoJob},
                                       seen : JobStatus, pend : SUBSET Device]]
      BY <1>0 DEF TypeOK, OpPC
    <3>2. op' = [op EXCEPT ![o].pc = "audit"]
      BY <1>13 DEF CancelUpdate
    <3> QED BY <3>1, <3>2
  <2> QED
    BY <1>0, <1>13, <2>2, <2>3, <2>4 DEF CancelUpdate, TypeOK, BatchBound, rows, exec
<1>14. ASSUME NEW o \in Operator, CancelCommit(o) PROVE TypeOK' /\ BatchBound'
  BY <1>0, <1>14, CommitType DEF CancelCommit, TypeOK, BatchBound, exec, OpIdle, OpPC, JobStatus
<1>15. ASSUME NEW t \in Tx, DeadlockVictim(t) PROVE TypeOK' /\ BatchBound'
  <2>1. CASE t \in Executor /\ Leave(t) /\ UNCHANGED op
    BY <1>0, <1>5, <1>15, <2>1 DEF DeadlockVictim, TypeOK
  <2>2. CASE t \in Operator /\ op' = [op EXCEPT ![t] = OpIdle] /\ UNCHANGED exec
    BY <1>0, <1>15, <2>2, RollBackType
       DEF DeadlockVictim, TypeOK, BatchBound, exec, OpIdle, OpPC, JobStatus
  <2> QED BY <1>15, <2>1, <2>2 DEF DeadlockVictim
<1>16. CASE UNCHANGED vars
  BY <1>0, <1>16 DEF TypeOK, BatchBound, vars, rows, work, exec
<1> QED
  BY <1>1, <1>2, <1>3, <1>4, <1>6, <1>7, <1>8, <1>9, <1>10, <1>11, <1>12, <1>13, <1>14,
     <1>15, <1>16 DEF Next, Execute, Idle

----------------------------------------------------------------------------
(* The lock discipline *)

\* Nothing is locked at first.
LEMMA InitLock == Init => LockDiscipline /\ BatchBound
BY TxAssumption, BoundAssumption
   DEF Init, LockDiscipline, RowAgrees, LeftIsSettled, Holds, HeldIsReady,
       ReadsSafely, BatchBound, Blank, OpIdle, Left, Settled, NoJob

SameRow(j) ==
    /\ job'[j] = job[j] /\ wjob'[j] = wjob[j] /\ jlock'[j] = jlock[j]
    /\ dev'[j] = dev[j] /\ wdev'[j] = wdev[j] /\ dlock'[j] = dlock[j]
SameExecutor(e) == pc'[e] = pc[e] /\ cur'[e] = cur[e] /\ on'[e] = on[e]

\* An executor that works on one job, writes it only under its lock and commits
\* nothing disturbs nobody else.
LEMMA LocalStep ==
    ASSUME IInv, TypeOK', NEW e \in Executor, NEW j \in Job,
           {cur[e], cur'[e]} \subseteq {j, NoJob},
           \A i \in Job \ {j} : SameRow(i),
           \A f \in Executor \ {e} : SameExecutor(f),
           jlock[j] \in {NoTx, e} \/ SameRow(j),
           jlock[j] # jlock'[j] => jlock'[j] = e,
           UNCHANGED <<rows, op>>,
           RowAgrees(j)', LeftIsSettled(j)', HeldIsReady(j)', Holds(e)'
    PROVE  LockDiscipline'
<1> USE TxAssumption DEF NoJob
<1>0. TypeOK /\ LockDiscipline
  BY DEF IInv
<1>1. ASSUME NEW i \in Job PROVE RowAgrees(i)' /\ LeftIsSettled(i)' /\ HeldIsReady(i)'
  <2>1. CASE i = j
    BY <2>1
  <2>2. CASE i # j
    <3>1. SameRow(i) /\ RowAgrees(i) /\ LeftIsSettled(i) /\ HeldIsReady(i)
      BY <1>0, <2>2 DEF LockDiscipline
    <3>2. RowAgrees(i)' /\ LeftIsSettled(i)'
      BY <3>1 DEF SameRow, RowAgrees, LeftIsSettled, Left, Settled
    <3>3. jlock[i] \in Executor => SameExecutor(jlock[i]) \/ jlock[i] = e
      OBVIOUS
    <3>4. cur[e] # i /\ cur'[e] # i
      BY <2>2, NoJobNotJob
    <3>5. HeldIsReady(i)'
      <4>1. CASE jlock[i] = e
        BY <3>1, <3>4, <4>1 DEF SameRow, HeldIsReady, Settled
      <4>2. CASE jlock[i] # e
        BY <3>1, <3>3, <4>2 DEF SameRow, SameExecutor, HeldIsReady, Settled
      <4> QED BY <4>1, <4>2
    <3> QED BY <3>2, <3>5
  <2> QED BY <2>1, <2>2
<1>2. ASSUME NEW f \in Executor PROVE Holds(f)'
  <2>1. CASE f = e
    BY <2>1
  <2>2. CASE f # e
    <3>1. SameExecutor(f) /\ Holds(f)
      BY <1>0, <2>2 DEF LockDiscipline
    <3>2. CASE cur[f] = NoJob
      BY <3>1, <3>2 DEF Holds, SameExecutor
    <3>3. CASE cur[f] \in Job
      <4>1. jlock[cur[f]] = f <=> jlock'[cur[f]] = f
        BY <1>0, <2>2, <3>3 DEF SameRow
      <4>2. jlock[cur[f]] = f => SameRow(cur[f])
        BY <1>0, <2>2, <3>3
      <4> QED
        BY <3>1, <3>3, <4>1, <4>2 DEF Holds, SameExecutor, SameRow, rows, Left, Settled
    <3> QED BY <1>0, <3>2, <3>3 DEF TypeOK
  <2> QED BY <2>1, <2>2
<1>3. ASSUME NEW o \in Operator PROVE ReadsSafely(o)'
  BY <1>0 DEF LockDiscipline, ReadsSafely, rows, Left
<1> QED BY <1>1, <1>2, <1>3 DEF LockDiscipline

\* A new job touches no other row, and no executor or operator refers to it.
LEMMA CreateLock ==
    ASSUME IInv, NEW j \in Job, NEW D \in SUBSET Device, NewJob(j, D),
           RunInline(j) \/ UNCHANGED exec, UNCHANGED op
    PROVE  LockDiscipline'
<1> USE TxAssumption
<1>0. TypeOK /\ LockDiscipline /\ RowAgrees(j) /\ LeftIsSettled(j)
  BY DEF IInv, LockDiscipline
<1>1. /\ job[j].status = "none" /\ jlock[j] = NoTx /\ ~job[j].cancel /\ wjob[j] = job[j]
      /\ \A d \in Device : dlock[j][d] = NoTx
  <2>1. wjob[j].status = "none"
    BY DEF NewJob
  <2>2. job[j].status = "none"
    BY <1>0, <2>1 DEF RowAgrees
  <2> QED BY <1>0, <2>1, <2>2 DEF RowAgrees, LeftIsSettled, Left
<1>2. /\ \A i \in Job \ {j} : SameRow(i)
      /\ jlock' = jlock /\ dlock' = dlock
  BY <1>0 DEF NewJob, TypeOK, SameRow
<1>3. /\ job'[j].status = "queued" /\ job'[j].cancel = job[j].cancel /\ wjob'[j] = job'[j]
      /\ \A d \in Device : dev'[j][d] = wdev'[j][d] /\ dev'[j][d] \in {"pending", "none"}
  <2>1. job'[j].status = "queued" /\ job'[j].cancel = job[j].cancel
    BY <1>0 DEF NewJob, TypeOK, JobRow
  <2>2. wjob'[j].status = "queued" /\ wjob'[j].cancel = wjob[j].cancel
    BY <1>0 DEF NewJob, TypeOK, JobRow
  <2>3. job'[j] = [job[j] EXCEPT !.status = "queued"] /\ wjob'[j] = [wjob[j] EXCEPT !.status = "queued"]
    BY <1>0, Zenon DEF NewJob, TypeOK
  <2>4. \A d \in Device : dev'[j][d] = wdev'[j][d] /\ dev'[j][d] \in {"pending", "none"}
    BY <1>0 DEF NewJob, TypeOK
  <2> QED BY <1>1, <2>1, <2>3, <2>4
<1>4. /\ \A e \in Executor \ {j} : SameExecutor(e)
      /\ on'[j] = on[j]
      /\ SameExecutor(j) \/ (cur'[j] = j /\ pc'[j] = "entry")
  BY <1>0 DEF RunInline, exec, TypeOK, SameExecutor
<1>5. ASSUME NEW e \in Executor, cur[e] \in Job PROVE cur[e] # j
  BY <1>0, <1>1, <1>5, NoJobNotJob DEF LockDiscipline, Holds
<1>6. ASSUME NEW i \in Job PROVE RowAgrees(i)' /\ LeftIsSettled(i)' /\ HeldIsReady(i)'
  <2>1. CASE i = j
    BY <1>1, <1>2, <1>3, <2>1 DEF RowAgrees, LeftIsSettled, HeldIsReady, Left
  <2>2. CASE i # j
    <3>1. SameRow(i) /\ RowAgrees(i) /\ LeftIsSettled(i) /\ HeldIsReady(i)
      BY <1>0, <1>2, <2>2 DEF LockDiscipline
    <3>2. RowAgrees(i)' /\ LeftIsSettled(i)'
      BY <3>1 DEF SameRow, RowAgrees, LeftIsSettled, Left, Settled
    <3>3. CASE jlock[i] \in Executor /\ SameExecutor(jlock[i])
      BY <3>1, <3>2, <3>3 DEF SameRow, SameExecutor, HeldIsReady, Settled
    <3>4. CASE jlock[i] = j /\ cur'[j] = j
      <4>1. cur[j] # i
        BY <1>0, <2>2, NoJobNotJob DEF LockDiscipline, Holds
      <4>2. Settled(wdev[i])
        BY <3>1, <3>4, <4>1 DEF HeldIsReady
      <4> QED BY <3>1, <3>2, <3>4, <4>2 DEF SameRow, HeldIsReady, Settled
    <3>5. CASE jlock[i] \notin Executor
      BY <3>1, <3>2, <3>5 DEF SameRow, HeldIsReady, Settled
    <3> QED BY <1>4, <3>2, <3>3, <3>4, <3>5
  <2> QED BY <2>1, <2>2
<1>7. ASSUME NEW e \in Executor PROVE Holds(e)'
  <2>0. Holds(e)
    BY <1>0 DEF LockDiscipline
  <2>1. CASE SameExecutor(e) /\ cur[e] = NoJob
    BY <2>0, <2>1 DEF SameExecutor, Holds
  <2>2. CASE SameExecutor(e) /\ cur[e] \in Job
    <3>1. SameRow(cur[e])
      BY <1>2, <1>5, <2>2
    <3> QED BY <2>0, <2>2, <3>1 DEF SameExecutor, SameRow, Holds, Left, Settled
  <2>3. CASE e = j /\ cur'[j] = j /\ pc'[j] = "entry"
    BY <1>3, <2>3, NoJobNotJob DEF Holds
  <2> QED BY <1>0, <1>4, <2>1, <2>2, <2>3 DEF TypeOK
<1>8. ASSUME NEW o \in Operator PROVE ReadsSafely(o)'
  <2>1. ReadsSafely(o) /\ op' = op
    BY <1>0 DEF LockDiscipline
  <2>2. CASE op[o].pc = "update"
    <3>1. op[o].job \in Job \ {j}
      BY <1>1, <2>1, <2>2 DEF ReadsSafely
    <3>2. SameRow(op[o].job)
      BY <1>2, <3>1
    <3> QED BY <2>1, <3>1, <3>2 DEF ReadsSafely, SameRow, Left
  <2> QED BY <2>1, <2>2 DEF ReadsSafely
<1> QED BY <1>6, <1>7, <1>8 DEF LockDiscipline

\* claim_next: the row was free and queued, so nobody else is at work on it.
LEMMA ClaimNextLock ==
    ASSUME IInv, TypeOK', NEW w \in Worker, ClaimNext(w)
    PROVE  LockDiscipline'
<1> USE TxAssumption DEF NoJob
<1>0. TypeOK /\ LockDiscipline /\ Holds(w)
  BY DEF IInv, LockDiscipline
<1>1. PICK j \in Claimable(w) :
         /\ wjob' = [wjob EXCEPT ![j].status = "running"]
         /\ jlock' = [jlock EXCEPT ![j] = w]
         /\ cur' = [cur EXCEPT ![w] = j]
  BY DEF ClaimNext
<1>2. /\ j \in Job /\ jlock[j] = NoTx /\ job[j].status = "queued"
      /\ RowAgrees(j) /\ LeftIsSettled(j) /\ HeldIsReady(j)
  BY <1>0, <1>1 DEF Claimable, View, LockDiscipline
<1>3. /\ pc[w] = "between" /\ pc' = [pc EXCEPT ![w] = "loop"]
      /\ UNCHANGED <<rows, wdev, dlock, on, op>>
  BY DEF ClaimNext
<1>4. /\ wjob[j] = job[j] /\ \A d \in Device : dlock[j][d] = NoTx
      /\ wjob'[j] = [wjob[j] EXCEPT !.status = "running"] /\ jlock'[j] = w
      /\ cur[w] = NoJob /\ cur'[w] = j /\ pc'[w] = "loop"
  BY <1>0, <1>1, <1>2, <1>3 DEF RowAgrees, Holds, TypeOK
<1>5. RowAgrees(j)' /\ LeftIsSettled(j)'
  BY <1>0, <1>2, <1>3, <1>4 DEF RowAgrees, LeftIsSettled, Left, Settled, TypeOK, JobRow, rows
<1>6. HeldIsReady(j)'
  <2>1. \A d \in Device : wdev'[j][d] # "running"
    BY <1>2, <1>3, <1>4 DEF RowAgrees, LeftIsSettled
  <2> QED BY <1>4, <2>1 DEF HeldIsReady
<1>8. Holds(w)'
  BY <1>2, <1>3, <1>4, NoJobNotJob DEF Holds, rows
<1>7. /\ \A i \in Job \ {j} : SameRow(i)
      /\ \A f \in Executor \ {w} : SameExecutor(f)
  BY <1>0, <1>1, <1>2, <1>3 DEF SameRow, SameExecutor, rows, TypeOK
<1> QED
  BY <1>2, <1>3, <1>4, <1>5, <1>6, <1>7, <1>8, LocalStep

\* run_job reads the row and locks nothing.
LEMMA LoadLock ==
    ASSUME IInv, TypeOK', NEW e \in Executor, Load(e) \/ Refresh(e) \/ NoDeviceLeft(e) \/ RunBody(e)
    PROVE  LockDiscipline'
<1> USE TxAssumption DEF NoJob
<1>0. TypeOK /\ LockDiscipline /\ Holds(e)
  BY DEF IInv, LockDiscipline
<1> DEFINE j == cur[e]
<1>1. /\ pc[e] \in {"entry", "loop", "claim"} /\ pc' = [pc EXCEPT ![e] = pc'[e]]
      /\ UNCHANGED <<rows, wjob, wdev, jlock, dlock, cur, on, op>>
  BY <1>0 DEF Load, Refresh, NoDeviceLeft, RunBody, work, TypeOK
<1>2. j \in Job /\ RowAgrees(j) /\ LeftIsSettled(j) /\ HeldIsReady(j)
  BY <1>0, <1>1 DEF Holds, TypeOK, LockDiscipline
<1>3. pc'[e] \in {"start", "loop", "claim", "close"} /\ (pc'[e] = "start" => pc[e] = "entry")
  BY <1>0 DEF Load, Refresh, NoDeviceLeft, RunBody, TypeOK
<1>4. pc'[e] \in {"loop", "claim", "close"} => jlock[j] = e \/ Left(job[j])
  <2>1. CASE pc[e] \in {"loop", "claim"}
    BY <1>0, <2>1 DEF Holds
  <2>2. CASE pc[e] = "entry"
    BY <1>0, <1>2, <2>2 DEF Load, Refresh, NoDeviceLeft, RunBody, TypeOK, Holds, View, Left
  <2> QED BY <1>1, <2>1, <2>2
<1>5. pc'[e] = "close" /\ jlock[j] = e => Settled(wdev[j])
  <2> SUFFICES ASSUME pc'[e] = "close", jlock[j] = e PROVE Settled(wdev[j])
    OBVIOUS
  <2>1. CASE Refresh(e)
    BY <1>0, <1>2, <2>1 DEF Refresh, View, LeftIsSettled, TypeOK
  <2>2. CASE NoDeviceLeft(e)
    <3> SUFFICES ASSUME NEW d \in Device PROVE wdev[j][d] \notin {"pending", "running"}
      BY DEF Settled
    <3>1. wdev[j][d] # "running"
      BY <1>0, <1>2, <2>2 DEF HeldIsReady, NoDeviceLeft
    <3>2. CASE dlock[j][d] = NoTx
      BY <1>0, <1>2, <2>2, <3>1, <3>2 DEF NoDeviceLeft, Pending, DevView, RowAgrees
    <3>3. CASE dlock[j][d] # NoTx
      BY <1>0, <1>2, <2>2, <3>1, <3>3 DEF NoDeviceLeft, Pending, DevView, RowAgrees
    <3> QED BY <3>1, <3>2, <3>3
  <2>3. CASE RunBody(e)
    BY <2>3 DEF RunBody, Scope, Settled
  <2>4. CASE Load(e)
    BY <1>0, <2>4 DEF Load, TypeOK
  <2> QED BY <2>1, <2>2, <2>3, <2>4
<1>6. Holds(e)'
  <2>1. cur'[e] = j /\ job' = job /\ jlock' = jlock /\ wdev' = wdev
    BY <1>1 DEF rows
  <2> QED
    BY <1>0, <1>1, <1>2, <1>3, <1>4, <1>5, <2>1, NoJobNotJob DEF Holds
<1>7. RowAgrees(j)' /\ LeftIsSettled(j)' /\ HeldIsReady(j)'
  BY <1>0, <1>1, <1>2, <1>3
     DEF RowAgrees, LeftIsSettled, HeldIsReady, Left, Settled, rows, TypeOK
<1>8. /\ \A i \in Job : SameRow(i)
      /\ \A f \in Executor \ {e} : SameExecutor(f)
  BY <1>0, <1>1 DEF SameRow, SameExecutor, rows, TypeOK
<1> QED
  BY <1>1, <1>2, <1>6, <1>7, <1>8, LocalStep

\* start: the UPDATE got the row lock, so nobody else holds it.
LEMMA StartLock ==
    ASSUME IInv, TypeOK', NEW e \in Executor, Start(e)
    PROVE  LockDiscipline'
<1> USE TxAssumption DEF NoJob
<1>0. TypeOK /\ LockDiscipline /\ Holds(e)
  BY DEF IInv, LockDiscipline
<1> DEFINE j == cur[e]
<1>1. /\ pc[e] = "start" /\ pc' = [pc EXCEPT ![e] = "loop"] /\ jlock[j] \in {NoTx, e}
      /\ wjob' = [wjob EXCEPT ![j].status = "running"] /\ jlock' = [jlock EXCEPT ![j] = e]
      /\ UNCHANGED <<rows, wdev, dlock, cur, on, op>>
  BY DEF Start, CanWriteJob
<1>2. j \in Job /\ RowAgrees(j) /\ LeftIsSettled(j) /\ HeldIsReady(j)
  BY <1>0, <1>1 DEF Holds, TypeOK, LockDiscipline
<1>3. /\ wjob'[j].status = "running" /\ wjob'[j].cancel = wjob[j].cancel /\ jlock'[j] = e
      /\ pc'[e] = "loop" /\ cur'[e] = j /\ job[j].status # "none"
      /\ \A d \in Device : wdev[j][d] # "running"
  <2>1. wjob'[j].status = "running" /\ wjob'[j].cancel = wjob[j].cancel
    BY <1>0, <1>1, <1>2 DEF TypeOK, JobRow
  <2>2. jlock'[j] = e /\ pc'[e] = "loop" /\ cur'[e] = j
    BY <1>0, <1>1, <1>2 DEF TypeOK
  <2>3. job[j].status # "none"
    BY <1>0, <1>2, NoJobNotJob DEF Holds
  <2>4. \A d \in Device : wdev[j][d] # "running"
    BY <1>1, <1>2 DEF HeldIsReady
  <2> QED BY <2>1, <2>2, <2>3, <2>4
<1>4. RowAgrees(j)'
  <2>1. \A d \in Device : dlock[j][d] # NoTx => dlock[j][d] = e
    BY <1>1, <1>2 DEF RowAgrees
  <2> QED BY <1>0, <1>1, <1>2, <1>3, <2>1 DEF RowAgrees, Left, TypeOK, JobRow, rows
<1>5. LeftIsSettled(j)'
  <2>1. wjob[j].cancel => Settled(wdev[j])
    BY <1>2 DEF LeftIsSettled
  <2> QED BY <1>1, <1>2, <1>3, <2>1 DEF LeftIsSettled, Left, Settled, rows
<1>6. HeldIsReady(j)'
  BY <1>1, <1>3 DEF HeldIsReady
<1>7. Holds(e)'
  <2>1. e \notin Worker
    BY <1>0, <1>1 DEF Holds
  <2> QED BY <1>0, <1>1, <1>2, <1>3, <2>1, NoJobNotJob DEF Holds, rows
<1>8. /\ \A i \in Job \ {j} : SameRow(i)
      /\ \A f \in Executor \ {e} : SameExecutor(f)
  BY <1>0, <1>1, <1>2 DEF SameRow, SameExecutor, rows, TypeOK
<1> QED
  BY <1>1, <1>2, <1>3, <1>4, <1>5, <1>6, <1>7, <1>8, LocalStep

\* claim_next_device: a pending device means the job has not left the queue, so
\* the executor does hold the job row.
LEMMA ClaimDeviceLock ==
    ASSUME IInv, TypeOK', NEW e \in Executor, ClaimDevice(e)
    PROVE  /\ LockDiscipline'
           /\ jlock[cur[e]] = e /\ ~wjob[cur[e]].cancel
           /\ job[cur[e]] = [status |-> "queued", cancel |-> FALSE]
           /\ cur'[e] = cur[e] /\ dev[cur[e]][on'[e]] = "pending"
<1> USE TxAssumption DEF NoJob
<1>0. TypeOK /\ LockDiscipline /\ Holds(e)
  BY DEF IInv, LockDiscipline
<1> DEFINE j == cur[e]
<1>1. PICK d \in Pending(e) : /\ wdev' = [wdev EXCEPT ![j][d] = "running"]
                              /\ dlock' = [dlock EXCEPT ![j][d] = e]
                              /\ on' = [on EXCEPT ![e] = d]
  BY DEF ClaimDevice
<1>2. /\ pc[e] = "claim" /\ pc' = [pc EXCEPT ![e] = "session"]
      /\ UNCHANGED <<rows, wjob, jlock, cur, op>>
  BY DEF ClaimDevice
<1>3. j \in Job /\ RowAgrees(j) /\ LeftIsSettled(j) /\ HeldIsReady(j)
  BY <1>0, <1>2 DEF Holds, TypeOK, LockDiscipline
<1>4. d \in Device /\ dlock[j][d] = NoTx /\ dev[j][d] = "pending" /\ wdev[j][d] = "pending"
  BY <1>1, <1>3 DEF Pending, DevView, RowAgrees
<1>5. /\ ~Left(job[j]) /\ ~job[j].cancel /\ ~wjob[j].cancel /\ jlock[j] = e
      /\ job[j].status # "none"
  BY <1>0, <1>2, <1>3, <1>4, NoJobNotJob DEF LeftIsSettled, Settled, Holds
<1>6. /\ cur'[e] = j /\ on'[e] = d /\ pc'[e] = "session"
      /\ dlock'[j][d] = e /\ wdev'[j][d] = "running"
      /\ \A x \in Device \ {d} : wdev'[j][x] = wdev[j][x] /\ dlock'[j][x] = dlock[j][x]
      /\ job'[j] = job[j] /\ wjob'[j] = wjob[j] /\ dev'[j] = dev[j] /\ jlock'[j] = e
  <2>1. cur'[e] = j /\ on'[e] = d /\ pc'[e] = "session"
    BY <1>0, <1>1, <1>2 DEF TypeOK
  <2>2. /\ dlock'[j][d] = e /\ wdev'[j][d] = "running"
        /\ \A x \in Device \ {d} : wdev'[j][x] = wdev[j][x] /\ dlock'[j][x] = dlock[j][x]
    BY <1>0, <1>1, <1>3, <1>4 DEF TypeOK
  <2> QED BY <1>2, <1>5, <2>1, <2>2 DEF rows
<1>7. RowAgrees(j)' /\ LeftIsSettled(j)'
  BY <1>3, <1>4, <1>5, <1>6 DEF RowAgrees, LeftIsSettled, Left, Settled
<1>8. HeldIsReady(j)'
  <2>1. \A x \in Device : wdev[j][x] # "running"
    BY <1>2, <1>3, <1>5 DEF HeldIsReady
  <2> QED BY <1>5, <1>6, <2>1 DEF HeldIsReady
<1>9. Holds(e)'
  BY <1>0, <1>2, <1>3, <1>4, <1>5, <1>6, NoJobNotJob DEF Holds, rows
<1>10. /\ \A i \in Job \ {j} : SameRow(i)
       /\ \A f \in Executor \ {e} : SameExecutor(f)
  BY <1>0, <1>1, <1>2, <1>3, <1>4 DEF SameRow, SameExecutor, rows, TypeOK
<1>11. LockDiscipline'
  BY <1>2, <1>3, <1>5, <1>6, <1>7, <1>8, <1>9, <1>10, LocalStep
<1>12. job[j] = [status |-> "queued", cancel |-> FALSE]
  <2>1. job[j] \in JobRow /\ job[j].status = "queued" /\ job[j].cancel = FALSE
    BY <1>0, <1>3, <1>5 DEF TypeOK, JobRow, Left
  <2>2. job[j] = [status |-> job[j].status, cancel |-> job[j].cancel]
    BY <2>1 DEF JobRow
  <2> QED BY <2>1, <2>2
<1> QED BY <1>4, <1>5, <1>6, <1>11, <1>12

\* finish_device writes rows the session already holds.
LEMMA FinishDeviceLock ==
    ASSUME IInv, TypeOK', NEW e \in Executor, FinishDevice(e)
    PROVE  LockDiscipline'
<1> USE TxAssumption DEF NoJob
<1>0. TypeOK /\ LockDiscipline /\ Holds(e)
  BY DEF IInv, LockDiscipline
<1> DEFINE j == cur[e]
<1> DEFINE d == on[e]
<1>1. PICK s \in {"succeeded", "failed"} : wdev' = [wdev EXCEPT ![j][d] = s]
  BY DEF FinishDevice
<1>2. /\ pc[e] = "session" /\ pc' = [pc EXCEPT ![e] = "loop"]
      /\ jlock' = [jlock EXCEPT ![j] = e] /\ on' = [on EXCEPT ![e] = NoDev]
      /\ UNCHANGED <<rows, wjob, dlock, cur, op>>
  BY DEF FinishDevice
<1>3. j \in Job /\ RowAgrees(j) /\ LeftIsSettled(j) /\ HeldIsReady(j)
  BY <1>0, <1>2 DEF Holds, TypeOK, LockDiscipline
<1>4. d \in Device /\ dlock[j][d] = e /\ jlock[j] = e /\ job[j].status # "none"
  BY <1>0, <1>2, <1>3, NoJobNotJob DEF Holds
<1>5. /\ cur'[e] = j /\ pc'[e] = "loop" /\ jlock'[j] = e /\ wdev'[j][d] = s
      /\ \A x \in Device \ {d} : wdev'[j][x] = wdev[j][x]
  BY <1>0, <1>1, <1>2, <1>3, <1>4 DEF TypeOK
<1>6. RowAgrees(j)' /\ LeftIsSettled(j)'
  BY <1>2, <1>3, <1>4, <1>5 DEF RowAgrees, LeftIsSettled, Left, Settled, rows
<1>7. HeldIsReady(j)'
  <2>1. \A x \in Device : wdev'[j][x] # "running"
    BY <1>3, <1>4, <1>5 DEF HeldIsReady
  <2> QED BY <1>4, <1>5, <2>1 DEF HeldIsReady
<1>8. Holds(e)'
  BY <1>0, <1>2, <1>3, <1>4, <1>5, NoJobNotJob DEF Holds, rows
<1>9. /\ \A i \in Job \ {j} : SameRow(i)
      /\ \A f \in Executor \ {e} : SameExecutor(f)
  BY <1>0, <1>1, <1>2, <1>3, <1>4 DEF SameRow, SameExecutor, rows, TypeOK
<1> QED
  BY <1>2, <1>3, <1>4, <1>5, <1>6, <1>7, <1>8, <1>9, LocalStep

\* The final status is written under the lock, over settled devices.
LEMMA CloseLock ==
    ASSUME IInv, TypeOK', NEW e \in Executor, Close(e)
    PROVE  LockDiscipline'
<1> USE TxAssumption DEF NoJob
<1>0. TypeOK /\ LockDiscipline /\ Holds(e)
  BY DEF IInv, LockDiscipline
<1> DEFINE j == cur[e]
<1>1. PICK v \in Verdicts(e) :
         wjob' = [wjob EXCEPT ![j].status = IF v = mem[e].status THEN @ ELSE v]
  BY DEF Close
<1>2. /\ pc[e] = "close" /\ pc' = [pc EXCEPT ![e] = "audit"]
      /\ jlock[j] \in {NoTx, e} /\ jlock' = [jlock EXCEPT ![j] = e]
      /\ UNCHANGED <<rows, wdev, dlock, cur, on, op>>
  BY DEF Close, CanWriteJob
<1>3. j \in Job /\ RowAgrees(j) /\ LeftIsSettled(j) /\ HeldIsReady(j)
  BY <1>0, <1>2 DEF Holds, TypeOK, LockDiscipline
<1>4. /\ job[j].status # "none" /\ (jlock[j] = e \/ Left(job[j]))
      /\ jlock[j] = e => Settled(wdev[j])
  BY <1>0, <1>2, <1>3, NoJobNotJob DEF Holds
<1>5. Left(wjob[j]) /\ Settled(wdev[j])
  <2>1. CASE jlock[j] = e
    BY <1>3, <1>4, <2>1 DEF RowAgrees
  <2>2. CASE jlock[j] = NoTx
    <3>1. \A d \in Device : dlock[j][d] = NoTx
      BY <1>3, <2>2 DEF RowAgrees
    <3> QED BY <1>3, <1>4, <2>2, <3>1 DEF RowAgrees, LeftIsSettled, Settled
  <2> QED BY <1>2, <2>1, <2>2
<1>6. /\ jlock'[j] = e /\ cur'[e] = j /\ pc'[e] = "audit"
      /\ Left(wjob'[j]) /\ wjob'[j].cancel = wjob[j].cancel
  <2>1. Verdicts(e) \subseteq Terminal
    BY DEF Verdicts, Terminal
  <2>2. wjob'[j].status \in {wjob[j].status} \cup Terminal /\ wjob'[j].cancel = wjob[j].cancel
    BY <1>0, <1>1, <1>3, <2>1 DEF TypeOK, JobRow
  <2>3. Left(wjob'[j])
    BY <1>5, <2>2 DEF Left, Terminal
  <2> QED BY <1>0, <1>2, <1>3, <2>2, <2>3 DEF TypeOK
<1>7. RowAgrees(j)'
  <2>1. \A d \in Device : dlock[j][d] # NoTx => dlock[j][d] = e
    BY <1>2, <1>3 DEF RowAgrees
  <2> QED BY <1>2, <1>3, <1>4, <1>6, <2>1 DEF RowAgrees, Left, rows
<1>8. LeftIsSettled(j)'
  BY <1>2, <1>3, <1>5, <1>6 DEF LeftIsSettled, Left, Settled, rows
<1>9. HeldIsReady(j)'
  BY <1>2, <1>5, <1>6 DEF HeldIsReady, Settled
<1>10. Holds(e)'
  BY <1>0, <1>2, <1>3, <1>4, <1>5, <1>6, NoJobNotJob DEF Holds, rows, Settled
<1>11. /\ \A i \in Job \ {j} : SameRow(i)
       /\ \A f \in Executor \ {e} : SameExecutor(f)
  BY <1>0, <1>1, <1>2, <1>3 DEF SameRow, SameExecutor, rows, TypeOK
<1> QED
  BY <1>2, <1>3, <1>6, <1>7, <1>8, <1>9, <1>10, <1>11, LocalStep

\* The executor lets go of a settled job, whose row stays locked to the commit.
LEMMA LetGoLock ==
    ASSUME IInv, TypeOK', NEW e \in Executor, NEW j \in Job, cur[e] = j, jlock[j] = e,
           Settled(wdev[j]), e \in Worker => pc'[e] = "between", e \in Job => pc'[e] = "commit",
           \A f \in Executor \ {e} : SameExecutor(f), cur'[e] = NoJob,
           \A i \in Job \ {j} : wjob'[i] = wjob[i],
           Left(wjob[j]) => Left(wjob'[j]), wjob'[j].cancel = wjob[j].cancel,
           UNCHANGED <<rows, wdev, jlock, dlock, op>>
    PROVE  LockDiscipline'
<1> USE TxAssumption DEF NoJob
<1>0. TypeOK /\ LockDiscipline /\ Holds(e)
      /\ RowAgrees(j) /\ LeftIsSettled(j) /\ HeldIsReady(j)
  BY DEF IInv, LockDiscipline
<1>1. job[j].status # "none"
  BY <1>0, NoJobNotJob DEF Holds
<1>2. RowAgrees(j)'
  BY <1>0, <1>1 DEF RowAgrees, Left, rows
<1>3. LeftIsSettled(j)'
  BY <1>0, <1>1 DEF LeftIsSettled, Left, Settled, rows
<1>4. HeldIsReady(j)'
  BY <1>0 DEF HeldIsReady, Settled
<1>5. Holds(e)'
  BY <1>0 DEF Holds
<1>6. \A i \in Job \ {j} : SameRow(i)
  BY DEF SameRow, rows
<1> QED BY <1>2, <1>3, <1>4, <1>5, <1>6, LocalStep

\* job.completed is audited; the job is done with.
LEMMA AuditCloseLock ==
    ASSUME IInv, TypeOK', NEW e \in Executor, AuditClose(e)
    PROVE  LockDiscipline'
<1>0. TypeOK /\ LockDiscipline /\ Holds(e)
  BY DEF IInv, LockDiscipline
<1>1. cur[e] \in Job
  BY <1>0 DEF AuditClose, Holds, TypeOK
<1>2. jlock[cur[e]] = e /\ Settled(wdev[cur[e]])
  BY <1>0 DEF AuditClose, Holds
<1>3. /\ e \in Worker => pc'[e] = "between"
      /\ e \in Job => pc'[e] = "commit"
      /\ cur'[e] = NoJob /\ \A f \in Executor \ {e} : SameExecutor(f)
  BY <1>0, TxAssumption DEF AuditClose, TypeOK, SameExecutor
<1>4. UNCHANGED <<rows, wjob, wdev, jlock, dlock, op>>
  BY DEF AuditClose
<1> QED BY <1>1, <1>2, <1>3, <1>4, LetGoLock

\* A worker that records a raised error on its job lets go of it; any executor
\* that leaves in another way rolls back.
LEMMA BodyRaisesLock ==
    ASSUME IInv, TypeOK', NEW e \in Executor, BodyRaises(e), ~(RollBack(e) /\ Leave(e))
    PROVE  LockDiscipline'
<1> USE TxAssumption DEF NoJob
<1>0. TypeOK /\ LockDiscipline /\ Holds(e)
  BY DEF IInv, LockDiscipline
<1> DEFINE s == IF mem[e].status \in Terminal THEN wjob[cur[e]].status ELSE "failed"
<1>1. /\ pc[e] = "loop" /\ Scope(cur[e]) = {} /\ e \in Worker
      /\ wjob' = [wjob EXCEPT ![cur[e]].status = s]
      /\ pc' = [pc EXCEPT ![e] = "between"] /\ cur' = [cur EXCEPT ![e] = NoJob]
      /\ UNCHANGED <<rows, wdev, jlock, dlock, on, op>>
  BY DEF BodyRaises
<1>2. cur[e] \in Job /\ jlock[cur[e]] = e
  BY <1>0, <1>1, NoJobNotJob DEF Holds, TypeOK
<1>3. Settled(wdev[cur[e]])
  BY <1>1 DEF Scope, Settled
<1>4. /\ s = wjob[cur[e]].status \/ s = "failed"
      /\ wjob[cur[e]] \in JobRow
  BY <1>0, <1>2 DEF TypeOK
<1> HIDE DEF s
<1>5. /\ wjob'[cur[e]].status = s /\ wjob'[cur[e]].cancel = wjob[cur[e]].cancel
      /\ \A i \in Job \ {cur[e]} : wjob'[i] = wjob[i]
  BY <1>0, <1>1, <1>2, <1>4 DEF TypeOK, JobRow
<1>6. Left(wjob[cur[e]]) => Left(wjob'[cur[e]])
  BY <1>4, <1>5 DEF Left
<1>7. /\ cur'[e] = NoJob /\ pc'[e] = "between" /\ e \notin Job
      /\ \A f \in Executor \ {e} : SameExecutor(f)
  BY <1>0, <1>1 DEF TypeOK, SameExecutor
<1> QED BY <1>1, <1>2, <1>3, <1>5, <1>6, <1>7, LetGoLock

\* Rows another transaction holds are not touched by the end of transaction t.
LEMMA OthersRows ==
    ASSUME IInv, NEW t \in Tx, NEW j \in Job, jlock[j] # t
    PROVE  \A d \in Device : dlock[j][d] # t
BY TxAssumption DEF IInv, LockDiscipline, RowAgrees

\* ... and its own rows are locked by nobody else.
LEMMA OwnRows ==
    ASSUME IInv, NEW t \in Tx, NEW j \in Job, jlock[j] = t
    PROVE  \A d \in Device : dlock[j][d] = t \/ (dlock[j][d] = NoTx /\ wdev[j][d] = dev[j][d])
BY DEF IInv, LockDiscipline, RowAgrees

\* A transaction that is rolled back leaves no trace.
LEMMA RollBackLock ==
    ASSUME IInv, TypeOK', NEW t \in Tx, RollBack(t),
           \/ t \in Executor /\ Leave(t) /\ UNCHANGED op
           \/ t \in Operator /\ op' = [op EXCEPT ![t] = OpIdle] /\ UNCHANGED exec
    PROVE  LockDiscipline'
<1> USE TxAssumption DEF NoJob
<1>0. TypeOK /\ LockDiscipline /\ t # NoTx
  BY DEF IInv
<1>1. \A f \in Executor \ {t} : SameExecutor(f)
  BY <1>0 DEF Leave, exec, SameExecutor, TypeOK
<1>2. /\ job' = job /\ dev' = dev
      /\ \A j \in Job : /\ jlock'[j] = IF jlock[j] = t THEN NoTx ELSE jlock[j]
                        /\ wjob'[j] = IF jlock[j] = t THEN job[j] ELSE wjob[j]
      /\ \A j \in Job, d \in Device :
            /\ dlock'[j][d] = IF dlock[j][d] = t THEN NoTx ELSE dlock[j][d]
            /\ wdev'[j][d] = IF dlock[j][d] = t THEN dev[j][d] ELSE wdev[j][d]
  BY DEF RollBack, Free, FreeDev, rows
<1>3. ASSUME NEW j \in Job PROVE RowAgrees(j)' /\ LeftIsSettled(j)' /\ HeldIsReady(j)'
  <2>0. RowAgrees(j) /\ LeftIsSettled(j) /\ HeldIsReady(j)
    BY <1>0 DEF LockDiscipline
  <2>1. CASE jlock[j] = t
    <3>1. /\ jlock'[j] = NoTx /\ wjob'[j] = job[j]
          /\ \A d \in Device : dlock'[j][d] = NoTx /\ wdev'[j][d] = dev[j][d]
      BY <1>0, <1>2, <2>1, OwnRows
    <3> QED BY <1>2, <2>0, <3>1 DEF RowAgrees, LeftIsSettled, HeldIsReady, Left, Settled
  <2>2. CASE jlock[j] # t
    <3>1. /\ jlock'[j] = jlock[j] /\ wjob'[j] = wjob[j]
          /\ \A d \in Device : dlock'[j][d] = dlock[j][d] /\ wdev'[j][d] = wdev[j][d]
      BY <1>2, <2>2, OthersRows
    <3>2. RowAgrees(j)' /\ LeftIsSettled(j)'
      BY <1>2, <2>0, <3>1 DEF RowAgrees, LeftIsSettled, Left, Settled
    <3>3. jlock[j] \in Executor => SameExecutor(jlock[j])
      BY <1>1, <2>2
    <3>4. HeldIsReady(j)'
      BY <2>0, <3>1, <3>3 DEF HeldIsReady, Settled, SameExecutor
    <3> QED BY <3>2, <3>4
  <2> QED BY <2>1, <2>2
<1>4. ASSUME NEW f \in Executor PROVE Holds(f)'
  <2>0. Holds(f)
    BY <1>0 DEF LockDiscipline
  <2>1. CASE f = t
    <3>1. t \in Executor /\ Leave(t)
      BY <2>1
    <3>2. cur'[f] = NoJob /\ pc'[f] = IF f \in Worker THEN "between" ELSE "off"
      BY <1>0, <2>1, <3>1 DEF Leave, TypeOK
    <3> QED BY <3>2 DEF Holds
  <2>2. CASE f # t /\ cur[f] = NoJob
    BY <1>1, <2>0, <2>2 DEF SameExecutor, Holds
  <2>3. CASE f # t /\ cur[f] \in Job
    <3>1. jlock'[cur[f]] = f <=> jlock[cur[f]] = f
      BY <1>0, <1>2, <2>3
    <3>2. jlock[cur[f]] = f => \A d \in Device : /\ wdev'[cur[f]][d] = wdev[cur[f]][d]
                                                 /\ dlock'[cur[f]][d] = dlock[cur[f]][d]
      BY <1>2, <2>3, OthersRows
    <3> QED
      BY <1>1, <1>2, <2>0, <2>3, <3>1, <3>2 DEF SameExecutor, Holds, Settled
  <2> QED BY <1>0, <2>1, <2>2, <2>3 DEF TypeOK
<1>5. ASSUME NEW o \in Operator PROVE ReadsSafely(o)'
  BY <1>0, <1>2 DEF LockDiscipline, ReadsSafely, OpIdle, TypeOK, Left
<1> QED BY <1>3, <1>4, <1>5 DEF LockDiscipline

\* A transaction commits settled jobs that have left the queue, and nothing else.
LEMMA CommitLock ==
    ASSUME IInv, TypeOK', NEW t \in Tx, Commit(t),
           \/ t \in Executor /\ cur[t] = NoJob /\ Leave(t) /\ UNCHANGED op
           \/ t \in Operator /\ op' = [op EXCEPT ![t] = OpIdle] /\ UNCHANGED exec
    PROVE  LockDiscipline'
<1> USE TxAssumption DEF NoJob
<1>0. TypeOK /\ LockDiscipline /\ t # NoTx
  BY DEF IInv
<1>1. \A f \in Executor \ {t} : SameExecutor(f)
  BY <1>0 DEF Leave, exec, SameExecutor, TypeOK
<1>2. /\ wjob' = wjob /\ wdev' = wdev
      /\ \A j \in Job : /\ jlock'[j] = IF jlock[j] = t THEN NoTx ELSE jlock[j]
                        /\ job'[j] = IF jlock[j] = t THEN wjob[j] ELSE job[j]
      /\ \A j \in Job, d \in Device :
            /\ dlock'[j][d] = IF dlock[j][d] = t THEN NoTx ELSE dlock[j][d]
            /\ dev'[j][d] = IF dlock[j][d] = t THEN wdev[j][d] ELSE dev[j][d]
  BY DEF Commit, Free, FreeDev
<1>3. ASSUME NEW j \in Job, jlock[j] = t
      PROVE  /\ Settled(wdev[j]) /\ Left(wjob[j])
             /\ job'[j] = wjob[j] /\ \A d \in Device : dev'[j][d] = wdev[j][d]
             /\ jlock'[j] = NoTx /\ \A d \in Device : dlock'[j][d] = NoTx
  <2>1. RowAgrees(j) /\ HeldIsReady(j)
    BY <1>0 DEF LockDiscipline
  <2>2. Settled(wdev[j])
    BY <1>3, <2>1, NoJobNotJob DEF HeldIsReady
  <2>3. Left(wjob[j])
    BY <1>0, <1>3, <2>1 DEF RowAgrees
  <2> QED BY <1>0, <1>2, <1>3, <2>2, <2>3, OwnRows
<1>4. ASSUME NEW j \in Job PROVE RowAgrees(j)' /\ LeftIsSettled(j)' /\ HeldIsReady(j)'
  <2>0. RowAgrees(j) /\ LeftIsSettled(j) /\ HeldIsReady(j)
    BY <1>0 DEF LockDiscipline
  <2>1. CASE jlock[j] = t
    BY <1>2, <1>3, <2>0, <2>1 DEF RowAgrees, LeftIsSettled, HeldIsReady, Left, Settled
  <2>2. CASE jlock[j] # t
    <3>1. /\ jlock'[j] = jlock[j] /\ job'[j] = job[j]
          /\ \A d \in Device : dlock'[j][d] = dlock[j][d] /\ dev'[j][d] = dev[j][d]
      BY <1>2, <2>2, OthersRows
    <3>2. RowAgrees(j)' /\ LeftIsSettled(j)'
      BY <1>2, <2>0, <3>1 DEF RowAgrees, LeftIsSettled, Left, Settled
    <3>3. jlock[j] \in Executor => SameExecutor(jlock[j])
      BY <1>1, <2>2
    <3>4. HeldIsReady(j)'
      BY <1>2, <2>0, <3>1, <3>3 DEF HeldIsReady, Settled, SameExecutor
    <3> QED BY <3>2, <3>4
  <2> QED BY <2>1, <2>2
<1>5. ASSUME NEW j \in Job
      PROVE  /\ Left(job[j]) => Left(job'[j])
             /\ job[j].status # "none" => job'[j].status # "none"
             /\ \A d \in Device : dev'[j][d] = "pending" => dev[j][d] = "pending"
  <2>1. CASE jlock[j] = t
    BY <1>3, <2>1 DEF Left, Settled
  <2>2. CASE jlock[j] # t
    BY <1>2, <2>2, OthersRows DEF Left
  <2> QED BY <2>1, <2>2
<1>6. ASSUME NEW f \in Executor PROVE Holds(f)'
  <2>0. Holds(f)
    BY <1>0 DEF LockDiscipline
  <2>1. CASE f = t
    <3>1. t \in Executor /\ Leave(t)
      BY <2>1
    <3>2. cur'[f] = NoJob /\ pc'[f] = IF f \in Worker THEN "between" ELSE "off"
      BY <1>0, <2>1, <3>1 DEF Leave, TypeOK
    <3> QED BY <3>2 DEF Holds
  <2>2. CASE f # t /\ cur[f] = NoJob
    BY <1>1, <2>0, <2>2 DEF SameExecutor, Holds
  <2>3. CASE f # t /\ cur[f] \in Job
    <3>1. jlock'[cur[f]] = f <=> jlock[cur[f]] = f
      BY <1>0, <1>2, <2>3
    <3>2. jlock[cur[f]] = f => \A d \in Device : dlock'[cur[f]][d] = dlock[cur[f]][d]
      BY <1>2, <2>3, OthersRows
    <3> QED
      BY <1>1, <1>2, <1>5, <2>0, <2>3, <3>1, <3>2 DEF SameExecutor, Holds, Settled
  <2> QED BY <1>0, <2>1, <2>2, <2>3 DEF TypeOK
<1>7. ASSUME NEW o \in Operator PROVE ReadsSafely(o)'
  <2>1. ReadsSafely(o)
    BY <1>0 DEF LockDiscipline
  <2>2. op'[o].pc = "update" => op'[o] = op[o]
    BY <1>0 DEF OpIdle, TypeOK
  <2> QED BY <1>5, <2>1, <2>2 DEF ReadsSafely
<1> QED BY <1>4, <1>6, <1>7 DEF LockDiscipline

\* The cancel reads committed rows and locks nothing.
LEMMA CancelReadLock ==
    ASSUME IInv, TypeOK', NEW o \in Operator, NEW j \in Job, CancelRead(o, j)
    PROVE  LockDiscipline'
<1> USE TxAssumption
<1>0. TypeOK /\ LockDiscipline
  BY DEF IInv
<1>1. \A i \in Job : RowAgrees(i)' /\ LeftIsSettled(i)' /\ HeldIsReady(i)'
  BY <1>0 DEF CancelRead, LockDiscipline, RowAgrees, LeftIsSettled, HeldIsReady, Left, Settled,
              rows, work, exec
<1>2. \A e \in Executor : Holds(e)'
  BY <1>0 DEF CancelRead, LockDiscipline, Holds, Left, Settled, rows, work, exec
<1>3. ASSUME NEW p \in Operator PROVE ReadsSafely(p)'
  <2>1. CASE p = o
    <3>1. /\ op'[o].job = j /\ op'[o].seen = job[j].status
          /\ op'[o].pend = {d \in Device : dev[j][d] = "pending"}
      BY <1>0 DEF CancelRead, TypeOK
    <3>2. job' = job /\ dev' = dev /\ job[j].status # "none"
      BY DEF CancelRead, rows
    <3> QED BY <2>1, <3>1, <3>2 DEF ReadsSafely, Left
  <2>2. CASE p # o
    <3>1. op'[p] = op[p] /\ job' = job /\ dev' = dev /\ ReadsSafely(p)
      BY <1>0, <2>2 DEF CancelRead, TypeOK, rows, LockDiscipline
    <3> QED BY <3>1 DEF ReadsSafely, Left
  <2> QED BY <2>1, <2>2
<1> QED BY <1>1, <1>2, <1>3 DEF LockDiscipline

\* The cancel's UPDATE: the row was free, and afterwards has no device waiting.
LEMMA CancelUpdateLock ==
    ASSUME IInv, TypeOK', NEW o \in Operator, CancelUpdate(o)
    PROVE  LockDiscipline'
<1> USE TxAssumption DEF NoJob
<1>0. TypeOK /\ LockDiscipline /\ ReadsSafely(o)
  BY DEF IInv, LockDiscipline
<1>a. op[o].pc = "update" /\ op[o].job \in Job
  BY <1>0 DEF CancelUpdate, ReadsSafely
<1>b. PICK j \in Job : j = op[o].job
  BY <1>a
<1>1. /\ op[o].pc = "update" /\ op[o].job = j /\ jlock[j] = NoTx
      /\ op' = [op EXCEPT ![o].pc = "audit"] /\ UNCHANGED <<rows, exec>>
  BY <1>b DEF CancelUpdate
<1>2. /\ j \in Job /\ job[j].status # "none"
      /\ op[o].seen = "cancelling" => Left(job[j])
      /\ \A d \in Device : dev[j][d] = "pending" => d \in op[o].pend
      /\ RowAgrees(j) /\ LeftIsSettled(j)
  BY <1>0, <1>1 DEF ReadsSafely, LockDiscipline
<1>3. /\ wjob[j] = job[j]
      /\ \A d \in Device : dlock[j][d] = NoTx /\ wdev[j][d] = dev[j][d]
  BY <1>1, <1>2 DEF RowAgrees
<1>4. /\ jlock'[j] = o /\ wjob'[j].cancel
      /\ wjob'[j].status = IF op[o].seen = "cancelling" THEN wjob[j].status ELSE "cancelling"
      /\ \A d \in Device : /\ wdev'[j][d] = IF d \in op[o].pend THEN "cancelled" ELSE wdev[j][d]
                           /\ dlock'[j][d] = IF d \in op[o].pend THEN o ELSE dlock[j][d]
  BY <1>0, <1>1, <1>2 DEF CancelUpdate, TypeOK
<1>5. \A i \in Job \ {j} : SameRow(i)
  BY <1>0, <1>1, <1>2 DEF CancelUpdate, SameRow, TypeOK, rows
<1>6. Left(wjob'[j])
  BY <1>2, <1>3, <1>4 DEF Left
<1>7. Settled(wdev'[j])
  BY <1>2, <1>3, <1>4 DEF Settled, LeftIsSettled
<1>8. ASSUME NEW i \in Job PROVE RowAgrees(i)' /\ LeftIsSettled(i)' /\ HeldIsReady(i)'
  <2>1. CASE i = j
    <3>1. job'[j] = job[j] /\ dev'[j] = dev[j] /\ o # NoTx /\ o \notin Executor
      BY <1>1 DEF rows
    <3>2. RowAgrees(j)'
      BY <1>2, <1>3, <1>4, <1>6, <3>1 DEF RowAgrees, Left
    <3>3. LeftIsSettled(j)'
      BY <1>2, <1>6, <1>7, <3>1 DEF LeftIsSettled, Left, Settled
    <3>4. HeldIsReady(j)'
      BY <1>4, <1>7, <3>1 DEF HeldIsReady, Settled
    <3> QED BY <2>1, <3>2, <3>3, <3>4
  <2>2. CASE i # j
    <3>1. SameRow(i) /\ RowAgrees(i) /\ LeftIsSettled(i) /\ HeldIsReady(i)
      BY <1>0, <1>5, <2>2 DEF LockDiscipline
    <3>2. pc' = pc /\ cur' = cur /\ on' = on
      BY <1>1 DEF exec
    <3> QED
      BY <3>1, <3>2 DEF SameRow, RowAgrees, LeftIsSettled, HeldIsReady, Left, Settled
  <2> QED BY <2>1, <2>2
<1>9. ASSUME NEW f \in Executor PROVE Holds(f)'
  <2>1. Holds(f) /\ pc' = pc /\ cur' = cur /\ on' = on /\ job' = job
    BY <1>0, <1>1 DEF LockDiscipline, exec, rows
  <2>2. CASE cur[f] = NoJob
    BY <2>1, <2>2 DEF Holds
  <2>3. CASE cur[f] = j
    <3>1. jlock[j] # f /\ jlock'[j] # f
      BY <1>1, <1>4
    <3> QED BY <1>2, <2>1, <2>3, <3>1 DEF Holds
  <2>4. CASE cur[f] \in Job \ {j}
    BY <1>5, <2>1, <2>4 DEF Holds, SameRow
  <2> QED BY <1>0, <2>2, <2>3, <2>4 DEF TypeOK
<1>10. ASSUME NEW p \in Operator PROVE ReadsSafely(p)'
  <2>1. op'[p].pc = "update" => op'[p] = op[p]
    BY <1>0, <1>1 DEF TypeOK
  <2>2. job' = job /\ dev' = dev /\ ReadsSafely(p)
    BY <1>0, <1>1 DEF LockDiscipline, rows
  <2> QED BY <2>1, <2>2 DEF ReadsSafely, Left
<1> QED BY <1>8, <1>9, <1>10 DEF LockDiscipline

----------------------------------------------------------------------------
(* The theorems *)

\* Every step preserves the inductive invariant.
LEMMA IInvStep == IInv /\ [Next]_vars => IInv'
<1> SUFFICES ASSUME IInv, [Next]_vars PROVE IInv'
  OBVIOUS
<1>0. TypeOK' /\ BatchBound'
  BY TypeStep
<1>1. ASSUME NEW j \in Job, CreateApi(j) \/ CreateScheduled(j) \/ \E i \in Job : RerunFailed(i, j)
      PROVE  LockDiscipline'
  <2>1. PICK D : D \in SUBSET Device /\ NewJob(j, D)
    BY <1>1 DEF CreateApi, CreateScheduled, RerunFailed
  <2>2. (RunInline(j) \/ UNCHANGED exec) /\ UNCHANGED op
    BY <1>1 DEF CreateApi, CreateScheduled, RerunFailed
  <2> QED BY <1>0, <2>1, <2>2, CreateLock
<1>2. ASSUME NEW e \in Executor, Execute(e) PROVE LockDiscipline'
  <2>1. CASE Load(e) \/ Refresh(e) \/ NoDeviceLeft(e) \/ RunBody(e)
    BY <1>0, <2>1, LoadLock
  <2>2. CASE Start(e) \/ ClaimDevice(e) \/ FinishDevice(e) \/ Close(e) \/ AuditClose(e)
    BY <1>0, <2>2, StartLock, ClaimDeviceLock, FinishDeviceLock, CloseLock, AuditCloseLock
  <2>3. CASE PoisonDevice(e) \/ BodyRaises(e)
    <3>1. CASE RollBack(e) /\ Leave(e)
      <4>1. UNCHANGED op
        BY <2>3 DEF PoisonDevice, BodyRaises
      <4> QED BY <1>0, <3>1, <4>1, RollBackLock
    <3>2. CASE ~(RollBack(e) /\ Leave(e))
      BY <1>0, <2>3, <3>2, BodyRaisesLock DEF PoisonDevice
    <3> QED BY <3>1, <3>2
  <2>4. CASE CommitRun(e)
    <3>1. cur[e] = NoJob
      BY <2>4 DEF CommitRun, IInv, LockDiscipline, Holds
    <3> QED BY <1>0, <2>4, <3>1, CommitLock DEF CommitRun
  <2> QED BY <1>2, <2>1, <2>2, <2>3, <2>4 DEF Execute
<1>3. ASSUME NEW e \in Executor, Crash(e) PROVE LockDiscipline'
  BY <1>0, <1>3, RollBackLock DEF Crash
<1>4. ASSUME NEW o \in Operator, CancelCommit(o) PROVE LockDiscipline'
  BY <1>0, <1>4, CommitLock DEF CancelCommit
<1>5. ASSUME NEW t \in Tx, DeadlockVictim(t) PROVE LockDiscipline'
  BY <1>0, <1>5, RollBackLock DEF DeadlockVictim
<1>6. ASSUME UNCHANGED vars PROVE LockDiscipline'
  <2> USE <1>6 DEF IInv, LockDiscipline, vars, rows, work, exec
  <2>1. \A j \in Job : RowAgrees(j)' /\ LeftIsSettled(j)' /\ HeldIsReady(j)'
    BY DEF RowAgrees, LeftIsSettled, HeldIsReady, Left, Settled
  <2>2. \A e \in Executor : Holds(e)'
    BY DEF Holds, Left, Settled
  <2>3. \A o \in Operator : ReadsSafely(o)'
    BY DEF ReadsSafely, Left
  <2> QED BY <2>1, <2>2, <2>3
<1>7. ASSUME NEW w \in Worker, ClaimNext(w) PROVE LockDiscipline'
  BY <1>0, <1>7, ClaimNextLock
<1>8. ASSUME NEW o \in Operator, CancelUpdate(o) PROVE LockDiscipline'
  BY <1>0, <1>8, CancelUpdateLock
<1>9. ASSUME NEW o \in Operator, NEW j \in Job, CancelRead(o, j) PROVE LockDiscipline'
  BY <1>0, <1>9, CancelReadLock
<1>10. LockDiscipline'
  BY <1>1, <1>2, <1>3, <1>4, <1>5, <1>6, <1>7, <1>8, <1>9 DEF Next, Idle
<1> QED BY <1>0, <1>10 DEF IInv

\* The inductive invariant holds of the engine.
THEOREM Inductive == Spec => []IInv
<1>1. Init => IInv
  BY InitType, InitLock DEF IInv
<1> QED BY <1>1, IInvStep, PTL DEF Spec

\* The state stays well typed: a pass never runs more than Batch jobs.
THEOREM TypeCorrectness == Spec => []TypeOK
<1>1. IInv => TypeOK
  BY DEF IInv
<1> QED BY <1>1, Inductive, PTL

\* Rows are written under their locks and leave a transaction settled.
THEOREM LockingIsDisciplined == Spec => []LockDiscipline
<1>1. IInv => LockDiscipline
  BY DEF IInv
<1> QED BY <1>1, Inductive, PTL

\* No two executors are in a device session for the same job: whoever is in one
\* holds the job's row.
THEOREM OneRunner == Spec => []JobRunByOne
<1>1. IInv => JobRunByOne
  BY DEF IInv, LockDiscipline, Holds, JobRunByOne, InSession
<1> QED BY <1>1, Inductive, PTL

\* A closed job has no device pending or running.
THEOREM ClosedIsSettled == Spec => []SettledWhenClosed
<1>1. IInv => SettledWhenClosed
  BY DEF IInv, LockDiscipline, LeftIsSettled, SettledWhenClosed, Closed, Terminal, Left, Settled
<1> QED BY <1>1, Inductive, PTL

\* Only claim_next_device opens a session, and only the claimer's.
LEMMA OnlyClaimOpens ==
    ASSUME TypeOK, NEW e \in Executor, [Next]_vars, ~InSession(e), InSession(e)'
    PROVE  ClaimDevice(e)
<1> USE DEF TypeOK, InSession
<1>1. ASSUME NEW f \in Executor, Execute(f), ~ClaimDevice(f)
      PROVE  pc'[e] # "session" \/ pc[e] = "session"
  <2>1. CASE Load(f) \/ Start(f) \/ Refresh(f) \/ NoDeviceLeft(f) \/ FinishDevice(f)
    BY <2>1 DEF Load, Start, Refresh, NoDeviceLeft, FinishDevice
  <2>2. CASE RunBody(f) \/ BodyRaises(f) \/ Close(f) \/ AuditClose(f)
    BY <2>2 DEF RunBody, BodyRaises, Close, AuditClose, Leave
  <2>3. CASE PoisonDevice(f) \/ CommitRun(f)
    BY <2>3 DEF PoisonDevice, CommitRun, Leave
  <2> QED BY <1>1, <2>1, <2>2, <2>3 DEF Execute
<1>2. ASSUME NEW f \in Executor, ClaimDevice(f), f # e
      PROVE  pc'[e] = pc[e]
  BY <1>2 DEF ClaimDevice
<1>3. ASSUME NEW f \in Executor, Crash(f)
      PROVE  pc'[e] # "session" \/ pc[e] = "session"
  BY <1>3 DEF Crash, Leave
<1>4. ASSUME NEW w \in Worker, ClaimNext(w)
      PROVE  pc'[e] # "session" \/ pc[e] = "session"
  BY <1>4 DEF ClaimNext
<1>5. ASSUME NEW j \in Job, CreateApi(j) \/ CreateScheduled(j) \/ \E i \in Job : RerunFailed(i, j)
      PROVE  pc'[e] # "session" \/ pc[e] = "session"
  BY <1>5 DEF CreateApi, CreateScheduled, RerunFailed, RunInline, exec
<1>6. ASSUME NEW o \in Operator,
             CancelUpdate(o) \/ CancelCommit(o) \/ \E j \in Job : CancelRead(o, j)
      PROVE  pc' = pc
  BY <1>6 DEF CancelUpdate, CancelCommit, CancelRead, exec
<1>7. ASSUME NEW t \in Tx, DeadlockVictim(t)
      PROVE  pc'[e] # "session" \/ pc[e] = "session"
  BY <1>7 DEF DeadlockVictim, Leave, exec
<1>8. ASSUME UNCHANGED vars
      PROVE  pc' = pc
  BY <1>8 DEF vars, exec
<1> QED BY <1>1, <1>2, <1>3, <1>4, <1>5, <1>6, <1>7, <1>8 DEF Next, Idle

\* A session opens only for a job committed as queued and not cancelled, to a
\* device committed as pending.
THEOREM OpensOnQueued == Spec => OpensOnQueuedWorkOnly
<1>1. IInv /\ IInv' /\ [Next]_vars =>
        [\A e \in Executor : ~InSession(e) /\ InSession(e)' =>
          LET j == cur'[e] IN
          /\ job[j] = [status |-> "queued", cancel |-> FALSE]
          /\ dev[j][on'[e]] = "pending"]_vars
  BY OnlyClaimOpens, ClaimDeviceLock DEF IInv
<1> QED BY <1>1, Inductive, PTL DEF Spec, OpensOnQueuedWorkOnly

----------------------------------------------------------------------------
(* The bookkeeping *)

\* An executor's step that commits nothing and writes no job but its own
\* changes the bookkeeping of nobody else.
LEMMA LocalBook ==
    ASSUME IInv, Bookkeeping, NEW e \in Executor, NEW j \in Job,
           {cur[e], cur'[e]} \subseteq {j, NoJob},
           \A i \in Job \ {j} : SameRow(i),
           \A f \in Executor \ {e} : SameExecutor(f) /\ mem'[f] = mem[f],
           jlock[j] \in {NoTx, e} \/ SameRow(j),
           jlock'[j] \in {jlock[j], e},
           UNCHANGED <<rows, op>>,
           jlock'[j] = e => RunFits(e, j)',
           Remembers(e)'
    PROVE  Bookkeeping'
<1> USE TxAssumption, NoJobNotJob
<1>0. job' = job /\ dev' = dev /\ op' = op
  BY DEF rows
<1>1. \A i \in Job : CommittedFits(i)'
  BY <1>0 DEF Bookkeeping, CommittedFits
<1>2. ASSUME NEW i \in Job, NEW f \in Executor, jlock'[i] = f PROVE RunFits(f, i)'
  <2>1. CASE i = j /\ f = e
    BY <1>2, <2>1
  <2>2. CASE f # e
    <3>1. SameRow(i) /\ RunFits(f, i)
      BY <1>2, <2>2 DEF Bookkeeping, SameRow
    <3>2. SameExecutor(f) /\ mem'[f] = mem[f]
      BY <2>2
    <3> QED BY <1>0, <3>1, <3>2 DEF RunFits, VerdictFits, SameRow, SameExecutor
  <2>3. CASE i # j /\ f = e
    <3>1. SameRow(i) /\ RunFits(f, i) /\ cur[f] # i /\ cur'[f] # i
      BY <1>2, <2>3 DEF Bookkeeping, SameRow
    <3> QED BY <1>0, <3>1 DEF RunFits, VerdictFits, SameRow
  <2> QED BY <2>1, <2>2, <2>3
<1>3. ASSUME NEW i \in Job, NEW o \in Operator, jlock'[i] = o PROVE CancelFits(o, i)'
  <2>1. SameRow(i) /\ CancelFits(o, i)
    BY <1>3 DEF Bookkeeping, SameRow
  <2> QED BY <1>0, <2>1 DEF CancelFits, SameRow
<1>4. ASSUME NEW f \in Executor PROVE Remembers(f)'
  <2>1. CASE f = e
    BY <2>1
  <2>2. CASE f # e
    <3>1. SameExecutor(f) /\ mem'[f] = mem[f] /\ Remembers(f)
      BY <2>2 DEF Bookkeeping
    <3> QED BY <1>0, <3>1 DEF Remembers, SameExecutor
  <2> QED BY <2>1, <2>2
<1>5. \A o \in Operator : HasSeen(o)'
  BY <1>0 DEF Bookkeeping, HasSeen
<1> QED BY <1>1, <1>2, <1>3, <1>4, <1>5 DEF Bookkeeping

\* Nothing is running, cancelled or remembered at first.
LEMMA InitBook == Init => Bookkeeping
BY TxAssumption, NoJobNotJob
   DEF Init, Bookkeeping, CommittedFits, Remembers, HasSeen, Blank, OpIdle, Terminal

\* A new row is queued, and nobody has it locked.
LEMMA CreateBook ==
    ASSUME IInv, Bookkeeping, NEW j \in Job, NEW D \in SUBSET Device, NewJob(j, D),
           RunInline(j) \/ UNCHANGED exec, UNCHANGED op
    PROVE  Bookkeeping'
<1> USE TxAssumption, NoJobNotJob
<1>0. TypeOK /\ LockDiscipline /\ RowAgrees(j) /\ LeftIsSettled(j) /\ CommittedFits(j)
  BY DEF IInv, LockDiscipline, Bookkeeping
<1>1. jlock[j] = NoTx /\ job[j].status = "none" /\ jlock' = jlock /\ dlock' = dlock
  <2>1. wjob[j].status = "none" /\ jlock' = jlock /\ dlock' = dlock
    BY DEF NewJob
  <2> QED BY <1>0, <2>1 DEF RowAgrees, Left
<1>2. \A i \in Job \ {j} : SameRow(i)
  BY <1>0 DEF NewJob, TypeOK, SameRow
<1>3. /\ job'[j].status = "queued" /\ job'[j].cancel = job[j].cancel
      /\ \A d \in Device : dev'[j][d] \in {"pending", "none"}
  <2>1. job'[j].status = "queued" /\ job'[j].cancel = job[j].cancel
    BY <1>0 DEF NewJob, TypeOK, JobRow
  <2>2. \A d \in Device : dev'[j][d] \in {"pending", "none"}
    BY <1>0 DEF NewJob, TypeOK
  <2> QED BY <2>1, <2>2
<1>4. /\ mem' = mem
      /\ \A e \in Executor : SameExecutor(e) \/ (e = j /\ cur'[j] = j /\ pc'[j] = "entry")
  BY <1>0 DEF RunInline, exec, TypeOK, SameExecutor
<1>5. \A e \in Executor : cur[e] # j
  BY <1>0, <1>1 DEF LockDiscipline, Holds
<1>6. ASSUME NEW i \in Job PROVE CommittedFits(i)'
  <2>1. CASE i = j
    BY <1>3, <2>1 DEF CommittedFits, Terminal
  <2>2. CASE i # j
    <3>1. SameRow(i) /\ CommittedFits(i)
      BY <1>2, <2>2 DEF Bookkeeping
    <3> QED BY <3>1 DEF CommittedFits, SameRow
  <2> QED BY <2>1, <2>2
<1>7. ASSUME NEW i \in Job, NEW e \in Executor, jlock'[i] = e PROVE RunFits(e, i)'
  <2>1. i # j /\ SameRow(i) /\ RunFits(e, i)
    BY <1>1, <1>2, <1>7 DEF Bookkeeping
  <2>2. CASE SameExecutor(e)
    BY <1>4, <2>1, <2>2 DEF RunFits, VerdictFits, SameRow, SameExecutor
  <2> QED BY <1>4, <2>1, <2>2 DEF RunFits
<1>8. ASSUME NEW i \in Job, NEW o \in Operator, jlock'[i] = o PROVE CancelFits(o, i)'
  <2>1. i # j /\ SameRow(i) /\ CancelFits(o, i)
    BY <1>1, <1>2, <1>8 DEF Bookkeeping
  <2> QED BY <2>1 DEF CancelFits, SameRow
<1>9. ASSUME NEW e \in Executor PROVE Remembers(e)'
  <2>0. Remembers(e) /\ mem'[e] = mem[e]
    BY <1>4 DEF Bookkeeping
  <2> SUFFICES ASSUME mem[e].cancel PROVE cur'[e] # NoJob /\ job'[cur'[e]].cancel
    BY <2>0 DEF Remembers
  <2>1. cur[e] \in Job \ {j} /\ job[cur[e]].cancel
    BY <1>0, <1>5, <2>0 DEF Remembers, TypeOK
  <2>2. SameRow(cur[e])
    BY <1>2, <2>1
  <2>3. cur'[e] = cur[e]
    <3>1. CASE SameExecutor(e)
      BY <3>1 DEF SameExecutor
    <3>2. CASE e = j
      BY <1>0, <2>1, <3>2 DEF LockDiscipline, Holds
    <3> QED BY <1>4, <3>1, <3>2
  <2> QED BY <2>1, <2>2, <2>3 DEF SameRow
<1>10. ASSUME NEW o \in Operator PROVE HasSeen(o)'
  <2>0. HasSeen(o) /\ ReadsSafely(o) /\ op' = op
    BY <1>0 DEF Bookkeeping, LockDiscipline
  <2>1. op[o].pc = "update" => op[o].job \in Job \ {j}
    BY <1>1, <2>0 DEF ReadsSafely
  <2>2. op[o].pc = "update" => SameRow(op[o].job)
    BY <1>2, <2>1
  <2> QED BY <2>0, <2>1, <2>2 DEF HasSeen, SameRow
<1> QED BY <1>6, <1>7, <1>8, <1>9, <1>10 DEF Bookkeeping

\* Reading a row, moving on and a body's work write no row.
LEMMA LoadBook ==
    ASSUME IInv, Bookkeeping, NEW e \in Executor, Load(e) \/ Refresh(e) \/ NoDeviceLeft(e) \/ RunBody(e)
    PROVE  Bookkeeping'
<1> USE TxAssumption, NoJobNotJob
<1>0. TypeOK /\ LockDiscipline /\ Holds(e) /\ Remembers(e)
  BY DEF IInv, LockDiscipline, Bookkeeping
<1> DEFINE j == cur[e]
<1>1. /\ pc[e] \in {"entry", "loop", "claim"}
      /\ UNCHANGED <<rows, wjob, wdev, jlock, dlock, cur, on, op>>
      /\ pc' = [pc EXCEPT ![e] = pc'[e]] /\ mem' = [mem EXCEPT ![e] = mem'[e]]
  BY <1>0 DEF Load, Refresh, NoDeviceLeft, RunBody, work, TypeOK
<1>2. j \in Job
  BY <1>0, <1>1 DEF Holds, TypeOK
<1>3. /\ \A i \in Job : SameRow(i)
      /\ \A f \in Executor \ {e} : SameExecutor(f) /\ mem'[f] = mem[f]
      /\ job' = job /\ cur' = cur
  BY <1>0, <1>1 DEF SameRow, SameExecutor, rows, TypeOK
<1>4. mem'[e] = mem[e] \/ mem'[e] = View(e, j)
  BY <1>0 DEF Load, Refresh, NoDeviceLeft, RunBody, TypeOK
<1>5. jlock[j] = e => RunFits(e, j)
  BY <1>2 DEF Bookkeeping
<1>6. Remembers(e)'
  <2>1. View(e, j).cancel => job[j].cancel
    BY <1>5 DEF View, RunFits
  <2> QED BY <1>0, <1>2, <1>3, <1>4, <2>1 DEF Remembers
<1>7. ASSUME jlock'[j] = e PROVE RunFits(e, j)'
  <2>1. /\ RunFits(e, j) /\ SameRow(j) /\ jlock[j] = e
        /\ pc[e] \in {"loop", "claim"} /\ pc'[e] \in {"claim", "close"}
    <3>1. RunFits(e, j) /\ SameRow(j) /\ jlock[j] = e
      BY <1>2, <1>3, <1>5, <1>7 DEF SameRow
    <3>2. pc[e] # "entry"
      BY <3>1 DEF RunFits, Working
    <3> QED
      BY <1>0, <3>1, <3>2 DEF Load, Refresh, NoDeviceLeft, RunBody, TypeOK
  <2>2. mem[e].status = "running" /\ wjob[j].status = "running"
    BY <2>1 DEF RunFits, Working
  <2>3. mem'[e].status = "running"
    BY <1>4, <2>1, <2>2 DEF View
  <2>4. cur'[e] = j
    BY <1>3
  <2> QED BY <1>2, <2>1, <2>2, <2>3, <2>4 DEF RunFits, SameRow, Working
<1> QED BY <1>1, <1>2, <1>3, <1>6, <1>7, LocalBook DEF SameRow

\* A row that was free is committed as it stands: marking it running fits.
LEMMA MarkRunning ==
    ASSUME IInv, Bookkeeping, NEW e \in Executor, NEW j \in Job, jlock[j] = NoTx,
           e \in Job => e = j,
           wjob'[j] = [wjob[j] EXCEPT !.status = "running"], cur'[e] = j, pc'[e] = "loop",
           mem'[e].status = "running", UNCHANGED <<rows, wdev, dlock>>
    PROVE  RunFits(e, j)'
<1> USE TxAssumption, NoJobNotJob
<1>1. TypeOK /\ RowAgrees(j) /\ LeftIsSettled(j)
  BY DEF IInv, LockDiscipline
<1>2. /\ wjob[j] = job[j]
      /\ \A d \in Device : dlock[j][d] = NoTx /\ wdev[j][d] = dev[j][d]
  BY <1>1 DEF RowAgrees
<1>3. wjob'[j].status = "running" /\ wjob'[j].cancel = job[j].cancel
  BY <1>1, <1>2 DEF TypeOK, JobRow
<1> QED BY <1>2, <1>3 DEF RunFits, Working, rows

\* claim_next found the row free.
LEMMA ClaimNextBook ==
    ASSUME IInv, Bookkeeping, NEW w \in Worker, ClaimNext(w)
    PROVE  Bookkeeping'
<1> USE TxAssumption, NoJobNotJob
<1>0. TypeOK /\ LockDiscipline /\ Holds(w)
  BY DEF IInv, LockDiscipline
<1>1. PICK j \in Claimable(w) :
         /\ wjob' = [wjob EXCEPT ![j].status = "running"]
         /\ jlock' = [jlock EXCEPT ![j] = w]
         /\ mem' = [mem EXCEPT ![w] = [View(w, j) EXCEPT !.status = "running"]]
         /\ cur' = [cur EXCEPT ![w] = j]
  BY DEF ClaimNext
<1>2. /\ j \in Job /\ jlock[j] = NoTx /\ View(w, j) = job[j] /\ w \notin Job
      /\ job[j] \in JobRow
  BY <1>0, <1>1 DEF Claimable, View, TypeOK
<1>3. /\ pc[w] = "between" /\ pc' = [pc EXCEPT ![w] = "loop"]
      /\ UNCHANGED <<rows, wdev, dlock, on, op>>
  BY DEF ClaimNext
<1>4. /\ wjob'[j] = [wjob[j] EXCEPT !.status = "running"] /\ jlock'[j] = w
      /\ cur[w] = NoJob /\ cur'[w] = j /\ pc'[w] = "loop"
      /\ mem'[w] = [job[j] EXCEPT !.status = "running"]
  BY <1>0, <1>1, <1>2, <1>3 DEF Holds, TypeOK
<1>5. mem'[w].status = "running" /\ mem'[w].cancel = job[j].cancel
  BY <1>2, <1>4 DEF JobRow
<1>6. RunFits(w, j)'
  BY <1>2, <1>3, <1>4, <1>5, MarkRunning
<1>7. Remembers(w)'
  BY <1>2, <1>3, <1>4, <1>5 DEF Remembers, rows
<1>8. /\ \A i \in Job \ {j} : SameRow(i)
      /\ \A f \in Executor \ {w} : SameExecutor(f) /\ mem'[f] = mem[f]
  BY <1>0, <1>1, <1>2, <1>3 DEF SameRow, SameExecutor, rows, TypeOK
<1> QED BY <1>2, <1>3, <1>4, <1>6, <1>7, <1>8, LocalBook

\* start waited until the row was free: an inline run holds nothing before it.
LEMMA StartBook ==
    ASSUME IInv, Bookkeeping, NEW e \in Executor, Start(e)
    PROVE  Bookkeeping'
<1> USE TxAssumption, NoJobNotJob
<1>0. TypeOK /\ LockDiscipline /\ Holds(e) /\ Remembers(e)
  BY DEF IInv, LockDiscipline, Bookkeeping
<1> DEFINE j == cur[e]
<1>1. /\ pc[e] = "start" /\ pc' = [pc EXCEPT ![e] = "loop"] /\ jlock[j] \in {NoTx, e}
      /\ wjob' = [wjob EXCEPT ![j].status = "running"] /\ jlock' = [jlock EXCEPT ![j] = e]
      /\ mem' = [mem EXCEPT ![e].status = "running"]
      /\ UNCHANGED <<rows, wdev, dlock, cur, on, op>>
  BY DEF Start, CanWriteJob
<1>2. j \in Job /\ (e \in Job => e = j)
  BY <1>0, <1>1 DEF Holds, TypeOK
<1>3. jlock[j] = NoTx
  <2>1. jlock[j] = e => RunFits(e, j)
    BY <1>2 DEF Bookkeeping
  <2> QED BY <1>1, <2>1 DEF RunFits, Working
<1>4. /\ wjob'[j] = [wjob[j] EXCEPT !.status = "running"] /\ jlock'[j] = e
      /\ cur'[e] = j /\ pc'[e] = "loop"
  BY <1>0, <1>1, <1>2 DEF TypeOK
<1>5. mem'[e].status = "running" /\ mem'[e].cancel = mem[e].cancel
  BY <1>0, <1>1 DEF TypeOK, JobRow
<1>6. RunFits(e, j)'
  BY <1>1, <1>2, <1>3, <1>4, <1>5, MarkRunning
<1>7. Remembers(e)'
  BY <1>0, <1>1, <1>5 DEF Remembers, rows
<1>8. /\ \A i \in Job \ {j} : SameRow(i)
      /\ \A f \in Executor \ {e} : SameExecutor(f) /\ mem'[f] = mem[f]
  BY <1>0, <1>1, <1>2 DEF SameRow, SameExecutor, rows, TypeOK
<1> QED BY <1>1, <1>2, <1>3, <1>4, <1>6, <1>7, <1>8, LocalBook

\* A device session changes a row the job had pending, and ends in an outcome.
LEMMA SessionBook ==
    ASSUME IInv, Bookkeeping, TypeOK', NEW e \in Executor, ClaimDevice(e) \/ FinishDevice(e)
    PROVE  Bookkeeping'
<1> USE TxAssumption, NoJobNotJob
<1>0. TypeOK /\ LockDiscipline /\ Holds(e) /\ Remembers(e)
  BY DEF IInv, LockDiscipline, Bookkeeping
<1> DEFINE j == cur[e]
<1>1. j \in Job /\ RowAgrees(j) /\ (e \in Job => e = j)
  <2>1. j \in Job
    BY <1>0 DEF ClaimDevice, FinishDevice, Holds, TypeOK
  <2> QED BY <1>0, <2>1 DEF Holds, LockDiscipline
<1>2. jlock[j] = e /\ RunFits(e, j)
  <2>1. CASE ClaimDevice(e)
    BY <1>1, <2>1, ClaimDeviceLock DEF Bookkeeping
  <2>2. CASE FinishDevice(e)
    BY <1>0, <1>1, <2>2 DEF FinishDevice, Holds, Bookkeeping
  <2> QED BY <2>1, <2>2
<1>3. PICK d \in Device, s \in {"running", "succeeded", "failed"} :
         /\ dev[j][d] = "pending" /\ wdev' = [wdev EXCEPT ![j][d] = s]
         /\ dlock' = [dlock EXCEPT ![j][d] = e]
  <2>1. CASE ClaimDevice(e)
    <3>1. PICK d \in Pending(e) : /\ wdev' = [wdev EXCEPT ![j][d] = "running"]
                                  /\ dlock' = [dlock EXCEPT ![j][d] = e]
      BY <2>1 DEF ClaimDevice
    <3>2. d \in Device /\ dev[j][d] = "pending"
      BY <1>1, <3>1 DEF Pending, DevView
    <3> QED BY <3>1, <3>2
  <2>2. CASE FinishDevice(e)
    <3>1. on[e] \in Device /\ dlock[j][on[e]] = e
      BY <1>0, <2>2 DEF FinishDevice, Holds
    <3>2. dev[j][on[e]] = "pending"
      BY <1>2, <3>1 DEF RunFits
    <3>3. dlock' = [dlock EXCEPT ![j][on[e]] = e]
      BY <1>0, <1>1, <2>2, <3>1 DEF FinishDevice, TypeOK
    <3> QED BY <2>2, <3>1, <3>2, <3>3 DEF FinishDevice
  <2> QED BY <2>1, <2>2
<1>4. /\ wdev'[j][d] = s /\ dlock'[j][d] = e
      /\ \A x \in Device \ {d} : wdev'[j][x] = wdev[j][x] /\ dlock'[j][x] = dlock[j][x]
  BY <1>0, <1>1, <1>3 DEF TypeOK
<1>5. /\ UNCHANGED <<rows, wjob, cur, mem, op>> /\ jlock' = jlock
      /\ pc[e] \in Working /\ pc'[e] \in Working
      /\ \A f \in Executor \ {e} : SameExecutor(f)
  <2>1. CASE ClaimDevice(e)
    BY <1>0, <2>1 DEF ClaimDevice, TypeOK, Working, SameExecutor
  <2>2. CASE FinishDevice(e)
    BY <1>0, <1>1, <1>2, <2>2 DEF FinishDevice, TypeOK, Working, SameExecutor
  <2> QED BY <2>1, <2>2
<1>6. RunFits(e, j)'
  <2>1. /\ wjob[j].cancel = job[j].cancel
        /\ wjob[j].status = "running" /\ mem[e].status = "running"
        /\ \A x \in Device : IF dev[j][x] = "pending"
                             THEN wdev[j][x] \in {"pending", "running", "succeeded", "failed"}
                             ELSE wdev[j][x] = dev[j][x]
        /\ \A x \in Device : dlock[j][x] = e => dev[j][x] = "pending"
    BY <1>2, <1>5 DEF RunFits
  <2>2. cur'[e] = j /\ job' = job /\ wjob' = wjob /\ dev' = dev /\ mem' = mem
    BY <1>5 DEF rows
  <2> QED BY <1>1, <1>3, <1>4, <1>5, <2>1, <2>2 DEF RunFits
<1>7. \A i \in Job \ {j} : SameRow(i)
  BY <1>0, <1>3, <1>5 DEF SameRow, rows, TypeOK
<1>8. Remembers(e)'
  BY <1>0, <1>5 DEF Remembers, rows
<1> QED BY <1>1, <1>2, <1>5, <1>6, <1>7, <1>8, LocalBook

\* complete sees every outcome of its job: its own, and the committed ones.
LEMMA VerdictsAgree ==
    ASSUME IInv, NEW e \in Executor, cur[e] \in Job, jlock[cur[e]] \in {NoTx, e}, ~mem[e].cancel
    PROVE  Verdicts(e) \subseteq Lifecycle!Verdicts(wdev[cur[e]])
<1> DEFINE j == cur[e]
<1> DEFINE outcomes == {wdev[j][d] : d \in Lifecycle!Targets(wdev[j])}
<1>0. RowAgrees(j)
  BY DEF IInv, LockDiscipline
<1>1. \A d \in Device : DevView(e, j, d) = wdev[j][d]
  BY <1>0, TxAssumption DEF RowAgrees, DevView
<1>2. Scope(j) = Lifecycle!Targets(wdev[j])
  BY DEF Scope, Lifecycle!Targets
<1>3. \A s \in {"succeeded", "failed"} : Has(e, s) <=> s \in outcomes
  BY <1>1 DEF Has, Lifecycle!Targets
<1>4. outcomes = {} <=> Scope(j) = {}
  BY <1>2
<1> HIDE DEF outcomes
<1>5. Verdicts(e) = IF outcomes = {} THEN {"succeeded", "failed", "partial"}
                    ELSE IF "failed" \notin outcomes THEN {"succeeded"}
                    ELSE IF "succeeded" \notin outcomes THEN {"failed"}
                    ELSE {"partial"}
  BY <1>3, <1>4 DEF Verdicts
<1> QED BY <1>5 DEF outcomes, Lifecycle!Verdicts

\* A row of a job that is over, free or held, says what its outcomes or a cancel say.
LEMMA CloseBook ==
    ASSUME IInv, Bookkeeping, NEW e \in Executor, Close(e)
    PROVE  Bookkeeping'
<1> USE TxAssumption, NoJobNotJob
<1>0. TypeOK /\ LockDiscipline /\ Holds(e) /\ Remembers(e)
  BY DEF IInv, LockDiscipline, Bookkeeping
<1> DEFINE j == cur[e]
<1>1. PICK v \in Verdicts(e) :
         wjob' = [wjob EXCEPT ![j].status = IF v = mem[e].status THEN @ ELSE v]
  BY DEF Close
<1>2. /\ pc[e] = "close" /\ pc' = [pc EXCEPT ![e] = "audit"]
      /\ jlock[j] \in {NoTx, e} /\ jlock' = [jlock EXCEPT ![j] = e]
      /\ UNCHANGED <<rows, wdev, dlock, cur, on, mem, op>>
  BY DEF Close, CanWriteJob
<1>3. /\ j \in Job /\ (e \in Job => e = j) /\ RowAgrees(j) /\ CommittedFits(j)
      /\ (jlock[j] = e \/ Left(job[j])) /\ (jlock[j] = e => RunFits(e, j))
  <2>1. j \in Job
    BY <1>0, <1>2 DEF Holds, TypeOK
  <2> QED BY <1>0, <1>2, <2>1 DEF Holds, LockDiscipline, Bookkeeping
<1>4. mem[e].cancel => v = "cancelled" /\ job[j].cancel
  BY <1>0 DEF Remembers, Verdicts
<1>5. ~mem[e].cancel => v \in Lifecycle!Verdicts(wdev[j])
  BY <1>2, <1>3, VerdictsAgree
<1>6. v \in Terminal
  BY DEF Verdicts, Terminal
<1>7. /\ wjob'[j].status = IF v = mem[e].status THEN wjob[j].status ELSE v
      /\ wjob'[j].cancel = wjob[j].cancel
  BY <1>0, <1>1, <1>3 DEF TypeOK, JobRow
<1>8. /\ cur'[e] = j /\ pc'[e] = "audit" /\ jlock'[j] = e
      /\ job' = job /\ dev' = dev /\ wdev' = wdev /\ dlock' = dlock /\ mem' = mem
  BY <1>0, <1>2, <1>3 DEF TypeOK, rows
<1>9. wjob[j].cancel = job[j].cancel
  BY <1>2, <1>3 DEF RowAgrees, RunFits
<1>10. VerdictFits(j)'
  <2>1. CASE v # mem[e].status
    BY <1>4, <1>5, <1>7, <1>8, <1>9, <2>1 DEF VerdictFits
  <2>2. CASE v = mem[e].status
    <3>1. jlock[j] = NoTx
      BY <1>2, <1>3, <1>6, <2>2 DEF RunFits, Working, Terminal
    <3>2. wjob[j] = job[j] /\ wdev[j] = dev[j] /\ Left(job[j])
      <4>1. \A d \in Device : wdev[j][d] = dev[j][d]
        BY <1>3, <3>1 DEF RowAgrees
      <4> QED BY <1>0, <1>3, <3>1, <4>1 DEF RowAgrees, TypeOK
    <3>3. CASE job[j].cancel
      BY <1>7, <1>8, <2>2, <3>2, <3>3 DEF VerdictFits
    <3>4. CASE ~job[j].cancel
      <4>1. job[j].status \in Terminal
        BY <1>0, <1>3, <3>2, <3>4 DEF TypeOK, JobRow, JobStatus, CommittedFits, Left
      <4>2. wjob[j].status \in Lifecycle!Verdicts(wdev[j])
        BY <1>3, <3>2, <3>4, <4>1 DEF CommittedFits
      <4>3. wjob'[j].status = wjob[j].status /\ wdev'[j] = wdev[j] /\ cur'[e] = j
        BY <1>7, <1>8, <2>2
      <4> QED BY <4>2, <4>3 DEF VerdictFits, Lifecycle!Verdicts, Lifecycle!Targets
    <3> QED BY <3>3, <3>4
  <2> QED BY <2>1, <2>2
<1>11. RunFits(e, j)'
  <2>1. \A d \in Device : IF dev[j][d] = "pending"
                          THEN wdev[j][d] \in {"pending", "running", "succeeded", "failed"}
                          ELSE wdev[j][d] = dev[j][d]
    BY <1>2, <1>3 DEF RowAgrees, RunFits
  <2>2. \A d \in Device : dlock[j][d] = e => dev[j][d] = "pending"
    BY <1>2, <1>3 DEF RowAgrees, RunFits
  <2> QED BY <1>3, <1>7, <1>8, <1>9, <1>10, <2>1, <2>2 DEF RunFits, Working
<1>12. Remembers(e)'
  BY <1>0, <1>8 DEF Remembers
<1>13. /\ \A i \in Job \ {j} : SameRow(i)
       /\ \A f \in Executor \ {e} : SameExecutor(f) /\ mem'[f] = mem[f]
  BY <1>0, <1>1, <1>2, <1>3 DEF SameRow, SameExecutor, rows, TypeOK
<1> QED BY <1>2, <1>3, <1>8, <1>11, <1>12, <1>13, LocalBook

\* A job that is let go of, closed or marked failed, says what it should.
LEMMA LetGoBook ==
    ASSUME IInv, Bookkeeping, NEW e \in Executor,
           AuditClose(e) \/ (BodyRaises(e) /\ ~(RollBack(e) /\ Leave(e)))
    PROVE  Bookkeeping'
<1> USE TxAssumption, NoJobNotJob
<1>0. TypeOK /\ LockDiscipline /\ Holds(e)
  BY DEF IInv, LockDiscipline
<1>a. cur[e] \in Job
  BY <1>0 DEF AuditClose, BodyRaises, Holds, TypeOK
<1>b. PICK j \in Job : j = cur[e]
  BY <1>a
<1>1. /\ cur' = [cur EXCEPT ![e] = NoJob] /\ mem' = [mem EXCEPT ![e] = Blank]
      /\ UNCHANGED <<rows, wdev, jlock, dlock, on, op>>
      /\ pc' = [pc EXCEPT ![e] = pc'[e]] /\ pc[e] \in {"loop", "audit"}
  BY <1>0 DEF AuditClose, BodyRaises, TypeOK
<1>2. jlock[j] = e /\ RunFits(e, j)
  <2>1. jlock[j] = e
    BY <1>0, <1>b DEF AuditClose, BodyRaises, Holds
  <2> QED BY <2>1 DEF Bookkeeping
<1>3. /\ VerdictFits(j)' /\ wjob'[j].cancel = wjob[j].cancel
      /\ \A i \in Job \ {j} : wjob'[i] = wjob[i]
  <2>1. CASE AuditClose(e)
    <3>1. wjob' = wjob /\ pc[e] = "audit" /\ VerdictFits(j)
      BY <1>b, <1>2, <2>1 DEF AuditClose, RunFits, Working
    <3> QED BY <1>1, <3>1 DEF VerdictFits, rows
  <2>2. CASE BodyRaises(e) /\ ~(RollBack(e) /\ Leave(e))
    <3>1. /\ pc[e] = "loop" /\ Scope(j) = {} /\ e \in Worker
          /\ wjob' = [wjob EXCEPT ![j].status = IF mem[e].status \in Terminal THEN @ ELSE "failed"]
      BY <1>b, <2>2 DEF BodyRaises
    <3>2. mem[e].status \notin Terminal
      BY <1>b, <1>2, <3>1 DEF RunFits, Working, Terminal
    <3>3. wjob'[j].status = "failed" /\ wjob'[j].cancel = wjob[j].cancel
      BY <1>0, <1>2, <3>1, <3>2 DEF TypeOK, JobRow
    <3>4. wjob'[j].status = "failed" /\ wdev' = wdev
      BY <1>1, <3>3
    <3>5. VerdictFits(j)'
      BY <3>1, <3>4 DEF Scope, VerdictFits, Lifecycle!Verdicts, Lifecycle!Targets
    <3> QED BY <1>0, <3>1, <3>3, <3>5 DEF TypeOK
  <2> QED BY <2>1, <2>2
<1>4. RunFits(e, j)'
  <2>1. cur'[e] # j /\ job' = job /\ dev' = dev /\ wdev' = wdev /\ dlock' = dlock
    BY <1>0, <1>1 DEF rows, TypeOK
  <2> QED BY <1>2, <1>3, <2>1 DEF RunFits
<1>5. Remembers(e)'
  BY <1>0, <1>1 DEF Remembers, Blank, TypeOK
<1>6. /\ \A i \in Job \ {j} : SameRow(i)
      /\ \A f \in Executor \ {e} : SameExecutor(f) /\ mem'[f] = mem[f]
      /\ cur'[e] = NoJob
  BY <1>0, <1>b, <1>1, <1>2, <1>3 DEF SameRow, SameExecutor, rows, TypeOK
<1> QED BY <1>b, <1>1, <1>2, <1>4, <1>5, <1>6, LocalBook

\* A transaction rolled back takes what it said with it.
LEMMA RollBackBook ==
    ASSUME IInv, Bookkeeping, NEW t \in Tx, RollBack(t),
           \/ t \in Executor /\ Leave(t) /\ UNCHANGED op
           \/ t \in Operator /\ op' = [op EXCEPT ![t] = OpIdle] /\ UNCHANGED exec
    PROVE  Bookkeeping'
<1> USE TxAssumption, NoJobNotJob
<1>0. TypeOK /\ LockDiscipline
  BY DEF IInv
<1>1. /\ job' = job /\ dev' = dev
      /\ \A i \in Job : /\ jlock'[i] = IF jlock[i] = t THEN NoTx ELSE jlock[i]
                        /\ jlock[i] # t => wjob'[i] = wjob[i]
      /\ \A i \in Job, d \in Device :
            dlock[i][d] # t => wdev'[i][d] = wdev[i][d] /\ dlock'[i][d] = dlock[i][d]
  BY DEF RollBack, Free, FreeDev, rows
<1>2. \A f \in Executor \ {t} : SameExecutor(f) /\ mem'[f] = mem[f]
  BY <1>0 DEF Leave, exec, SameExecutor, TypeOK
<1>3. \A o \in Operator \ {t} : op'[o] = op[o]
  BY <1>0 DEF TypeOK
<1>4. ASSUME NEW i \in Job, jlock[i] # t
      PROVE  SameRow(i)
  <2>1. \A d \in Device : dlock[i][d] # t
    BY <1>4, OthersRows
  <2>2. \A d \in Device : wdev'[i][d] = wdev[i][d] /\ dlock'[i][d] = dlock[i][d]
    BY <1>1, <2>1
  <2>3. /\ wdev'[i] = [d \in Device |-> wdev'[i][d]] /\ wdev[i] = [d \in Device |-> wdev[i][d]]
        /\ dlock'[i] = [d \in Device |-> dlock'[i][d]] /\ dlock[i] = [d \in Device |-> dlock[i][d]]
    BY <1>0, RollBackType DEF TypeOK
  <2>4. wdev'[i] = wdev[i] /\ dlock'[i] = dlock[i]
    BY <2>2, <2>3
  <2> QED BY <1>1, <1>4, <2>4 DEF SameRow
<1>5. \A i \in Job : CommittedFits(i)'
  BY <1>1 DEF Bookkeeping, CommittedFits
<1>6. ASSUME NEW i \in Job, NEW e \in Executor, jlock'[i] = e PROVE RunFits(e, i)'
  <2>1. e # t /\ jlock[i] = e
    BY <1>1, <1>6
  <2>2. SameRow(i) /\ SameExecutor(e) /\ mem'[e] = mem[e] /\ RunFits(e, i)
    BY <1>2, <1>4, <2>1 DEF Bookkeeping
  <2> QED BY <2>2 DEF RunFits, VerdictFits, SameRow, SameExecutor
<1>7. ASSUME NEW i \in Job, NEW o \in Operator, jlock'[i] = o PROVE CancelFits(o, i)'
  <2>1. o # t /\ jlock[i] = o
    BY <1>1, <1>7
  <2>2. SameRow(i) /\ op'[o] = op[o] /\ CancelFits(o, i)
    BY <1>3, <1>4, <2>1 DEF Bookkeeping
  <2> QED BY <2>2 DEF CancelFits, SameRow
<1>8. ASSUME NEW e \in Executor PROVE Remembers(e)'
  <2>1. CASE e = t
    <3>1. mem'[e] = Blank
      BY <1>0, <2>1 DEF Leave, TypeOK
    <3> QED BY <3>1 DEF Remembers, Blank
  <2>2. CASE e # t
    <3>1. SameExecutor(e) /\ mem'[e] = mem[e] /\ Remembers(e)
      BY <1>2, <2>2 DEF Bookkeeping
    <3> QED BY <1>1, <3>1 DEF Remembers, SameExecutor
  <2> QED BY <2>1, <2>2
<1>9. ASSUME NEW o \in Operator PROVE HasSeen(o)'
  <2>1. op'[o].pc = "update" => op'[o] = op[o]
    BY <1>0, <1>3 DEF OpIdle, TypeOK
  <2> QED BY <1>1, <2>1 DEF HasSeen, Bookkeeping
<1> QED BY <1>5, <1>6, <1>7, <1>8, <1>9 DEF Bookkeeping

\* COMMIT publishes the rows the transaction locked, whole, and no others.
LEMMA CommitRows ==
    ASSUME IInv, NEW t \in Tx, Commit(t)
    PROVE  /\ wjob' = wjob /\ wdev' = wdev
           /\ \A i \in Job : IF jlock[i] = t
                 THEN job'[i] = wjob[i] /\ dev'[i] = wdev[i] /\ jlock'[i] = NoTx
                 ELSE SameRow(i)
<1>0. TypeOK
  BY DEF IInv
<1>1. /\ wjob' = wjob /\ wdev' = wdev
      /\ \A i \in Job : /\ jlock'[i] = IF jlock[i] = t THEN NoTx ELSE jlock[i]
                        /\ job'[i] = IF jlock[i] = t THEN wjob[i] ELSE job[i]
      /\ \A i \in Job, d \in Device :
            /\ dlock'[i][d] = IF dlock[i][d] = t THEN NoTx ELSE dlock[i][d]
            /\ dev'[i][d] = IF dlock[i][d] = t THEN wdev[i][d] ELSE dev[i][d]
  BY DEF Commit, Free, FreeDev
<1>2. \A i \in Job : /\ dev'[i] = [d \in Device |-> dev'[i][d]]
                     /\ dev[i] = [d \in Device |-> dev[i][d]]
                     /\ wdev[i] = [d \in Device |-> wdev[i][d]]
                     /\ dlock'[i] = [d \in Device |-> dlock'[i][d]]
                     /\ dlock[i] = [d \in Device |-> dlock[i][d]]
  BY <1>0, CommitType DEF TypeOK
<1>3. ASSUME NEW i \in Job, jlock[i] = t
      PROVE  job'[i] = wjob[i] /\ dev'[i] = wdev[i] /\ jlock'[i] = NoTx
  <2>1. \A d \in Device : dev'[i][d] = wdev[i][d]
    BY <1>1, <1>3, OwnRows
  <2> QED BY <1>1, <1>2, <1>3, <2>1
<1>4. ASSUME NEW i \in Job, jlock[i] # t PROVE SameRow(i)
  <2>1. \A d \in Device : dev'[i][d] = dev[i][d] /\ dlock'[i][d] = dlock[i][d]
    BY <1>1, <1>4, OthersRows
  <2>2. dev'[i] = dev[i] /\ dlock'[i] = dlock[i]
    BY <1>2, <2>1
  <2> QED BY <1>1, <1>4, <2>2 DEF SameRow
<1> QED BY <1>1, <1>3, <1>4

\* A device row that exists is not forgotten, and a cancel not taken back.
LEMMA CommitKeeps ==
    ASSUME IInv, Bookkeeping, NEW t \in Tx, Commit(t), t \in Executor => cur[t] = NoJob, NEW i \in Job
    PROVE  /\ job[i].cancel => job'[i].cancel
           /\ \A d \in Device : dev[i][d] # "none" => dev'[i][d] # "none"
<1>1. CASE jlock[i] = t
  <2>1. job'[i] = wjob[i] /\ dev'[i] = wdev[i]
    BY <1>1, CommitRows
  <2>2. CASE t \in Executor
    <3>1. RunFits(t, i)
      BY <1>1, <2>2 DEF Bookkeeping
    <3> QED BY <2>1, <3>1 DEF RunFits
  <2>3. CASE t \in Operator
    <3>1. CancelFits(t, i)
      BY <1>1, <2>3 DEF Bookkeeping
    <3> QED BY <2>1, <3>1 DEF CancelFits
  <2> QED BY <2>2, <2>3
<1>2. CASE jlock[i] # t
  BY <1>2, CommitRows DEF SameRow
<1> QED BY <1>1, <1>2

\* What a commit publishes fits together.
LEMMA CommitBook ==
    ASSUME IInv, Bookkeeping, NEW t \in Tx, Commit(t),
           \/ t \in Executor /\ cur[t] = NoJob /\ Leave(t) /\ UNCHANGED op
           \/ t \in Operator /\ op' = [op EXCEPT ![t] = OpIdle] /\ UNCHANGED exec
    PROVE  Bookkeeping'
<1> USE TxAssumption, NoJobNotJob
<1>0. TypeOK /\ LockDiscipline
  BY DEF IInv
<1>1. \A f \in Executor \ {t} : SameExecutor(f) /\ mem'[f] = mem[f]
  BY <1>0 DEF Leave, exec, SameExecutor, TypeOK
<1>2. \A o \in Operator \ {t} : op'[o] = op[o]
  BY <1>0 DEF TypeOK
<1>3. ASSUME NEW i \in Job PROVE CommittedFits(i)'
  <2>0. CommittedFits(i)
    BY DEF Bookkeeping
  <2>1. CASE jlock[i] # t
    <3>1. SameRow(i)
      BY <2>1, CommitRows
    <3> QED BY <2>0, <3>1 DEF CommittedFits, SameRow
  <2>2. CASE jlock[i] = t /\ t \in Executor
    <3>1. job'[i] = wjob[i] /\ dev'[i] = wdev[i] /\ RunFits(t, i)
      BY <2>2, CommitRows DEF Bookkeeping
    <3>2. VerdictFits(i) /\ wjob[i].cancel = job[i].cancel
      BY <2>2, <3>1 DEF RunFits
    <3>3. \A d \in Device : wdev[i][d] = "cancelled" => dev[i][d] = "cancelled"
      BY <3>1 DEF RunFits
    <3>4. \/ wjob[i].status \in Lifecycle!Verdicts(wdev[i]) /\ wjob[i].status \in {"succeeded", "partial", "failed"}
          \/ wjob[i].cancel /\ wjob[i].status \in {"cancelled", job[i].status}
      BY <3>2 DEF VerdictFits, Lifecycle!Verdicts
    <3>5. /\ wjob[i].status # "running"
          /\ (wjob[i].status \in {"cancelling", "cancelled"} => wjob[i].cancel)
          /\ \A d \in Device : wdev[i][d] = "cancelled" => wjob[i].cancel
      BY <2>0, <3>2, <3>3, <3>4 DEF CommittedFits
    <3> QED BY <3>1, <3>4, <3>5 DEF CommittedFits, Lifecycle!Verdicts, Lifecycle!Targets
  <2>3. CASE jlock[i] = t /\ t \in Operator
    <3>1. job'[i] = wjob[i] /\ CancelFits(t, i)
      BY <2>3, CommitRows DEF Bookkeeping
    <3> QED BY <2>0, <3>1 DEF CommittedFits, CancelFits
  <2> QED BY <2>1, <2>2, <2>3
<1>4. ASSUME NEW i \in Job, NEW e \in Executor, jlock'[i] = e PROVE RunFits(e, i)'
  <2>1. e # t /\ jlock[i] = e /\ SameRow(i)
    BY <1>4, CommitRows DEF SameRow
  <2>2. SameExecutor(e) /\ mem'[e] = mem[e] /\ RunFits(e, i)
    BY <1>1, <2>1 DEF Bookkeeping
  <2> QED BY <2>1, <2>2 DEF RunFits, VerdictFits, SameRow, SameExecutor
<1>5. ASSUME NEW i \in Job, NEW o \in Operator, jlock'[i] = o PROVE CancelFits(o, i)'
  <2>1. o # t /\ jlock[i] = o /\ SameRow(i)
    BY <1>5, CommitRows DEF SameRow
  <2>2. op'[o] = op[o] /\ CancelFits(o, i)
    BY <1>2, <2>1 DEF Bookkeeping
  <2> QED BY <2>1, <2>2 DEF CancelFits, SameRow
<1>6. ASSUME NEW e \in Executor PROVE Remembers(e)'
  <2>1. CASE e = t
    <3>1. mem'[e] = Blank
      BY <1>0, <2>1 DEF Leave, TypeOK
    <3> QED BY <3>1 DEF Remembers, Blank
  <2>2. CASE e # t
    <3>1. SameExecutor(e) /\ mem'[e] = mem[e] /\ Remembers(e) /\ cur[e] \in Job \cup {NoJob}
      BY <1>0, <1>1, <2>2 DEF Bookkeeping, TypeOK
    <3> QED BY <3>1, CommitKeeps DEF Remembers, SameExecutor
  <2> QED BY <2>1, <2>2
<1>7. ASSUME NEW o \in Operator PROVE HasSeen(o)'
  <2>1. op'[o].pc = "update" => op'[o] = op[o]
    BY <1>0, <1>2 DEF OpIdle, TypeOK
  <2>2. HasSeen(o) /\ ReadsSafely(o)
    BY <1>0 DEF Bookkeeping, LockDiscipline
  <2>3. op[o].pc = "update" => op[o].pend \subseteq Device
    BY <1>0 DEF TypeOK
  <2> QED BY <2>1, <2>2, <2>3, CommitKeeps DEF HasSeen, ReadsSafely
<1> QED BY <1>3, <1>4, <1>5, <1>6, <1>7 DEF Bookkeeping

\* A cancel that reads, sees what is committed.
LEMMA CancelReadBook ==
    ASSUME IInv, Bookkeeping, NEW o \in Operator, NEW j \in Job, CancelRead(o, j)
    PROVE  Bookkeeping'
<1> USE TxAssumption
<1>0. TypeOK /\ UNCHANGED <<rows, work, exec>>
  BY DEF IInv, CancelRead
<1>1. \A p \in Operator \ {o} : op'[p] = op[p]
  BY <1>0 DEF CancelRead, TypeOK
<1>2. \A i \in Job : CommittedFits(i)'
  BY <1>0 DEF Bookkeeping, CommittedFits, rows
<1>3. \A i \in Job, e \in Executor : (jlock[i] = e => RunFits(e, i))'
  BY <1>0 DEF Bookkeeping, RunFits, VerdictFits, rows, work, exec
<1>4. ASSUME NEW i \in Job, NEW p \in Operator, jlock'[i] = p PROVE CancelFits(p, i)'
  <2>1. CancelFits(p, i)
    BY <1>0, <1>4 DEF Bookkeeping, work
  <2>2. p # o
    BY <2>1 DEF CancelFits, CancelRead
  <2> QED BY <1>0, <1>1, <2>1, <2>2 DEF CancelFits, rows, work
<1>5. \A e \in Executor : Remembers(e)'
  BY <1>0 DEF Bookkeeping, Remembers, rows, exec
<1>6. ASSUME NEW p \in Operator PROVE HasSeen(p)'
  <2>1. CASE p = o
    <3>1. /\ op'[o].job = j /\ op'[o].seen = job[j].status
          /\ op'[o].pend = {d \in Device : dev[j][d] = "pending"}
      BY <1>0 DEF CancelRead, TypeOK
    <3>2. CommittedFits(j)
      BY DEF Bookkeeping
    <3> QED BY <1>0, <2>1, <3>1, <3>2 DEF HasSeen, CommittedFits, rows
  <2>2. CASE p # o
    BY <1>0, <1>1, <2>2 DEF Bookkeeping, HasSeen, rows
  <2> QED BY <2>1, <2>2
<1> QED BY <1>2, <1>3, <1>4, <1>5, <1>6 DEF Bookkeeping

\* A cancel that writes, locks a row that was free.
LEMMA CancelUpdateBook ==
    ASSUME IInv, Bookkeeping, NEW o \in Operator, CancelUpdate(o)
    PROVE  Bookkeeping'
<1> USE TxAssumption, NoJobNotJob
<1>0. TypeOK /\ LockDiscipline /\ ReadsSafely(o) /\ HasSeen(o)
  BY DEF IInv, LockDiscipline, Bookkeeping
<1>a. op[o].pc = "update" /\ op[o].job \in Job
  BY <1>0 DEF CancelUpdate, ReadsSafely
<1>b. PICK j \in Job : j = op[o].job
  BY <1>a
<1>1. /\ jlock[j] = NoTx /\ op' = [op EXCEPT ![o].pc = "audit"] /\ UNCHANGED <<rows, exec>>
  BY <1>b DEF CancelUpdate
<1>2. wjob[j] = job[j] /\ \A d \in Device : wdev[j][d] = dev[j][d]
  BY <1>0, <1>1 DEF LockDiscipline, RowAgrees
<1>3. /\ jlock'[j] = o /\ wjob'[j].cancel
      /\ wjob'[j].status = IF op[o].seen = "cancelling" THEN wjob[j].status ELSE "cancelling"
      /\ \A d \in Device : wdev'[j][d] = IF d \in op[o].pend THEN "cancelled" ELSE wdev[j][d]
  BY <1>0, <1>b, <1>1 DEF CancelUpdate, TypeOK
<1>4. \A i \in Job \ {j} : SameRow(i)
  BY <1>0, <1>b, <1>1 DEF CancelUpdate, SameRow, TypeOK, rows
<1>5. /\ op'[o].job = j /\ op'[o].pc = "audit" /\ op'[o].pend = op[o].pend
      /\ \A p \in Operator \ {o} : op'[p] = op[p]
  BY <1>0, <1>b, <1>1 DEF TypeOK
<1>6. CancelFits(o, j)'
  <2>1. wjob'[j].status = "cancelling" \/ (job[j].cancel /\ wjob'[j].status = job[j].status)
    BY <1>0, <1>a, <1>b, <1>2, <1>3 DEF HasSeen
  <2>2. job' = job /\ dev' = dev
    BY <1>1 DEF rows
  <2>3. \A d \in Device : /\ wdev'[j][d] = IF d \in op[o].pend THEN "cancelled" ELSE dev[j][d]
                          /\ dev[j][d] = "pending" => d \in op[o].pend
                          /\ d \in op[o].pend => dev[j][d] # "none"
    BY <1>0, <1>a, <1>b, <1>2, <1>3 DEF HasSeen, ReadsSafely
  <2> QED BY <1>3, <1>5, <2>1, <2>2, <2>3 DEF CancelFits
<1>7. \A i \in Job : CommittedFits(i)'
  BY <1>1 DEF Bookkeeping, CommittedFits, rows
<1>8. ASSUME NEW i \in Job, NEW e \in Executor, jlock'[i] = e PROVE RunFits(e, i)'
  <2>1. i # j /\ SameRow(i) /\ RunFits(e, i)
    BY <1>3, <1>4, <1>8 DEF Bookkeeping, SameRow
  <2> QED BY <1>1, <2>1 DEF RunFits, VerdictFits, SameRow, exec
<1>9. ASSUME NEW i \in Job, NEW p \in Operator, jlock'[i] = p PROVE CancelFits(p, i)'
  <2>1. CASE i = j
    BY <1>3, <1>6, <1>9, <2>1
  <2>2. CASE i # j
    <3>1. SameRow(i) /\ CancelFits(p, i)
      BY <1>4, <1>9, <2>2 DEF Bookkeeping, SameRow
    <3>2. p # o
      BY <1>a, <3>1 DEF CancelFits
    <3> QED BY <1>5, <3>1, <3>2 DEF CancelFits, SameRow
  <2> QED BY <2>1, <2>2
<1>10. \A e \in Executor : Remembers(e)'
  BY <1>1 DEF Bookkeeping, Remembers, rows, exec
<1>11. ASSUME NEW p \in Operator PROVE HasSeen(p)'
  <2>1. CASE p = o
    BY <1>5, <2>1 DEF HasSeen
  <2>2. CASE p # o
    BY <1>1, <1>5, <2>2 DEF Bookkeeping, HasSeen, rows
  <2> QED BY <2>1, <2>2
<1> QED BY <1>7, <1>8, <1>9, <1>10, <1>11 DEF Bookkeeping

\* Every step keeps the bookkeeping.
LEMMA BookStep == IInv /\ Bookkeeping /\ [Next]_vars => Bookkeeping'
<1> SUFFICES ASSUME IInv, Bookkeeping, [Next]_vars PROVE Bookkeeping'
  OBVIOUS
<1>0. TypeOK'
  BY TypeStep
<1>1. ASSUME NEW j \in Job, CreateApi(j) \/ CreateScheduled(j) \/ \E i \in Job : RerunFailed(i, j)
      PROVE  Bookkeeping'
  <2>1. PICK D : D \in SUBSET Device /\ NewJob(j, D)
    BY <1>1 DEF CreateApi, CreateScheduled, RerunFailed
  <2>2. (RunInline(j) \/ UNCHANGED exec) /\ UNCHANGED op
    BY <1>1 DEF CreateApi, CreateScheduled, RerunFailed
  <2> QED BY <2>1, <2>2, CreateBook
<1>2. ASSUME NEW e \in Executor, Execute(e) PROVE Bookkeeping'
  <2>1. CASE Load(e) \/ Refresh(e) \/ NoDeviceLeft(e) \/ RunBody(e)
    BY <2>1, LoadBook
  <2>2. CASE Start(e) \/ ClaimDevice(e) \/ FinishDevice(e) \/ Close(e) \/ AuditClose(e)
    BY <1>0, <2>2, StartBook, SessionBook, CloseBook, LetGoBook
  <2>3. CASE PoisonDevice(e) \/ BodyRaises(e)
    <3>1. CASE RollBack(e) /\ Leave(e)
      <4>1. UNCHANGED op
        BY <2>3 DEF PoisonDevice, BodyRaises
      <4> QED BY <3>1, <4>1, RollBackBook
    <3>2. CASE ~(RollBack(e) /\ Leave(e))
      BY <2>3, <3>2, LetGoBook DEF PoisonDevice
    <3> QED BY <3>1, <3>2
  <2>4. CASE CommitRun(e)
    <3>1. cur[e] = NoJob
      BY <2>4 DEF CommitRun, IInv, LockDiscipline, Holds
    <3> QED BY <2>4, <3>1, CommitBook DEF CommitRun
  <2> QED BY <1>2, <2>1, <2>2, <2>3, <2>4 DEF Execute
<1>3. ASSUME NEW e \in Executor, Crash(e) PROVE Bookkeeping'
  BY <1>3, RollBackBook DEF Crash
<1>4. ASSUME NEW o \in Operator, CancelCommit(o) PROVE Bookkeeping'
  BY <1>4, CommitBook DEF CancelCommit
<1>5. ASSUME NEW t \in Tx, DeadlockVictim(t) PROVE Bookkeeping'
  BY <1>5, RollBackBook DEF DeadlockVictim
<1>6. ASSUME UNCHANGED vars PROVE Bookkeeping'
  BY <1>6 DEF Bookkeeping, CommittedFits, RunFits, VerdictFits, CancelFits, Remembers, HasSeen,
              vars, rows, work, exec
<1>7. ASSUME NEW w \in Worker, ClaimNext(w) PROVE Bookkeeping'
  BY <1>7, ClaimNextBook
<1>8. ASSUME NEW o \in Operator, CancelUpdate(o) PROVE Bookkeeping'
  BY <1>8, CancelUpdateBook
<1>9. ASSUME NEW o \in Operator, NEW j \in Job, CancelRead(o, j) PROVE Bookkeeping'
  BY <1>9, CancelReadBook
<1> QED BY <1>1, <1>2, <1>3, <1>4, <1>5, <1>6, <1>7, <1>8, <1>9 DEF Next, Idle

\* The statuses of rows, committed or held, always fit together.
THEOREM BooksAreKept == Spec => []Bookkeeping
<1>1. Init => IInv /\ Bookkeeping
  BY InitType, InitLock, InitBook DEF IInv
<1>2. IInv /\ Bookkeeping /\ [Next]_vars => (IInv /\ Bookkeeping)'
  BY IInvStep, BookStep
<1> QED BY <1>1, <1>2, PTL DEF Spec

\* No commit shows a job or a device as running.
THEOREM RunningIsNeverSeen == Spec => []RunningNeverCommitted
<1>1. IInv /\ Bookkeeping => RunningNeverCommitted
  BY DEF IInv, LockDiscipline, LeftIsSettled, Bookkeeping, CommittedFits, RunningNeverCommitted
<1> QED BY <1>1, Inductive, BooksAreKept, PTL

\* The committed verdict of a job nobody cancelled is the one its devices justify.
THEOREM VerdictIsTrue == Spec => []VerdictMatchesOutcomes
<1>1. ASSUME IInv, Bookkeeping PROVE VerdictMatchesOutcomes
  <2> SUFFICES ASSUME NEW j \in Job, Closed(j), ~job[j].cancel, Lifecycle!Targets(dev[j]) # {}
               PROVE  LET Outcomes == {dev[j][d] : d \in Lifecycle!Targets(dev[j])} IN
                      \/ job[j].status = "succeeded" /\ Outcomes = {"succeeded"}
                      \/ job[j].status = "failed" /\ Outcomes = {"failed"}
                      \/ job[j].status = "partial" /\ Outcomes = {"succeeded", "failed"}
    BY DEF VerdictMatchesOutcomes, Lifecycle!Targets
  <2> DEFINE Outcomes == {dev[j][d] : d \in Lifecycle!Targets(dev[j])}
  <2>1. TypeOK /\ LeftIsSettled(j) /\ CommittedFits(j)
    BY <1>1 DEF IInv, LockDiscipline, Bookkeeping
  <2>2. \A d \in Lifecycle!Targets(dev[j]) : dev[j][d] \in {"succeeded", "failed"}
    <3>1. Left(job[j])
      BY DEF Closed, Left, Terminal
    <3> QED BY <2>1, <3>1
            DEF Lifecycle!Targets, LeftIsSettled, Settled, CommittedFits, TypeOK, DeviceJobStatus
  <2>3. Outcomes # {} /\ Outcomes \subseteq {"succeeded", "failed"}
    BY <2>2
  <2>4. job[j].status \in Lifecycle!Verdicts(dev[j])
    BY <2>1 DEF CommittedFits, Closed
  <2> HIDE DEF Outcomes
  <2>5. job[j].status \in IF Outcomes = {} THEN {"succeeded", "partial", "failed"}
                          ELSE IF "failed" \notin Outcomes THEN {"succeeded"}
                          ELSE IF "succeeded" \notin Outcomes THEN {"failed"}
                          ELSE {"partial"}
    BY <2>4 DEF Lifecycle!Verdicts, Outcomes
  <2>6. \/ job[j].status = "succeeded" /\ Outcomes = {"succeeded"}
        \/ job[j].status = "failed" /\ Outcomes = {"failed"}
        \/ job[j].status = "partial" /\ Outcomes = {"succeeded", "failed"}
    BY <2>3, <2>5
  <2> QED BY <2>6 DEF Outcomes
<1> QED BY <1>1, Inductive, BooksAreKept, PTL

----------------------------------------------------------------------------
(* The refinement of JobLifecycle *)

\* An executor's commit takes each job it ran from one resting state to another.
LEMMA CommitRunMaps ==
    ASSUME IInv, Bookkeeping, NEW t \in Executor, cur[t] = NoJob, Commit(t)
    PROVE  Lifecycle!CommitRuns
<1> USE TxAssumption, NoJobNotJob
<1> SUFFICES ASSUME NEW j \in Job
             PROVE  \/ Lifecycle!Run(j) \/ Lifecycle!RunAgain(j) \/ Lifecycle!CloseCancelled(j)
                    \/ job'[j] = job[j] /\ dev'[j] = dev[j]
  BY DEF Lifecycle!CommitRuns
<1>1. CASE jlock[j] # t
  BY <1>1, CommitRows DEF SameRow
<1>2. CASE jlock[j] = t
  <2>0. /\ TypeOK /\ RowAgrees(j) /\ LeftIsSettled(j) /\ HeldIsReady(j)
        /\ CommittedFits(j) /\ RunFits(t, j)
    BY <1>2 DEF IInv, LockDiscipline, Bookkeeping
  <2>1. job'[j] = wjob[j] /\ dev'[j] = wdev[j]
    BY <1>2, CommitRows
  <2>2. Settled(wdev[j]) /\ Left(wjob[j]) /\ job[j].status # "none"
    BY <1>2, <2>0 DEF HeldIsReady, RowAgrees, Left
  <2>3. VerdictFits(j) /\ wjob[j].cancel = job[j].cancel
    BY <1>2, <2>0 DEF RunFits
  <2>4. job[j] \in JobRow /\ wjob[j] \in JobRow
    BY <2>0 DEF TypeOK
  <2>5. CASE job[j].status = "queued"
    <3>1. ~job[j].cancel
      BY <2>0, <2>5 DEF LeftIsSettled, Left
    <3>2. job[j] = [status |-> "queued", cancel |-> FALSE]
      <4>1. job[j] = [status |-> job[j].status, cancel |-> job[j].cancel]
        BY <2>4 DEF JobRow
      <4> QED BY <2>4, <2>5, <3>1, <4>1 DEF JobRow
    <3>3. \A d \in Device : IF dev[j][d] = "pending" THEN wdev[j][d] \in {"succeeded", "failed"}
                                                   ELSE wdev[j][d] = dev[j][d]
      BY <2>0, <2>2 DEF RunFits, Settled
    <3>4. wjob[j].status \in Lifecycle!Verdicts(wdev[j]) /\ ~wjob[j].cancel
      BY <2>3, <3>1 DEF VerdictFits
    <3> QED BY <2>1, <3>2, <3>3, <3>4
            DEF Lifecycle!Run, Lifecycle!Pending, Lifecycle!Verdicts, Lifecycle!Targets
  <2>6. CASE job[j].status # "queued"
    <3>1. Settled(dev[j])
      BY <2>0, <2>2, <2>6 DEF LeftIsSettled, Left
    <3>2. wdev[j] = dev[j]
      <4>1. \A d \in Device : wdev[j][d] = dev[j][d]
        BY <2>0, <3>1 DEF RunFits, Settled
      <4> QED BY <2>0, <4>1 DEF TypeOK
    <3>3. CASE ~job[j].cancel
      <4>1. job[j].status \in Lifecycle!Closed
        BY <2>0, <2>2, <2>4, <2>6, <3>3 DEF JobRow, JobStatus, Terminal, CommittedFits, Lifecycle!Closed
      <4>2. wjob[j].status \in Lifecycle!Verdicts(wdev[j]) /\ ~wjob[j].cancel
        BY <2>3, <3>3 DEF VerdictFits
      <4> QED BY <2>1, <3>2, <3>3, <4>1, <4>2
              DEF Lifecycle!RunAgain, Lifecycle!Verdicts, Lifecycle!Targets
    <3>4. CASE job[j].cancel
      <4>1. Lifecycle!Pending(dev[j]) = {}
        BY <3>1 DEF Settled, Lifecycle!Pending
      <4>2. CASE wjob[j].status = job[j].status
        <5>1. wjob[j] = job[j]
          <6>1. /\ job[j] = [status |-> job[j].status, cancel |-> job[j].cancel]
                /\ wjob[j] = [status |-> wjob[j].status, cancel |-> wjob[j].cancel]
            BY <2>4 DEF JobRow
          <6> QED BY <2>3, <4>2, <6>1
        <5> QED BY <2>1, <3>2, <5>1
      <4>3. CASE wjob[j].status # job[j].status
        <5>1. wjob[j].status \in {"cancelled"} \cup Lifecycle!Verdicts(wdev[j])
          BY <2>3, <4>3 DEF VerdictFits
        <5> QED BY <2>1, <2>3, <3>2, <3>4, <4>1, <5>1
                DEF Lifecycle!CloseCancelled, Lifecycle!Verdicts, Lifecycle!Targets
      <4> QED BY <4>2, <4>3
    <3> QED BY <3>3, <3>4
  <2> QED BY <2>5, <2>6
<1> QED BY <1>1, <1>2

\* A cancel's commit is the life cycle's cancel, of the devices it saw pending.
LEMMA CancelCommitMaps ==
    ASSUME IInv, Bookkeeping, NEW o \in Operator, Commit(o)
    PROVE  Lifecycle!Next \/ UNCHANGED <<job, dev>>
<1> USE TxAssumption, NoJobNotJob
<1>0. TypeOK
  BY DEF IInv
<1>1. CASE \A j \in Job : jlock[j] # o
  <2>1. \A j \in Job : job'[j] = job[j] /\ dev'[j] = dev[j]
    BY <1>1, CommitRows DEF SameRow
  <2> QED BY <2>1 DEF Lifecycle!Next, Lifecycle!CommitRuns
<1>2. ASSUME NEW j \in Job, jlock[j] = o PROVE Lifecycle!Next
  <2>1. CancelFits(o, j) /\ job'[j] = wjob[j] /\ dev'[j] = wdev[j]
    BY <1>2, CommitRows DEF Bookkeeping
  <2>2. \A i \in Job \ {j} : job'[i] = job[i] /\ dev'[i] = dev[i]
    <3>1. \A i \in Job \ {j} : jlock[i] # o
      BY <2>1 DEF Bookkeeping, CancelFits
    <3> QED BY <3>1, CommitRows DEF SameRow
  <2> DEFINE D == op[o].pend
  <2>3. D \in SUBSET Device
    BY <1>0 DEF TypeOK
  <2>4. job[j].status # "none"
    BY <1>2 DEF IInv, LockDiscipline, RowAgrees, Left
  <2>5. Lifecycle!Pending(dev[j]) \subseteq D /\ D \subseteq Lifecycle!Targets(dev[j])
    BY <2>1, <2>3 DEF CancelFits, Lifecycle!Pending, Lifecycle!Targets
  <2>6. dev' = [dev EXCEPT ![j] = [d \in Device |-> IF d \in D THEN "cancelled" ELSE @[d]]]
    <3>1. wdev[j] = [d \in Device |-> IF d \in D THEN "cancelled" ELSE dev[j][d]]
      BY <1>0, <2>1 DEF CancelFits, TypeOK
    <3>2. dev \in [Job -> [Device -> DeviceJobStatus]] /\ dev' \in [Job -> [Device -> DeviceJobStatus]]
      BY CommitType DEF IInv, TypeOK
    <3> QED BY <2>1, <2>2, <3>1, <3>2
  <2>7. PICK s \in {"cancelling"} \cup (IF job[j].cancel THEN {job[j].status} ELSE {}) :
           wjob[j].status = s
    BY <2>1 DEF CancelFits
  <2>8. job' = [job EXCEPT ![j] = [status |-> s, cancel |-> TRUE]]
    <3>1. job \in [Job -> JobRow] /\ job' \in [Job -> JobRow] /\ wjob[j] \in JobRow
      BY CommitType DEF IInv, TypeOK
    <3>2. wjob[j] = [status |-> wjob[j].status, cancel |-> wjob[j].cancel] /\ wjob[j].cancel = TRUE
      BY <2>1, <3>1 DEF CancelFits, JobRow
    <3> QED BY <2>1, <2>2, <2>7, <3>1, <3>2
  <2>9. Lifecycle!Cancel(j, D)
    BY <2>4, <2>5, <2>6, <2>7, <2>8 DEF Lifecycle!Cancel
  <2> QED BY <2>3, <2>9 DEF Lifecycle!Next
<1> QED BY <1>1, <1>2

\* A creation is the life cycle's.
LEMMA CreateMaps ==
    ASSUME IInv, NEW j \in Job, NEW D \in SUBSET Device, NewJob(j, D)
    PROVE  Lifecycle!Create(j, D)
BY DEF IInv, LockDiscipline, RowAgrees, NewJob, Lifecycle!Create

\* Every step of the engine is one step of the life cycle, or none.
LEMMA StepMaps == IInv /\ Bookkeeping /\ [Next]_vars => [Lifecycle!Next]_<<job, dev>>
<1> SUFFICES ASSUME IInv, Bookkeeping, [Next]_vars
             PROVE  Lifecycle!Next \/ UNCHANGED <<job, dev>>
  OBVIOUS
<1>1. ASSUME NEW j \in Job, CreateApi(j) \/ CreateScheduled(j) \/ \E i \in Job : RerunFailed(i, j)
      PROVE  Lifecycle!Next
  <2>1. PICK D : D \in SUBSET Device /\ NewJob(j, D)
    BY <1>1 DEF CreateApi, CreateScheduled, RerunFailed
  <2> QED BY <2>1, CreateMaps DEF Lifecycle!Next
<1>2. ASSUME NEW e \in Executor, Execute(e) PROVE Lifecycle!Next \/ UNCHANGED <<job, dev>>
  <2>1. CASE CommitRun(e)
    <3>1. cur[e] = NoJob
      BY <2>1 DEF CommitRun, IInv, LockDiscipline, Holds
    <3> QED BY <2>1, <3>1, CommitRunMaps DEF CommitRun, Lifecycle!Next
  <2>2. CASE ~CommitRun(e)
    BY <1>2, <2>2 DEF Execute, Load, Start, Refresh, ClaimDevice, NoDeviceLeft, FinishDevice,
                      PoisonDevice, RunBody, BodyRaises, Close, AuditClose, RollBack, rows
  <2> QED BY <2>1, <2>2
<1>3. ASSUME NEW o \in Operator, CancelCommit(o) PROVE Lifecycle!Next \/ UNCHANGED <<job, dev>>
  BY <1>3, CancelCommitMaps DEF CancelCommit
<1>4. ASSUME NEW t \in Tx, DeadlockVictim(t) PROVE UNCHANGED <<job, dev>>
  BY <1>4 DEF DeadlockVictim, RollBack, rows
<1>5. ASSUME NEW e \in Executor, Crash(e) PROVE UNCHANGED <<job, dev>>
  BY <1>5 DEF Crash, RollBack, rows
<1>6. ASSUME NEW w \in Worker, ClaimNext(w) PROVE UNCHANGED <<job, dev>>
  BY <1>6 DEF ClaimNext, rows
<1>7. ASSUME NEW o \in Operator, CancelUpdate(o) \/ \E j \in Job : CancelRead(o, j)
      PROVE  UNCHANGED <<job, dev>>
  BY <1>7 DEF CancelUpdate, CancelRead, rows
<1>8. ASSUME UNCHANGED vars PROVE UNCHANGED <<job, dev>>
  BY <1>8 DEF vars, rows
<1> QED BY <1>1, <1>2, <1>3, <1>4, <1>5, <1>6, <1>7, <1>8 DEF Next, Idle

\* The engine implements the life cycle the API shows of a job: whatever
\* transactions overlap, the committed rows move in its steps alone.
THEOREM EngineImplementsLifecycle == Spec => ImplementsLifecycle
<1>1. Init => Lifecycle!Init
  BY DEF Init, Lifecycle!Init, Blank
<1> QED BY <1>1, StepMaps, Inductive, BooksAreKept, PTL DEF Spec, ImplementsLifecycle, Lifecycle!Spec

=============================================================================
