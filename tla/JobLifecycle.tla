---------------------------- MODULE JobLifecycle ----------------------------
(***************************************************************************)
(* What the API shows of a job: the committed life of the rows `jobs` and  *)
(* `job_devices`.  Each transaction of the engine appears as one step that *)
(* takes whole jobs from one resting state to another; nothing in between  *)
(* is ever visible.  JobEngine implements this module.                     *)
(***************************************************************************)
CONSTANTS Job, Device
VARIABLES job, dev

Closed == {"cancelled", "succeeded", "partial", "failed"}
Targets(row) == {d \in Device : row[d] # "none"}
Pending(row) == {d \in Device : row[d] = "pending"}

\* The status device outcomes justify; a job without devices reports its own.
Verdicts(row) ==
    LET outcomes == {row[d] : d \in Targets(row)} IN
    IF outcomes = {} THEN {"succeeded", "partial", "failed"}
    ELSE IF "failed" \notin outcomes THEN {"succeeded"}
    ELSE IF "succeeded" \notin outcomes THEN {"failed"}
    ELSE {"partial"}

Init ==
    /\ job = [j \in Job |-> [status |-> "none", cancel |-> FALSE]]
    /\ dev = [j \in Job |-> [d \in Device |-> "none"]]

Create(j, D) ==
    /\ job[j].status = "none"
    /\ job' = [job EXCEPT ![j].status = "queued"]
    /\ dev' = [dev EXCEPT ![j] = [d \in Device |-> IF d \in D THEN "pending" ELSE "none"]]

\* A queued job is run to its end: every device has an outcome, the verdict fits.
Run(j) ==
    /\ job[j] = [status |-> "queued", cancel |-> FALSE]
    /\ \A d \in Device : IF d \in Pending(dev[j]) THEN dev'[j][d] \in {"succeeded", "failed"}
                                                  ELSE dev'[j][d] = dev[j][d]
    /\ job'[j].status \in Verdicts(dev'[j]) /\ ~job'[j].cancel

\* At-least-once: a closed job is executed again.  No device is visited.
RunAgain(j) ==
    /\ job[j].status \in Closed /\ ~job[j].cancel
    /\ dev'[j] = dev[j]
    /\ job'[j].status \in Verdicts(dev[j]) /\ ~job'[j].cancel

\* A cancelled job is closed as cancelled, or, by an executor that looked at it
\* before a late cancel, by its outcomes.
CloseCancelled(j) ==
    /\ job[j].cancel /\ Pending(dev[j]) = {}
    /\ dev'[j] = dev[j]
    /\ job'[j].status \in {"cancelled"} \cup Verdicts(dev[j]) /\ job'[j].cancel

\* One worker pass or inline run: any number of jobs move in one commit.
CommitRuns ==
    \A j \in Job : \/ Run(j) \/ RunAgain(j) \/ CloseCancelled(j)
                   \/ job'[j] = job[j] /\ dev'[j] = dev[j]

\* A cancel, from queued or, when it waited for a run, from whatever that run
\* left.  The devices it saw pending become cancelled.
Cancel(j, D) ==
    /\ job[j].status # "none"
    /\ Pending(dev[j]) \subseteq D /\ D \subseteq Targets(dev[j])
    /\ \E s \in {"cancelling"} \cup (IF job[j].cancel THEN {job[j].status} ELSE {}) :
          job' = [job EXCEPT ![j] = [status |-> s, cancel |-> TRUE]]
    /\ dev' = [dev EXCEPT ![j] = [d \in Device |-> IF d \in D THEN "cancelled" ELSE @[d]]]

Next ==
    \/ \E j \in Job, D \in SUBSET Device : Create(j, D)
    \/ CommitRuns
    \/ \E j \in Job, D \in SUBSET Device : Cancel(j, D)

Spec == Init /\ [][Next]_<<job, dev>>
=============================================================================
