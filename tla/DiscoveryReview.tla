--------------------------- MODULE DiscoveryReview ---------------------------
(***************************************************************************)
(* Discovery runs and the review queue.  A run is one transaction that     *)
(* records the hosts that answered and, in a scope that opted in, onboards *)
(* them; reviewers approve and reject meanwhile, and devices are created   *)
(* and deleted in the inventory.                                           *)
(***************************************************************************)
EXTENDS Integers, FiniteSets

CONSTANTS
    Addr,           \* addresses of the scope
    Scan,           \* transactions of discovery jobs
    Reviewer,
    Nowhere,        \* no address
    MaxScans,       \* bound: runs started
    MaxReviews      \* bound: steps of reviewers and of the inventory

ASSUME DiscoveryAssumption == Nowhere \notin Scan \cup Addr

VARIABLES
    queue,          \* discovered_hosts: the status of each address, and whether its vendor is known
    devices,        \* addresses that are devices
    scan,
    review,         \* the host a reviewer has open, and the status it was read with
    left,           \* statuses that ended jobs left in discovery_runs
    scans, reviews

discoveryVars == <<queue, devices, scan, review, left, scans, reviews>>

Unseen == [status |-> "unseen", identified |-> FALSE]
NoScan == [on |-> FALSE, auto |-> FALSE, todo |-> {}, failed |-> FALSE, answered |-> {}, sure |-> {},
           added |-> {}, wrote |-> [a \in Addr |-> Unseen]]
NoReview == [addr |-> Nowhere, status |-> "unseen"]

DiscoveryInit ==
    /\ queue = [a \in Addr |-> Unseen] /\ devices = {} /\ left = {} /\ scans = 0 /\ reviews = 0
    /\ scan = [s \in Scan |-> NoScan] /\ review = [p \in Reviewer |-> NoReview]

\* Hosts whose rows another transaction has written.
Held(a, s) == \E t \in Scan \ {s} : a \in scan[t].answered

StartScan(s) ==
    /\ ~scan[s].on /\ scans < MaxScans /\ scans' = scans + 1
    /\ \E auto \in BOOLEAN : scan' = [scan EXCEPT ![s] = [NoScan EXCEPT !.on = TRUE, !.auto = auto, !.todo = Addr]]
    /\ UNCHANGED <<queue, devices, review, left, reviews>>

\* A host that was ruled on keeps its status and its identity.
Recorded(host, identified) ==
    IF host.status \in {"unseen", "pending"} THEN [status |-> "pending", identified |-> identified] ELSE host

\* Mutant: signals that disagree are no reason to wait.
Onboards_Contested(auto, host, contested) == auto /\ host.identified

\* auto_onboard declines what it is not sure of.
Onboards(auto, host, contested) == auto /\ host.identified /\ ~contested

\* Most addresses are silent, and leave nothing.
Silent(s) ==
    /\ scan[s].on /\ ~scan[s].failed
    /\ \E a \in scan[s].todo : scan' = [scan EXCEPT ![s].todo = @ \ {a}]
    /\ UNCHANGED <<queue, devices, review, left, scans, reviews>>

\* What an answer leaves in the run: `host` is what it will write.
Noted(run, a, refused, certain, onboarded, host) ==
    [on |-> run.on, auto |-> run.auto, todo |-> run.todo \ {a}, failed |-> refused, answered |-> run.answered \cup {a},
     sure |-> run.sure \cup (IF certain THEN {a} ELSE {}), added |-> run.added \cup (IF onboarded THEN {a} ELSE {}),
     wrote |-> [run.wrote EXCEPT ![a] = host]]

\* A host is recorded, and onboarded where the scope says so.  One that was
\* approved before, or whose address is a device, raises out of the run.
Answer(s) ==
    /\ scan[s].on /\ ~scan[s].failed
    /\ \E a \in scan[s].todo, identified, contested \in BOOLEAN :
        /\ contested => identified
        /\ ~Held(a, s)
        /\ LET host == Recorded(queue[a], identified)
               onboard == Onboards(scan[s].auto, host, contested)
               refused == onboard /\ (host.status = "approved" \/ a \in devices)
               added == onboard /\ ~refused
           IN scan' = [scan EXCEPT ![s] = Noted(@, a, refused, identified /\ ~contested, added,
                                                IF added THEN [host EXCEPT !.status = "approved"] ELSE host)]
    /\ UNCHANGED <<queue, devices, review, left, scans, reviews>>

\* The job ends and its transaction commits: after the last address, on a
\* cancel request between batches, or when a host was refused, in which case
\* the run's row is left as it was.
EndScan(s) ==
    /\ scan[s].on
    /\ \E status \in {"succeeded", "partial", "running"} :
        /\ status = "succeeded" => scan[s].todo = {}
        /\ (status = "running") = scan[s].failed
        /\ left' = left \cup {status}
    /\ queue' = [a \in Addr |-> IF a \in scan[s].answered THEN scan[s].wrote[a] ELSE queue[a]]
    /\ devices' = devices \cup scan[s].added
    /\ scan' = [scan EXCEPT ![s] = NoScan]
    /\ UNCHANGED <<review, scans, reviews>>

\* A second insert of one address or device fails, or the worker dies.
UndoScan(s) ==
    /\ scan[s].on /\ scan' = [scan EXCEPT ![s] = NoScan]
    /\ UNCHANGED <<queue, devices, review, left, scans, reviews>>
-----------------------------------------------------------------------------
Acts == reviews < MaxReviews /\ reviews' = reviews + 1 /\ UNCHANGED <<scan, left, scans>>

OpenHost(p) ==
    /\ review[p].addr = Nowhere
    /\ \E a \in Addr : queue[a].status # "unseen" /\ review' = [review EXCEPT ![p] = [addr |-> a, status |-> queue[a].status]]
    /\ Acts /\ UNCHANGED <<queue, devices>>

Done(p) == review' = [review EXCEPT ![p] = NoReview] /\ UNCHANGED <<scan, left, scans, reviews>>

\* The status is the one read; the device's address is checked again by the
\* unique index.  A reviewer may name the vendor.
Approve(p) ==
    LET a == review[p].addr IN
    /\ a # Nowhere /\ ~Held(a, Nowhere)
    /\ review[p].status # "approved" /\ a \notin devices
    /\ queue' = [queue EXCEPT ![a].status = "approved"] /\ devices' = devices \cup {a}
    /\ Done(p)

\* No status is refused.
Reject(p) ==
    LET a == review[p].addr IN
    /\ a # Nowhere /\ ~Held(a, Nowhere)
    /\ queue' = [queue EXCEPT ![a].status = "rejected"]
    /\ Done(p) /\ UNCHANGED devices

GiveUp(p) == review[p].addr # Nowhere /\ Done(p) /\ UNCHANGED <<queue, devices>>

CreateDevice ==
    /\ \E a \in Addr \ devices : ~Held(a, Nowhere) /\ devices' = devices \cup {a}
    /\ Acts /\ UNCHANGED <<queue, review>>

DeleteDevice ==
    /\ \E a \in devices : devices' = devices \ {a}
    /\ Acts /\ UNCHANGED <<queue, review>>

DiscoveryNext ==
    \/ \E s \in Scan : StartScan(s) \/ Silent(s) \/ Answer(s) \/ EndScan(s) \/ UndoScan(s)
    \/ \E p \in Reviewer : OpenHost(p) \/ Approve(p) \/ Reject(p) \/ GiveUp(p)
    \/ CreateDevice \/ DeleteDevice

DiscoverySpec == DiscoveryInit /\ [][DiscoveryNext]_discoveryVars
-----------------------------------------------------------------------------
\* What a scope that opted in lets a run do over a rejection.
Overruled(host) == [host EXCEPT !.status = "approved"]

\* Whatever runs, reviews and inventory steps interleave, a run makes a device
\* only in a scope that opted in, and there only of a host it could identify and
\* whose signals agreed, or of a rejected one whose identity was on record and
\* whose signals agreed now: auto_onboard never looks whether a person said no.
OnboardedWhenSure ==
    [][\A s \in Scan, a \in Addr : EndScan(s) /\ a \in devices' \ devices =>
            /\ scan[s].auto
            /\ IF queue[a].status = "rejected" THEN queue[a].identified
               ELSE queue[a].status # "approved" /\ a \in scan[s].sure]_discoveryVars

\* A run leaves every ruling, and the identity it was made on, as it is, but for
\* the one overruling the code has: a rejected host that a scope with opt-in makes
\* a device.  It never returns a host to the queue, and one that answered is seen.
RulingsStand ==
    [][\A s \in Scan, a \in Addr : EndScan(s) =>
            /\ queue[a].status \in {"approved", "rejected"} =>
                 \/ queue'[a] = queue[a]
                 \/ /\ queue[a].status = "rejected" /\ scan[s].auto /\ a \in devices'
                    /\ queue'[a] = Overruled(queue[a])
            /\ a \in scan[s].answered => queue'[a].status # "unseen"]_discoveryVars

\* Where no scope opted in the decisions are people's; where one did, a rejection
\* is the only ruling a run can undo, and only into a device of a known vendor.
RulingsAreKept == OnboardedWhenSure /\ RulingsStand
=============================================================================
