----------------------------- MODULE Scheduler -----------------------------
(***************************************************************************)
(* Recurring jobs: the schedules table, the scheduler processes that claim *)
(* due rows and fire them (ScheduleService.tick), and the API requests     *)
(* that create, edit and delete schedules meanwhile.                       *)
(*                                                                         *)
(* Time is counted in hours of a day of Day hours.  A schedule's cron      *)
(* names hours of the day in its own time zone, its blackout likewise.     *)
(* `row` holds the committed rows, `wrow` the newest versions; they differ *)
(* on rows some transaction has locked.                                    *)
(***************************************************************************)
EXTENDS Integers, FiniteSets

CONSTANTS
    Proc,          \* scheduler processes
    Editor,        \* API requests that edit or delete a schedule
    Schedule,
    User,
    Cron,          \* definitions a schedule may have: [at, zone, out]
    Day,           \* hours in a day
    MaxSkips,      \* MAX_BLACKOUT_SKIPS
    MaxTime,       \* bound: time
    MaxCrashes,    \* bound: scheduler processes that die within a tick
    MaxEdits,      \* bound: edits and deletions
    MaxLeavers,    \* bound: users deleted
    NoHolder, NoUser

Hour == 0..(Day - 1)
Holder == Proc \cup Editor

ASSUME SchedulerAssumption ==
    /\ NoHolder \notin Holder /\ Proc \cap Editor = {} /\ NoUser \notin User
    /\ Day \in Nat \ {0} /\ MaxSkips \in Nat \ {0} /\ MaxTime \in Nat \ {0}
    /\ MaxCrashes \in Nat /\ MaxEdits \in Nat /\ MaxLeavers \in Nat
    /\ Cron \subseteq [at : (SUBSET Hour) \ {{}}, zone : Hour, out : SUBSET Hour]
    /\ Cron # {} /\ Schedule # {}

\* How far ahead MaxSkips occurrences can reach.
Horizon == Day * (MaxSkips + 1)

VARIABLES
    clock,
    row, wrow,       \* the schedules
    rowLock,         \* row locks
    audit,           \* holder of the audit chain's lock
    users,           \* existing users
    pc, moment, due, \* scheduler: where it is, the tick's time, rows still to fire
    ed,              \* editor: what it does, to which schedule, and the row it read
    crashes, edits

table == <<row, wrow, rowLock, audit, users>>
schedVars == <<clock, table, pc, moment, due, ed, crashes, edits>>

Blank == [live |-> FALSE, def |-> CHOOSE d \in Cron : TRUE, enabled |-> FALSE,
          next |-> 0, last |-> 0, job |-> 0, owner |-> NoUser, edited |-> FALSE]
Row == [live : BOOLEAN, def : Cron, enabled : BOOLEAN,
        next : 0..(MaxTime + Horizon),   \* next_run_at; 0: NULL
        last : 0..MaxTime,               \* last_run_at; 0: NULL
        job : 0..2,                      \* last_job_id: told apart from the one before; 0: NULL
        owner : User \cup {NoUser},      \* created_by_id
        edited : BOOLEAN]                \* history: edited since last_run_at
EdIdle == [pc |-> "idle", s |-> CHOOSE s \in Schedule : TRUE, seen |-> Blank, new |-> Blank]

ScheduleTypeOK ==
    /\ clock \in 1..MaxTime
    /\ row \in [Schedule -> Row] /\ wrow \in [Schedule -> Row]
    /\ rowLock \in [Schedule -> Holder \cup {NoHolder}] /\ audit \in Holder \cup {NoHolder}
    /\ users \subseteq User
    /\ pc \in [Proc -> {"idle", "claim", "fire"}]
    /\ moment \in [Proc -> 0..MaxTime] /\ due \in [Proc -> SUBSET Schedule]
    /\ ed \in [Editor -> [pc : {"idle", "write", "commit", "delete"}, s : Schedule,
                          seen : Row, new : Row]]
    /\ crashes \in 0..MaxCrashes /\ edits \in 0..MaxEdits

SchedInit ==
    /\ clock = 1 /\ users = User /\ audit = NoHolder
    /\ row = [s \in Schedule |-> Blank] /\ wrow = row /\ rowLock = [s \in Schedule |-> NoHolder]
    /\ pc = [p \in Proc |-> "idle"] /\ moment = [p \in Proc |-> 0]
    /\ due = [p \in Proc |-> {}]
    /\ ed = [e \in Editor |-> EdIdle]
    /\ crashes = 0 /\ edits = 0

----------------------------------------------------------------------------
(* Occurrences *)

\* A time read in a zone; a stored time is read in UTC, zone 0.
HourOf(t, zone) == (t + zone) % Day
Occurs(d, t) == HourOf(t, d.zone) \in d.at
Blocked(d, t, zone) == HourOf(t, zone) \in d.out

\* The occurrences that are looked at: the next MaxSkips.
Candidates(d, after) ==
    LET slots == {t \in (after + 1)..(after + Horizon) : Occurs(d, t)}
    IN  {t \in slots : Cardinality({u \in slots : u <= t}) <= MaxSkips}

Open(d, after) == {t \in Candidates(d, after) : ~Blocked(d, t, d.zone)}

\* The first of them outside the blackout, in the schedule's zone; 0 if none is.
NextOccurrence(d, after) ==
    LET open == Open(d, after) IN
    IF open = {} THEN 0 ELSE CHOOSE t \in open : \A u \in open : t <= u

----------------------------------------------------------------------------
(* Transactions *)

Free(t) == [s \in Schedule |-> IF rowLock[s] = t THEN NoHolder ELSE rowLock[s]]
FreeAudit(t) == IF audit = t THEN NoHolder ELSE audit

Publish(t) ==
    /\ row' = [s \in Schedule |-> IF rowLock[s] = t THEN wrow[s] ELSE row[s]]
    /\ rowLock' = Free(t) /\ audit' = FreeAudit(t)
    /\ UNCHANGED <<wrow, users>>

Revert(t) ==
    /\ wrow' = [s \in Schedule |-> IF rowLock[s] = t THEN row[s] ELSE wrow[s]]
    /\ rowLock' = Free(t) /\ audit' = FreeAudit(t)
    /\ UNCHANGED <<row, users>>

----------------------------------------------------------------------------
(* A tick *)

BeginTick(p) ==
    /\ pc[p] = "idle"
    /\ pc' = [pc EXCEPT ![p] = "claim"]
    /\ moment' = [moment EXCEPT ![p] = clock]
    /\ UNCHANGED <<clock, table, due, ed, crashes, edits>>

Due(p) == {s \in Schedule : /\ row[s].live /\ row[s].enabled
                            /\ row[s].next \in 1..moment[p]}

\* Mutant: SKIP LOCKED and FOR UPDATE forgotten.
Claim_Unlocked(p) ==
    /\ pc[p] = "claim"
    /\ due' = [due EXCEPT ![p] = Due(p)]
    /\ pc' = [pc EXCEPT ![p] = IF Due(p) = {} THEN "idle" ELSE "fire"]
    /\ UNCHANGED <<clock, table, moment, ed, crashes, edits>>

\* SELECT ... FOR UPDATE SKIP LOCKED
Claim(p) ==
    LET mine == {s \in Due(p) : rowLock[s] = NoHolder} IN
    /\ pc[p] = "claim"
    /\ rowLock' = [s \in Schedule |-> IF s \in mine THEN p ELSE rowLock[s]]
    /\ due' = [due EXCEPT ![p] = mine]
    /\ pc' = [pc EXCEPT ![p] = IF mine = {} THEN "idle" ELSE "fire"]
    /\ UNCHANGED <<clock, row, wrow, audit, users, moment, ed, crashes, edits>>

FirstDue(p, s) == s \in due[p] /\ \A u \in due[p] : wrow[s].next <= wrow[u].next

\* Mutant: the next time moves only when a job was created.
Fired_Retries(r, m, made) ==
    LET following == NextOccurrence(r.def, m) IN
    [r EXCEPT !.last = m, !.job = IF made THEN 1 + (@ % 2) ELSE @,
              !.next = IF made THEN following ELSE @,
              !.enabled = @ /\ following # 0, !.edited = FALSE]

\* What fire() leaves in the row.
Fired(r, m, made) ==
    LET following == NextOccurrence(r.def, m) IN
    [r EXCEPT !.last = m, !.job = IF made THEN 1 + (@ % 2) ELSE @, !.next = following,
              !.enabled = @ /\ following # 0, !.edited = FALSE]

\* Mutant: the window already counts in the hour before it starts.
Skips_Wider(r, m) == Blocked(r.def, m, 0) \/ Blocked(r.def, m + 1, 0)

\* fire() asks _blocked about the moment it was given, which is in UTC.
Skips(r, m) == Blocked(r.def, m, 0)

Skip(p, s) ==
    /\ Skips(wrow[s], moment[p])
    /\ wrow' = [wrow EXCEPT ![s] = Fired(@, moment[p], FALSE)]
    /\ UNCHANGED audit

\* The job is inserted, attributed to the schedule's creator, and audited.
CreateJob(p, s) ==
    /\ ~Skips(wrow[s], moment[p])
    /\ wrow[s].owner \in users
    /\ audit \in {NoHolder, p} /\ audit' = p
    /\ wrow' = [wrow EXCEPT ![s] = Fired(@, moment[p], TRUE)]

\* A ValidationProblem, such as a scope that matches no device, is caught.
CreateNone(p, s) ==
    /\ ~Skips(wrow[s], moment[p])
    /\ wrow' = [wrow EXCEPT ![s] = Fired(@, moment[p], FALSE)]
    /\ UNCHANGED audit

Fire(p) ==
    /\ pc[p] = "fire"
    /\ \E s \in Schedule :
        /\ FirstDue(p, s)
        /\ Skip(p, s) \/ CreateJob(p, s) \/ CreateNone(p, s)
        /\ due' = [due EXCEPT ![p] = @ \ {s}]
    /\ UNCHANGED <<clock, row, rowLock, users, pc, moment, ed, crashes, edits>>

EndTick(p) ==
    /\ pc' = [pc EXCEPT ![p] = "idle"]
    /\ due' = [due EXCEPT ![p] = {}]
    /\ UNCHANGED <<clock, moment, ed, edits>>

CommitTick(p) ==
    /\ pc[p] = "fire" /\ due[p] = {}
    /\ Publish(p) /\ EndTick(p) /\ UNCHANGED crashes

\* Any other exception ends the tick: a job attributed to a creator who is gone
\* violates the foreign key on requested_by_id.
TickRaises(p) ==
    /\ pc[p] = "fire"
    /\ \E s \in Schedule :
        FirstDue(p, s) /\ ~Skips(wrow[s], moment[p]) /\ wrow[s].owner \notin users
    /\ Revert(p) /\ EndTick(p) /\ UNCHANGED crashes

Crash(p) ==
    /\ pc[p] # "idle" /\ crashes < MaxCrashes
    /\ Revert(p) /\ EndTick(p) /\ crashes' = crashes + 1

----------------------------------------------------------------------------
(* Requests *)

\* create: next_run_at is computed before the row is stored.
Create(s, d, on, u) ==
    /\ row[s] = Blank /\ rowLock[s] = NoHolder
    /\ u \in users /\ audit = NoHolder
    /\ LET r == [Blank EXCEPT !.live = TRUE, !.def = d, !.enabled = on, !.owner = u,
                              !.next = NextOccurrence(d, clock)]
       IN  row' = [row EXCEPT ![s] = r] /\ wrow' = [wrow EXCEPT ![s] = r]
    /\ UNCHANGED <<clock, rowLock, audit, users, pc, moment, due, ed, crashes, edits>>

\* update: the row is read, the next time computed from now ...  An edit changes at
\* least one column, if only the name.
Edit(e, s, d, on) ==
    /\ ed[e].pc = "idle" /\ row[s].live /\ edits < MaxEdits
    /\ ed' = [ed EXCEPT ![e] = [pc |-> "write", s |-> s, seen |-> row[s],
                                new |-> [row[s] EXCEPT !.def = d, !.enabled = on,
                                                       !.next = NextOccurrence(d, clock)]]]
    /\ edits' = edits + 1
    /\ UNCHANGED <<clock, table, pc, moment, due, crashes>>

\* ... then the columns that differ from what was read are updated, whatever the
\* row holds by now.
EditWrite(e) ==
    LET s == ed[e].s  seen == ed[e].seen  new == ed[e].new IN
    /\ ed[e].pc = "write" /\ rowLock[s] = NoHolder /\ row[s].live
    /\ rowLock' = [rowLock EXCEPT ![s] = e]
    /\ wrow' = [wrow EXCEPT ![s] =
                  [@ EXCEPT !.def = IF new.def = seen.def THEN wrow[s].def ELSE new.def,
                            !.enabled = IF new.enabled = seen.enabled THEN wrow[s].enabled
                                        ELSE new.enabled,
                            !.next = IF new.next = seen.next THEN wrow[s].next ELSE new.next,
                            !.edited = TRUE]]
    /\ ed' = [ed EXCEPT ![e].pc = "commit"]
    /\ UNCHANGED <<clock, row, audit, users, pc, moment, due, crashes, edits>>

EditFails(e) ==
    /\ ed[e].pc = "write" /\ ~row[ed[e].s].live
    /\ ed' = [ed EXCEPT ![e] = EdIdle]
    /\ UNCHANGED <<clock, table, pc, moment, due, crashes, edits>>

\* The audit record, then the commit.
EditCommit(e) ==
    /\ ed[e].pc = "commit" /\ audit = NoHolder
    /\ Publish(e)
    /\ ed' = [ed EXCEPT ![e] = EdIdle]
    /\ UNCHANGED <<clock, pc, moment, due, crashes, edits>>

\* delete: the audit record first, ...
Delete(e, s) ==
    /\ ed[e].pc = "idle" /\ row[s].live /\ edits < MaxEdits /\ audit = NoHolder
    /\ audit' = e
    /\ ed' = [ed EXCEPT ![e].pc = "delete", ![e].s = s]
    /\ edits' = edits + 1
    /\ UNCHANGED <<clock, row, wrow, rowLock, users, pc, moment, due, crashes>>

\* ... then the row, and the commit.
DeleteRow(e) ==
    LET s == ed[e].s
        gone == [row[s] EXCEPT !.live = FALSE] IN
    /\ ed[e].pc = "delete" /\ rowLock[s] = NoHolder
    /\ row' = [row EXCEPT ![s] = gone] /\ wrow' = [wrow EXCEPT ![s] = gone]
    /\ audit' = FreeAudit(e)
    /\ ed' = [ed EXCEPT ![e] = EdIdle]
    /\ UNCHANGED <<clock, rowLock, users, pc, moment, due, crashes, edits>>

\* Deleting a user sets created_by_id of his schedules to NULL.
DeleteUser(u) ==
    /\ u \in users /\ Cardinality(User \ users) < MaxLeavers /\ audit = NoHolder
    /\ \A s \in Schedule : row[s].owner = u => rowLock[s] = NoHolder
    /\ users' = users \ {u}
    /\ LET Orphan(f) == [s \in Schedule |-> IF f[s].owner = u THEN [f[s] EXCEPT !.owner = NoUser]
                                            ELSE f[s]]
       IN  row' = Orphan(row) /\ wrow' = Orphan(wrow)
    /\ UNCHANGED <<clock, rowLock, audit, pc, moment, due, ed, crashes, edits>>

\* A tick or an edit holds a row and waits for the audit lock; a delete holds that
\* and waits for the row.  The database ends one of them.
Deadlocked(t, e) ==
    /\ ed[e].pc = "delete" /\ audit = e /\ rowLock[ed[e].s] = t
    /\ t \in Proc => pc[t] = "fire" /\ due[t] # {}
    /\ t \in Editor => ed[t].pc = "commit"

TickIsVictim(p) ==
    /\ \E e \in Editor : Deadlocked(p, e)
    /\ Revert(p) /\ EndTick(p) /\ UNCHANGED crashes

RequestIsVictim(e) ==
    /\ \/ \E t \in Holder : Deadlocked(t, e)
       \/ \E f \in Editor : Deadlocked(e, f)
    /\ Revert(e)
    /\ ed' = [ed EXCEPT ![e] = EdIdle]
    /\ UNCHANGED <<clock, pc, moment, due, crashes, edits>>

Tick == clock < MaxTime /\ clock' = clock + 1 /\ UNCHANGED <<table, pc, moment, due, ed, crashes, edits>>

----------------------------------------------------------------------------

TickStep(p) == BeginTick(p) \/ Claim(p) \/ Fire(p) \/ CommitTick(p) \/ TickRaises(p)
Request(e) == EditWrite(e) \/ EditFails(e) \/ EditCommit(e) \/ DeleteRow(e)

SchedNext ==
    \/ \E p \in Proc : TickStep(p) \/ TickIsVictim(p) \/ Crash(p)
    \/ \E e \in Editor : Request(e) \/ RequestIsVictim(e)
    \/ \E e \in Editor, s \in Schedule, d \in Cron, on \in BOOLEAN : Edit(e, s, d, on)
    \/ \E e \in Editor, s \in Schedule : Delete(e, s)
    \/ \E s \in Schedule, d \in Cron, on \in BOOLEAN, u \in User : Create(s, d, on, u)
    \/ \E u \in User : DeleteUser(u)
    \/ Tick

SchedSpec == SchedInit /\ [][SchedNext]_schedVars

\* The scheduler loops for ever; a request ends; the database breaks deadlocks.
\* A claim that skips a locked row is repeated until the row is free.
SchedFairness ==
    /\ \A p \in Proc : WF_schedVars(TickStep(p)) /\ WF_schedVars(TickIsVictim(p))
    /\ \A e \in Editor : SF_schedVars(Request(e)) /\ WF_schedVars(RequestIsVictim(e))

FairSchedSpec == SchedSpec /\ SchedFairness

----------------------------------------------------------------------------
(* Properties *)

\* The tick of p creates a job for s in this step.
Creates(p, s) == s \in due[p] /\ wrow'[s].job # wrow[s].job

\* Two schedulers never both fire an occurrence, and missed occurrences are not
\* made up for: between two runs of an unedited schedule lies an occurrence.
FiresAreApart ==
    [][\A p \in Proc, s \in Schedule :
          Creates(p, s) /\ wrow[s].last > 0 /\ ~wrow[s].edited =>
              \E t \in (wrow[s].last + 1)..moment[p] : Occurs(wrow[s].def, t)]_schedVars

\* No job is created at a moment that lies in the schedule's blackout as UTC reads
\* it: fire() asks about its own moment, which carries no zone of the schedule.  In
\* the blackout as the schedule's own zone reads it, the one its next run is planned
\* by, a job is created only for a schedule of another zone, and only at another
\* time than the one planned: late, or after an edit.
BlackoutsHoldInUtc ==
    [][\A p \in Proc, s \in Schedule :
          Creates(p, s) =>
              LET r == wrow[s] IN
              /\ ~Blocked(r.def, moment[p], 0)
              /\ Blocked(r.def, moment[p], r.def.zone) =>
                    r.def.zone # 0 /\ (r.edited \/ moment[p] > r.next)]_schedVars

\* A schedule in UTC that is claimed at the time it was promised is not turned away,
\* for the promise was already checked against the blackout.  (An edit may have
\* moved the blackout.)  A schedule of another zone is turned away even on time, at
\* hours that are outside the blackout in its zone and inside it in UTC.
OnTimeRuns ==
    \A p \in Proc : \A s \in due[p] :
        ~wrow[s].edited /\ moment[p] = wrow[s].next /\ Skips(wrow[s], moment[p]) =>
            /\ wrow[s].def.zone # 0
            /\ ~Blocked(wrow[s].def, moment[p], wrow[s].def.zone)

\* Jobs are created only for schedules that stand committed as live and enabled
\* while their tick holds them: never for one deleted or switched off meanwhile.
FiresLiveRows ==
    [][\A p \in Proc, s \in Schedule : Creates(p, s) => row[s].live /\ row[s].enabled]_schedVars

\* Every due schedule is dealt with: run, skipped, disabled, moved or deleted.
IsDue(s, t) == row[s].live /\ row[s].enabled /\ row[s].next = t /\ t <= clock
DueIsHandled == \A s \in Schedule : \A t \in 1..MaxTime : IsDue(s, t) ~> ~IsDue(s, t)

\* The same as long as no schedule stands in the table whose creator was deleted.
Orphaned == \E s \in Schedule : row[s].live /\ row[s].owner = NoUser
OwnedIsHandled ==
    \A s \in Schedule : \A t \in 1..MaxTime : IsDue(s, t) ~> (~IsDue(s, t) \/ Orphaned)

\* A tick runs what is scheduled: once, outside its blackout as UTC reads it, while
\* it stands.
FiresAsScheduled == FiresAreApart /\ BlackoutsHoldInUtc /\ FiresLiveRows
=============================================================================
