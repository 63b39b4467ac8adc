# A verification project for NetSecOps

NetSecOps collects configurations from network devices, assesses them, and keeps findings, an audit trail
and schedules in PostgreSQL. Several processes share that database: API processes, worker containers
(`netsecops-cli worker`) and schedulers. They talk to each other through rows, row locks and advisory
locks only, and every request, worker pass and scheduler tick is *one* transaction
(`db/session.py:52-76`), at READ COMMITTED with `autoflush=False`. That is the shape of the models of the
platform: an actor is a transaction, a step is a statement, and what the others see is what was committed.
The other half of the program is pure: parsers make a data model of a configuration, and analyses judge
it. Those are operators, explored over small inputs and held against what a device does.

Paths below are relative to `src/backend/netsecops/`.

## 1. Inventory

For each component: its state, its operations, what it shares, what is hard, what makes it correct.
`PROJECT.json` lists them with their sources and whether they are modelled.

**Job engine** (`services/jobs.py`, `workers/`). `jobs` (status, cancel request, counts) and `job_devices`.
Create, claim, start, claim a device, finish it, complete, cancel, re-run, mark failed. A request runs the jobs it
creates in-process, after committing them, and workers claim whatever is queued, so a job has several would-be
executors. Everything between claim and completion is one transaction, up to five jobs long; a cancel
is another one. Correct when no job has two executors, a closed job's rows agree with its verdict, a queued job is
closed, and a cancel is what it says.

**Audit log** (`services/audit.py`). An append-only table, each row holding its predecessor's hash, and an advisory
lock. Every other component records inside its own transaction and holds the lock from there to its end.
Correct when there is one chain, an intact table verifies and a damaged one does not.

**SIEM forwarding** (`integrations/forwarding.py`). Two watermarks. Reads the audit log and the findings. A row with a
small key may commit after a larger one was sent; a send is not undone by a rollback. Correct when nothing at
or below a watermark was skipped, but what the commit lag cannot save, and everything else is delivered.

**Schedules** (`services/schedules.py`, `workers/scheduler.py`). Cron, zone, blackout, next and last run. Several schedulers, edits
between a read and a write, missed runs, a tick that raises. Correct when each due schedule is dealt with once, never
in its blackout as a tick reads it (in UTC), never after it was removed.

**Collection** (`workers/runner.py`, `adapters/`, `services/credentials.py`). Credentials by priority, one session per device, a profile of
commands passed by the read-only guard, page loops. Partial failure is the rule. Correct when nothing outside the profile is
sent, no session is left behind, and an incomplete collection is not called complete.

**Snapshots, drift, assessment, findings** (`services/snapshots.py`, `assessment.py`, `vuln_assessment.py`, `firewall_assessment.py`).
One pinned baseline per device, one finding per device and fingerprint, exceptions. Select-then-insert by overlapping runs,
a baseline pinned between detection and recording, people who triage meanwhile. Correct when a finding's status follows the evidence
and a person's ruling.

**Policies and exceptions** (`services/policies.py`). Which checks judge which device. Correct when one policy is the default and nothing is
opened or closed by what does not govern the device.

**AAA correlation** (`services/aaa_posture.py`). Devices against the servers that authenticate them; compares in one set of queries, stores in later ones.

**Posture, trends, reports** (`services/risk.py`, `trends.py`, `reporting.py`, `api/v1/checks.py`). Queries over the same tables. Correct when pages
over one table agree, series tell what happened, and ignorance is not rewarded.

**Check engine, rule analysis, rule review, paths, advisories** (`checks/engine.py`, `firewall/`, `topology/`, `vuln/`). Pure algorithms. Correct against
their pointwise meaning: what packets a rule decides, where a packet goes, whether a version is in a range.

**Parsers** (`parsers/`). Text to data model, per platform. Correct when an exposure of the configuration is in the reading and the reading shows no
other, and what cannot be read is said to be unread.

**Notifications** (`services/notifications.py`, `integrations/triggers.py`), **feeds** (`vuln/feeds.py`), **discovery** (`discovery/`, `services/discovery_review.py`),
**derived devices** (`services/access_points.py`, `manager_enumeration.py`), **topology cache** (`topology/cache.py`), **groups and users** (`services/inventory.py`,
`users.py`): each has rows that overlapping transactions write after they have read others.

**The rest**: authentication and single sign-on, retention, the read-only guard's patterns, report layout, SNMP codec, API schemas, console, command
line, migrations. Section 6 says why each is left out.

## 2. Modules

| module | models |
|---|---|
| `JobLifecycle` | what the API may show of a job: the abstract specification |
| `JobEngine`, `MCJobEngine`, `JobEngineProofs` | the job engine, statement by statement; its instance; theorems |
| `AuditLog`, `AuditLogProofs` | appending to and replaying the audit chain; theorems |
| `SiemForwarding`, `SiemForwardingProofs` | forwarding by watermark, composed with `AuditLog`; theorems |
| `Scheduler`, `MCScheduler`, `SchedulerProofs` | schedules, ticks and the requests that edit them; the instance; theorems |
| `Directory` | the group tree; the administrators |
| `HostPacer` | departure slots of concurrent probes |
| `CollectionRun` | one device's collection; the page loop |
| `GraphCache` | the topology graph held between requests |
| `MCPlatform`, `PlatformProofs` | instances of the four modules above and of `AuditLog` and `Scheduler`; theorems about those four |
| `FindingLifecycle`, `Feeds`, `DiscoveryReview`, `Notifications`, `DerivedDevices`, `Policies`, `Posture` | what analysts review |
| `MCReview`, `ReviewProofs` | instances of those seven; theorems about all of them |
| `IntervalSets`, `Rulebase`, `RuleAnalysis`, `RuleReview` | interval sets; a rulebase and its queries; relationships of rules; findings about rules, NAT and objects, and their rows |
| `PathTrace` | the walk of a packet and the verdict on a segmentation intent |
| `CheckEngine`, `Advisories`, `AaaCorrelation` | one check on one snapshot; one advisory on one device; devices against their servers |
| `MCAnalysis`, `AnalysisProofs` | instances of those; theorems about all nine |
| `AccessLists`, `RouteTables`, `Printouts`, `ConfigReader` | Cisco access lists; static routes and printed tables; neighbours and nesting; what every parser is made of |
| `IosConfiguration`, `AsaConfiguration`, `SwitchConfigurations`, `WlcConfiguration`, `FirewallConfigurations` | the parsers of nine platforms |
| `MCReadings` | instances of what is read from devices |

Conventions. A row that a transaction has changed and not committed has two versions: the committed one (`job`, `dev`,
`row`, `mark`) and the newest (`wjob`, `wdev`, `wrow`, `mnew`); a lock variable says whose it is. `Commit` publishes, `RollBack`
restores, both let go of every lock. A read is atomic with the statement that makes it; a value kept in an ORM object
(`mem`, `seen`, `ed`, `due`) stays as it was read, however old. A definition whose name ends in `_Something` and whose comment begins with
"Mutant" is a plausible bug, defined so that the properties can be tried against it. An `MC` module that holds several
instances chooses one per behaviour (`part`, `study`, `subject`); they share no table a property speaks of, so nothing is lost.

**JobEngine.** An executor is a worker or the request that created job `j`. Its `pc` walks `execute_job`: `entry`, `start`, `loop`
(refresh and look for a cancel), `claim`, `session`, `close` (complete's counts and status), `audit`. `ClaimNext` is `claim_next` with its SKIP
LOCKED, and repeats up to `Batch` times before `CommitRun`. Cancel is two statements with the row lock in between. `RunBody` stands for the kinds
of job without devices; `BodyRaises` for an exception `_mark_failed` records; `PoisonDevice` for a failed *statement*, after
which PostgreSQL accepts nothing more in the transaction. `Crash` kills an executor; `DeadlockVictim` is the database's choice.

**AuditLog, SiemForwarding.** A hash is modelled as what it digests, so it never collides. The id sequence is never rolled
back. `Lose` removes or changes one committed row outside the service. The same transactions also insert findings, stamped at insert
and visible at commit, and forward. A send reaches the collector at once and is never undone. `Undone` is the end the
database forces: the first insert of a watermark row loses to another's, or two runs deadlock on the two rows.

**Scheduler.** Time is in hours of a short day; a cron is a set of hours in a zone, a blackout likewise. `Skips` reads the blackout
in UTC, as `fire` does; `NextOccurrence` in the schedule's zone, over at most `MaxSkips` candidates, so a schedule of another zone
may be turned away on time and may run late inside its own blackout: `OnTimeRuns` and `BlackoutsHoldInUtc` say exactly when. An edit reads, writes the columns that
differ, and commits with its audit record. A deletion takes the audit lock first and the row after it, a tick or an edit the other way round:
`TickIsVictim` and `RequestIsVictim` end that deadlock.

**Directory.** A request reads, computes the paths below the group it moves, and writes them at its commit; an administrator's request
checks `OthersRemain` and commits later. `mixed` and `overlapped` remember that two requests overlapped, since neither promise survives that.

**CollectionRun, HostPacer, GraphCache.** A collection walks the profile entry by entry, each allowed or refused by the guard, each answered,
answered with an error, or failed; a cleanup closes what was opened. A probe claims a slot under the lock and sleeps. A request for the
graph asks for the fingerprint in one statement and builds in two; writers commit in between.

**The review modules.** One transaction per run or request, its reads and its writes apart where the code has statements between them.
`FindingLifecycle` holds the rows of one device and the verdict each configuration yields. `Feeds` represents a CVE by the times it was revised. `Posture`
keeps a log of transitions that the schema does not; no answer reads it, the properties do.

**The analysis modules** build inputs step by step (a rulebase rule by rule, an estate and a question, an advisory statement by statement) and
state the answer's meaning over packets, addresses or versions one by one.

**The reading modules** hold a configuration as statements (kind, negated, value, body); a parser keeps the first, the last, all or whether there is one, which is
what its regular expressions do. `XExposes` is what the configuration makes of the device, `XShows` what the data model says, `XHides` and `XInvents` the known
differences, named one by one.

## 3. What the runs check

| run | asks | bounds |
|---|---|---|
| `jobs_safety` | one executor per job, closed jobs settled, verdicts fit, nothing half-done committed, sessions only for queued work, the lock discipline, refinement of `JobLifecycle` | 1 worker with batches of 2, 2 requests, 1 cancel, 2 jobs, 3 devices of which one poisons its transaction |
| `jobs_live` | every queued job is closed | 2 workers, 2 requests, 1 crash, 1 device |
| `siem_forwarding` | nothing at or below either watermark was skipped but what the lag cannot save | 2 passes, 2 ids, 2 findings, batches of 1 record or finding, lag of 1 tick and passes of any length, 3 ticks; at most 4 ids and findings in all, undone ones included (`RecordsBound`) |
| `siem_live` | every record and finding is delivered, but for the same | 1 record, 1 finding, passes of any length |
| `schedules_live` | every due schedule is dealt with | 1 scheduler, 1 crash, 2 requests, 3 hours |
| `platform` | the audit chain; schedules and blackouts; groups and administrators; pages, pace and completeness of collections; the held graph | 3 transactions, 3 ids, batches of 2, 1 loss; 2 schedulers, 1 edit or deletion, 5 hours of 3-hour days, one definition in UTC and one an hour east; 5 moves; 5 account requests; 4 served rules; 4 probes; 2 devices and 3 writes |
| `review` | findings close on evidence; gaps of the watermark are on record, and the catalogue; what a run of discovery may do over a ruling; announcements; derived devices; policies; posture | 3 runs over 2 configurations, 1 decision; 3 imports; 2 scans and 2 reviews; 3 passes, 2 attempts; 4 turns; 5 requests; 3 days |
| `analysis` | interval sets, dead rules, queries, paths, checks, advisories, rule reviews, rows, registers | values to 4; rulebases of 3 rules out of 13; 3 devices, 16 addresses; 2 statements; 2 rule forms; 3 devices and 3 changes |
| `readings` | every exposure is in the reading and no other, but for those `XHides` and `XInvents` name; lists, tables, neighbours and nesting read true | 3-bit addresses, 4 list lines, 3 table lines, 4 neighbour lines, 5 nested lines, 2 statements per configuration (3 for AireOS and PAN-OS) |

Why these bounds are enough. A race needs two transactions and one row; a third is there where a lock passes on. A batch of two is the
smallest in which one job can undo another, and three ids replayed in batches of two the smallest in which a gap lies inside and between batches.
One crash and one cancel meet every point of an execution, because TLC puts them at every point. A three-hour day makes every hour an occurrence, a
blackout and its neighbour within the horizon. Three rules are the least for a rule that hides another's shadow; three devices in a ring the least for a
loop that misses its start. A parser's statements act on one another in pairs, except where a draft is opened, changed and
closed (AireOS) or a name resolved through a system (PAN-OS), which takes three.
Clocks and ids stop at their bounds, so the runs do not ask what happens after: liveness is stated only of what the bound leaves time for.

Deadlock is checked where the program never stops of itself; `platform`, `review`, `analysis` and `readings` end at their bounds. `JobEngine`
has an explicit step for the system at rest (`Idle`).

### Runs that refute a statement

- `jobs_closed_final`: a cancel that waited for the run's lock turns a closed job into a cancelling one.
- `schedules_leaver`: the schedule of a deleted user fails every tick, and with it every other schedule.
- `path_denied`: a rule whose action is a denial not spelled "deny" is read as allowing.

### Fairness

`JobEngine`: each executor's next statement is weakly fair: a live process goes on, and one that died is restarted (the containers'
restart policy). A waiter gets its row when it is let go for good; deadlocks are resolved. Nothing is assumed of clients.
`SiemForwarding`: a forward run is scheduled again and again, and infinitely often one is not undone and its collector is up.
`Scheduler`: `run` loops for ever, whatever a tick raises; a request that was started ends. A claim skips locked rows and is repeated, so weak
fairness of the loop is enough. A request is strongly fair: PostgreSQL queues waiters.

## 4. What is proved

`tlapm` checks every proof to its last step. Constants are arbitrary under the named assumptions of the modules (`TxAssumption`,
`BoundAssumption`, `PoisonAssumption`, `ForwardAssumption`, `SchedulerAssumption`, `GraphAssumption`, `GroupAssumption`, `AccountAssumption`, `PacerAssumption`,
`CollectionAssumption`, `PagingAssumption`, `FeedAssumption`, `FindingAssumption`, `DiscoveryAssumption`, `NotificationAssumption`, `PolicyAssumption`, `DerivedAssumption`, `IntervalAssumption`,
`AdvisoryAssumption`, `RulesAssumption`, `PacketsAssumption`, `PathAssumption`, `ReviewAssumption`, `RowAssumption`, `AaaAssumption`, `CheckAssumption`): types, finiteness, positive lags and intervals, markers that are no numbers. TLC evaluates them in the runs.
The bounds on counters are constants too, so the theorems hold for whatever bound one likes.

**JobEngineProofs.** `IInv == TypeOK /\ BatchBound /\ LockDiscipline` is inductive. `JobRunByOne` alone is not: that two executors never share
a job follows from who holds the job's row, which follows from rows being written under their locks (`RowAgrees`), from an executor's position implying its
lock (`Holds`), from locked rows being ready to commit when nobody works on them (`HeldIsReady`), and from what a waiting cancel has read being stale
only on the safe side (`ReadsSafely`). There is a lemma per action; the two ends of a transaction (`CommitLock`, `RollBackLock`) are shared.
From it: `TypeCorrectness`, `LockingIsDisciplined`, `OneRunner`, `ClosedIsSettled`, `OpensOnQueued`. `Bookkeeping` says what statuses, outcomes and counts
tell of each other, locked or not; it is inductive relative to `IInv`. From it: `RunningIsNeverSeen` (nobody reads a running job: the run is one commit), `VerdictIsTrue`, and
`EngineImplementsLifecycle`: the commit of an executor is the lifecycle's run, that of a cancel its `Cancel`, that of a request its `Create`, and everything
else a stutter. The attempt to prove that step found `JobLifecycle.Cancel` too strict for two cancels that overlap.

**AuditLogProofs.** `IInv == TypeOK /\ Locked /\ (losses = 0 => Chained /\ Following)`: whoever has read the tail or has uncommitted records
holds the lock; the records a transaction sees are keyed by id and linear; a replay stands where the chain up to its last id ends.
From it: `TypeCorrectness`, `ChainNeverForks`, `ReplayIsExact`, `VisibleInOrder`. `LossInv` is about one loss under later records: the table no longer
splits anywhere into a chain and what follows it, appends only add to what is broken, and what a replay has read since then is a chain (`Checked`), so it stops before its end. From it `LossIsTold`.

**SiemForwardingProofs.** `FInv` joins the log's invariant to the passes': a watermark, committed or not, stands at something its transaction sees and speaks for all
below it; what a pass has read continues what was sent. The audit half rests on `VisibleInOrder` and needs no bound on how long a transaction
lasts (`AuditIsNeverSkipped`). The findings half assumes nothing of that either: `late` holds what was committed more than the lag after its stamp, which `forwarding.py:18-20`
takes to be impossible, and `WatermarksAreHonest` says that nothing else is passed over but one of two findings of one moment. `ForwardingIsLogging` is the refinement that carries the log's theorems over.

**SchedulerProofs.** `SInv`: an unlocked row has one version; what a tick still has to fire it holds locked, unwritten, live, enabled and due; the next run
of an unedited row is an open occurrence after its last. From it: `TicksFollowSchedules` and `PromisesAreKept`, for definitions in any zone: a tick asks whether its moment is in the blackout
as UTC reads it, the promise whether it is as the zone reads it, and what follows from each without the other is what the properties say.

**PlatformProofs.** *The graph cache.* `GInv`: rows are written by one open transaction at a time and are newer than what is committed, snapshots are unique by
device and time, so no mark of a fingerprint goes down while no row goes away; a request's fingerprint, and the cache's, is behind the database's or, where their marks are equal, what
was built is still true. From it `ServedGraphIsCurrent`. The proof did not close until commits that leave every mark in place were excepted: three
writers on three devices, found then, bring the device count back while the newest time stands still.
*Directory.* `GroupInv`: the groups are a tree, and a request that overlapped none holds the paths it would compute now (`Fits`); that a subtree moved below another group leaves
a tree is a lemma about sequences. `AccountInv`: a request that overlaps none still finds another active administrator. From them `DirectoryIsSafe`.
*Pace.* `PacerInv`: slots that were claimed are an interval apart and none lies further back than the burst allows, so the slots of those that went lie in different intervals: an injection.
*Pages.* `PagingInv`: deletions make the walk skip but never repeat, and what was read with what is there never exceeds what was announced; so a missing rule leaves the count short.
*Collection.* `CollectionInv`: every entry the session has passed was answered well or counted as a failure; the device has one session more than were lost, or none; a collection told to
stop has its outcome. `OfferInv`: what was offered, followed by what is left, is the list the assignments resolve to. That list holds each of the device's own rows once, then each credential
lent once, since an ordering of a finite set by priority repeats nothing (`OrderedOnce`). From these `WhatIsBroughtIsHonest` and `DeviceIsLeftAlone`.

**ReviewProofs.** *Feeds.* `FeedInv`: what an import has read it could write now, unless imports of the two kinds overlapped (`Current`), and the greatest revision that its
window offers is what it took (`Newer`). From it `FlagsFollow` and `WatermarkIsSound`: a run that rejects records or skips a stretch is PARTIAL and moves the watermark all the same
(`feeds.py:256-262`), and the theorem lists the gaps its status does not tell of.
*Findings.* `GroundInv`: the row a run judges by is one it sees and what it closes some such row passes, so `ClosedOnEvidenceAlways` holds whatever overlaps. `TruthInv` is about the
collection that nothing overlaps: before its stage a finding is untouched, in its stage an entry that is left says what the device says, after it the row got what it should (`Telling`);
how far the collection is follows from the length of its plan. From it `CollectionsTell`.
*Discovery.* `DiscoveryInv`: a run holds the hosts it wrote, and adds only what it is sure of or a person ruled on. From it `RulingsAlwaysKept`, with the one ruling a run may undo: a rejection, in a scope
that opted in, of a host whose identity is on record.
*Announcements.* `NoteInv`: what a pass holds is live and held by it alone; an exception recorded more than a window ahead and ending by the watermark, or by where a pass began, has been
announced (`Covered`, `Thorough`); while passes follow one another each exception has one row and what is announced lies behind the watermark (`InTurn`). `WaitInv`: a delivery that has failed k times is due no sooner than the first k waits after it was written or put back, in its row and in what a
pass has written over it, and a pass holds only what is due. It needs that every failure but the last has a wait (`MaxAttempts <= Len(Backoff) + 1`, as `notifications.py:52-62`). From both `AnnouncedAsPromised`.
*Policies.* `PolicyInv`: what a request that nothing overlapped has read of the default marks is still so. From it `PoliciesGovernAlways`.
*Derived devices.* `DerivedInv`: every row is vouched for by its controller's last list or by a person; that a list as long as the controller's count is a whole one is a lemma about finite
sets. From it `DerivedDevicesAlwaysTrue`.
*Posture.* `PostureInv`: readings come in the order of their days, each with the score of what it saw; what was noted at a day's end is still what stood then; a row tells its first
transition and its last (`Spans`); what is listed now, less what an earlier report listed, is what opened since less what closed (`Balanced`), since each transition of a step is one
finding's that came onto the list or left it (`AddedAreListed`, a bijection). Sums are folds over finite sets, so a lemma about them takes the smallest part that refutes it. The window's recursive series
is what stood at each day's end, by the least day at which it is not (`StandingFromIs`); rounding is monotone and the roll-up lies between mean and worst. A check without a verdict is scored as a pass, so a score is the least of those the device may
deserve, and the coverage beside it is compared with what is missing. From these `PostureAlwaysTrue`, for any devices, weights and days.

**AnalysisProofs.** *Interval sets.* The sides of a rule are sorted sequences of intervals that neither overlap nor touch (`Canonical`): that is the inductive invariant,
`SidesCanonical`. A set of values has one canonical form, merging finitely many pairs gives it, and `size` counts it (an induction on intervals, by cardinality). The loops and
two-pointer walks are recursive functions; that one exists is an induction on how far it is from its end (`LoopExists`, `WalkExists`, from the library's well-founded minimum, which takes
no operator), and what it returns follows the same way: an interval passed over overlaps nothing that is still to come. From it `IntervalsCompareAsSets`: equality, overlap, intersection,
containment, complement and the search of one value answer what they answer of the sets, for every universe and bucket size.

*Rule query.* The query names the first rule that certainly matches and the undecidable ones ahead of it; a world is any rulebase the collected one may stand for, each unread side being any part
of what is looked at. A rule that could not be excluded matches in no world unless it is named, one that certainly matches matches in every one, so the first positions agree. From it `QueriesAnswerTheDevice`.
*Dead rules.* The packets of the analysis vary in one field alone (`PacketsAssumption`), so one rule covers another exactly if it hits every arriving packet the other does, and
the least rule that shadows another is the one it is compared with. What is found is a finite set, so a list that was not cut is all of it. A rule that is deleted and changes an answer had a packet whose next decider
overlaps it, and that pair is in the list. From these `DeadRulesAreReported`: every rule reported as dead decides nothing and every rule that decides nothing is reported, unless a cap or an unread side is named.
*Reviews.* What a name reads as is defined by the levels a group nests, a recursive function whose existence is `LoopExists`; the reading with names unread is part of the device's own (`MoreIsRead`), and a list
depends only on the names it leads to (`SameReading`), so what a review says of an object or a NAT rule it says of what the device holds. From these `ReviewsAreTrue`.
*Rows.* `RowInv`: what the last analysis derived has a row that is not closed, and a row the system opened was derived; each analysis keeps, opens or closes, and where the cap crowds a finding out it says so. From it `RowsAlwaysFollow`, and
with the two others `RuleFindingsAreTrueAlways`, which states `RuleFindingsHold` whole.
*Advisories.* Two padded sequences compare by the first place where they differ (`PartsCompare`), which makes the order of releases, with families and trains that have none, asymmetric and free of cycles. Each bound of a constraint is then
settled against the publisher's own bound: what the code calls outside is outside, whatever the unread bounds turn out to be. From it `MatchesAreTrue`. Both queries are functions of what they are asked, so the theorem is about every value of it.
*Registers.* `AaaInv`: a report that the estate has not left behind is what there is to report now (what is found depends on the estate alone, `FoundOfTheEstate`); the counts of the page are partitions of finite sets. From it `RegistersAreTrue`.
*Checks.* Reading one more path changes no result that did not ask for it (`AnswersAreAwaited`), and the recursive `Tidy` of a configuration has a line for each that matters, in their order
(`TidyIs`), so a template finds the same runs in both. A check that counts what it does not declare has the verdict of an empty list until the path is read, and may then take it back: `Presumes` is that case, and the only one. From these `VerdictsAreSteady`.
*Paths.* The walk is compared with the ends a packet may come to in an estate whose unread tables, rules and NAT may do anything (`Fates`). `PathInv` says of a walk under way that the ends of each packet
asked about are those from the device it stands at, but for what a rule on the way may drop (`Tracks`), and of one that ended that the word fits them (`Concluded`); the verdict of the device is compared with every list that may be in force there, by the first rule that certainly
matches. Fates are a recursive function of the number of devices to go, which exists by the same induction as the walks of interval sets. From it `PathVerdictsAlwaysHold`.

Only model-checked: liveness, which needs fairness, and what the parsers compute (`ConfigurationsReadTrue`, `NoOtherExposureIsHidden`): folds and recursion over text.
## 5. Where code and documents disagree

Found while modelling. Those with a run are in section 3; the others are in the models, as the exceptions a property names, or were read in passing.

*Jobs and schedules.* A cancel of a running job takes effect only after the run. A job cancelled while queued is claimed by nobody. One failed statement in
a pass undoes the pass, for ever (`worker.py:97`). The blackout is checked in UTC when firing and in the schedule's zone when planning (`schedules.py:335`, `:162-166`), so elsewhere than in UTC
a run is turned away on time, or made late inside its own blackout. Every edit recomputes the next run, so an
edit between the due time and the tick swallows the run. Two requests with one idempotency key both miss in the SELECT (`jobs.py:105`).

*SIEM.* A finding whose pass outlives the lag is skipped (`forwarding.py:224`), against `:18-20`, "any transaction which produced them has certainly committed"; findings with one timestamp at a batch's edge are cut apart (`:234`).

*Collection.* A configuration command answered with an error status is stored as the configuration, though `runner.py:812-816` excepts it. A command whose send
raises is not in the audit trail (`session.py:1-12`). A flush that fails between login and `try` leaks an API session.
Two overlapping assignments of one credential to one device both stand, since the unique constraint counts a missing group as different each time (`db/models/inventory.py:382-384`): the
credential is offered twice and later assignments of it raise (`credentials.py:356-364`). The model tells such rows apart by priority only.

*Findings.* Duplicate rows of one configuration make every later collection raise (`snapshots.py:687-695`); after A, B, A `latest()` gives B; a failing check reopens accepted
findings; overlapping assessments lose an update; a pin during a run deadlocks (`snapshots.py:840`); a partial collection overwrites a richer model.

*Policies.* Overlapping `set_default` leaves two defaults, after which every unassigned device's assessment raises, or none (`db/models/policy.py:83-85`).
Re-assigning keeps the old time, so "the most recently assigned one" is not (`assessment.py:108-112`). The finding of a check dropped from its policy stays open.

*Posture and reports.* A check that could not run is scored as if it had passed, against `risk.py:20-23`, "a score that quietly pretends the missing checks passed"; up to one missing in two hundred the coverage still reads 100.
`reopened_now` is called "the size of what the `resolved` series cannot see" (`trends.py:89-91`, `23-25`): it also counts what was accepted and came back, and misses an undone resolution somebody has triaged since. Compliance aggregates count every result ever stored, not the latest. `trends.risk` returns the oldest readings. The trend report accepts
an earlier report of another template. Some totals count archived devices and others do not. A half-failed collection can score better than a whole one.

*AAA.* Two servers with one host name and client name hide a reused key; one client listed on two mirrored servers is called reuse; spellings of one
address make several unknown servers; archiving one of two servers closes rows of the other.

*Checks.* `engine.py:10-13` and `schema.py:6-9` promise Not Evaluated for data that is absent; `empty` and the counting operators answer for a path that was not found as for an empty list unless the check declares it (`engine.py:483`),
and the shipped `snmp-no-write-community.yaml` does not: it passes a device whose SNMP was never read.

*Rules.* Every negated IPv4 side is "any" (`model.py:148, 164-174`); profiles that were not captured read as none, against `policy.py:16-19`; an unreachable destination is judged by its IPv4 part;
a "monitor" rule decides a query; an unresolved negated source becomes everything; the per-kind cap closes the row of a live problem (`firewall_assessment.py:13-18`); a deleted rulebase leaves its findings open.

*Paths.* `path.py:158-161`, `854-859` and `segmentation.py:19-21` say that a fork or an unread NAT weakens the answer; where no rulebase on the path had an opinion the verdict is "allowed" all the same (`:987-999`, `DoubtsAreTold`), and "blocked" and "unreachable" are said of the one branch
that was walked. A device's only list is asked whatever interface it is bound to (`:635-641`); of several with no known binding none is asked, and the path may be "allowed". A range with no route for its first address is "unreachable" though a part of it has one: `route is None` comes before `routes_subdividing`.
Equal-cost routes without a next hop, or with one next hop over two interfaces, are no fork (`graph.py:159-196`). After NAT later hops are asked about the original ranges (`path.py:1036-1041`); BLOCKED stands though the path branched or a NAT rule was unread; a range's arrival looks at its
first address; a capped segmentation cell stays "upheld". A hit of the topology cache need not be what a rebuild gives (`cache.py:8-15`): a commit overtaken, an upload in place, a deletion and an insertion.

*Derived devices.* `include_archived` targets archived pending devices; access points that swap addresses abort the controller's collection for ever; the last access point
is never archived; a hand-archived one comes back; a manager's gateway can be its own parent.

*Vulnerabilities and feeds.* A PARTIAL run moves the watermark past the records it rejected (`feeds.py:255-262`), which only a new revision brings back; nothing on the run tells of a bundle's age, of what is older than the first window, or of what changed during the fetch.
A KEV entry that cannot be read is dropped, and its CVE reads as cleared (`feeds.py:405-450`). A CSAF bound is read inclusive; "candidate" matches are stored confirmed; an unknown platform matches everything of its vendor; `eol:` findings stay open
after an upgrade; KEV rows are never deleted; an older bundle overwrites a newer one; the NVD window ends before the fetch while the watermark is the row's time.

*Groups, users, discovery, notifications.* Overlapping moves break paths; two administrators removing each other leave none; auto-onboarding in a scope with opt-in makes a device of a rejected host whose identity is on record, against "stays rejected" (`discovery_review.py:66-69`, `138`), and
a second one that meets an approved host leaves the run "running"; an exception granted behind the watermark is never announced (`triggers.py:243`), a revoked one still is.

*Parsers.* `acl.py:21` says discontiguous masks are refused: a wildcard whose complement is an inverted netmask is read as a prefix. A source port beside a destination port is lost; `established` is ignored;
an `eq` list ending in an unlisted name loses that port. A second path under a skipped route goes to the previous destination; the operational table replaces configured VRF statics. Where the parsers say otherwise of themselves: a negated
`bpduguard` reads as a protected port (`ios.py:763`, against "a negation is a fact", `:14-16`), and a negated rogue detection, which the pattern of `:963` cannot match, as not found, against its own next line; `panos.py:12-18` and `junos.py:25-28` promise the objects of a rule's own system and the inactive marks. On IOS the last `transport input` speaks for
all lines, and protections are told by substring, negated or not. ASA server types come from group names. AireOS `security wpa disable` leaves a network unknown, not open. Junos `inactive` is ignored in most
sections, and `deactivate` lines altogether. FortiOS VDOMs hide every section. PAN-OS objects of several systems are renamed and rules are not. `XHides` and `XInvents` in each module are the full list.

## 6. What is abstracted, and what is not modelled

Abstracted: the JSON encoding a hash is taken over; syslog framing; cron syntax and daylight saving; permissions and validation of requests, except where they
decide a step; the text of commands, objects and descriptions. Clocks of application and database are one. A regular expression is the statements it finds.

Not modelled: *authentication, sessions and single sign-on* (their rules are about secrecy, codes and tokens, not order); *retention* (`_run_retention` calls `purge_artifacts` and a report job `retire_expired`, `runner.py:574, 602-617`: bounded deletes and marks within the job's transaction, whose order against other work decides nothing); *the read-only guard's patterns* (regular
expressions over command text; what the guard's verdict does is in `CollectionRun`); *the remaining parsers* (the same reader applied to more vendors, with no state of
their own); *report layout and rendering, SNMP codec, API schemas, console, command line, demo data, migrations* (formatting, generated or one-shot code). That is most of the
unmapped lines: what is left unmodelled of the modelled components is named in the notes of `PROJECT.json`.

## 7. Plan

Everything of the inventory that keeps state and is of the program's own logic has a module. What is left to prove is what the parsers compute, which
takes an induction over text. What is left to model: the sessions of users, once they keep more state than a token's expiry; retention against the jobs that store what it deletes.
