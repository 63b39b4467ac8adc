-------------------------------- MODULE Posture --------------------------------
(***************************************************************************)
(* What the platform says of the estate: risk scores and their letters,    *)
(* closure priorities, the series of the trend pages, the counts of the    *)
(* findings pages and of reports, and an earlier report set against now.   *)
(* Assessments, matches, triage and archiving change the tables; every     *)
(* answer is a query over them.  `log` is the record of transitions the    *)
(* schema does not keep: no answer reads it, the properties do.            *)
(***************************************************************************)
EXTENDS Integers, SequencesExt

CONSTANTS
    Box,                \* devices
    Criticality,        \* of each, as a multiplier in tenths
    Item, Match,        \* checks; findings of advisories and rulebases
    Weight,             \* of the severity of each check and match
    TrendDays,          \* days the estate's series looks back
    MaxDay, MaxReadings, MaxTriage \* bounds: days, assessments, other changes

ASSUME PostureAssumption ==
    /\ IsFiniteSet(Box) /\ IsFiniteSet(Item) /\ IsFiniteSet(Match) /\ Item \cap Match = {}
    /\ Criticality \in [Box -> {8, 10, 12, 15}] /\ Weight \in [Item \cup Match -> {0, 3, 8, 20, 40}]
    /\ TrendDays \in Nat \ {0} /\ MaxDay \in Nat

VARIABLES
    today, retained,    \* the day; devices that are not archived
    reading,            \* assessments in order: device, day, verdicts, open matches, score
    row,                \* findings: status, day first seen, day resolved (0 for none)
    earlier,            \* an earlier executive summary, or <<>>
    log, levels,        \* transitions of findings; readings standing at the end of each day
    triaged

postureVars == <<today, retained, reading, row, earlier, log, levels, triaged>>

Kept == {"new", "open", "reopened"}
Problem == Item \cup Match
NoFinding == [status |-> "none", first |-> 0, resolved |-> 0]

PostureInit ==
    /\ today = 1 /\ retained = Box /\ reading = <<>>
    /\ row = [b \in Box |-> [p \in Problem |-> NoFinding]]
    /\ earlier = <<>> /\ log = <<>> /\ levels = <<>> /\ triaged = 0
-----------------------------------------------------------------------------
Total(f, S) == FoldSet(LAMBDA x, sum : f[x] + sum, 0, S)

\* Python's round: to the nearest, and to the even one of two.
Rounded(n, d) ==
    LET low == n \div d
        twice == 2 * (n % d)
    IN IF twice > d \/ (twice = d /\ low % 2 = 1) THEN low + 1 ELSE low

\* Tenths of a severity's weight: a warning counts at a discount of 0.4.
Share == [pass |-> 0, unknown |-> 0, warning |-> 4, fail |-> 10]

\* Hundredths of the weighted total: failing checks and the open findings of the
\* other kinds, by the device's criticality.
Weighed(b, verdict, found) ==
    Criticality[b] * (Total([i \in Item |-> Weight[i] * Share[verdict[i]]], Item) + 10 * Total(Weight, found))

\* score_device: the weighted total over its saturation of 120.
ScoreDevice(b, verdict, found) == Min({100, Rounded(100 * Weighed(b, verdict, found), 12000)})

\* coverage_percent: the share of the checks that came to a verdict, beside the
\* score; -1 when none was tried.
Concluded(verdict) == {i \in Item : verdict[i] # "unknown"}
CoveragePercent(verdict) == IF Item = {} THEN -1 ELSE Rounded(100 * Cardinality(Concluded(verdict)), Cardinality(Item))

\* roll_up: the worst and the mean, six to four.
RollUp(score, S) ==
    IF S = {} THEN 0
    ELSE Min({100, Rounded(6 * Cardinality(S) * Max({score[b] : b \in S}) + 4 * Total(score, S), 10 * Cardinality(S))})
-----------------------------------------------------------------------------
\* A finding under a verdict, on this day: a warning is one too.
Judged1(f, says) ==
    CASE says \in {"fail", "warning"} /\ f.status = "none" -> [status |-> "new", first |-> today, resolved |-> 0]
      [] says \in {"fail", "warning"} /\ f.status \notin Kept \cup {"none"} -> [f EXCEPT !.status = "reopened", !.resolved = 0]
      [] says = "pass" /\ f.status \in Kept -> [f EXCEPT !.status = "resolved", !.resolved = today]
      [] OTHER -> f

Transitions(b, after) ==
    SetToSeq({[box |-> b, problem |-> p, day |-> today, from |-> row[b][p].status, to |-> after[p].status] :
                 p \in {p \in Problem : row[b][p].status # after[p].status}})

\* An assessment of a device's newest snapshot; scored before advisories are
\* matched.
Assess(b, verdict) ==
    /\ Len(reading) < MaxReadings /\ b \in retained
    /\ LET after == [p \in Problem |-> IF p \in Item THEN Judged1(row[b][p], verdict[p]) ELSE row[b][p]]
           found == {p \in Match : row[b][p].status \in Kept}
       IN /\ row' = [row EXCEPT ![b] = after]
          /\ log' = log \o Transitions(b, after)
          /\ reading' = Append(reading, [box |-> b, day |-> today, verdict |-> verdict, found |-> found,
                                         score |-> ScoreDevice(b, verdict, found)])
    /\ UNCHANGED <<today, retained, earlier, levels, triaged>>

Triaging == triaged < MaxTriage /\ triaged' = triaged + 1

\* Advisories are matched after the score was made.
Rematch(b) ==
    /\ Triaging /\ b \in retained /\ \E r \in Range(reading) : r.box = b
    /\ \E p \in Match, says \in {"fail", "pass"} :
        LET after == [row[b] EXCEPT ![p] = Judged1(@, says)]
        IN /\ after # row[b] /\ row' = [row EXCEPT ![b] = after] /\ log' = log \o Transitions(b, after)
    /\ UNCHANGED <<today, retained, reading, earlier, levels>>

\* A person sets a status, and nothing else of the row.
UpdateFinding(b) ==
    /\ Triaging
    /\ \E p \in Problem, s \in {"open", "risk_accepted"} :
        LET after == [row[b] EXCEPT ![p].status = s]
        IN /\ row[b][p].status \notin {"none", s}
           /\ row' = [row EXCEPT ![b] = after] /\ log' = log \o Transitions(b, after)
    /\ UNCHANGED <<today, retained, reading, earlier, levels>>

Archive(b) ==
    /\ Triaging /\ b \in retained /\ retained' = retained \ {b}
    /\ UNCHANGED <<today, reading, row, earlier, log, levels>>

\* What stands at the end of a day, kept for the properties.
Standing(day, b) == LET past == {i \in DOMAIN reading : reading[i].box = b /\ reading[i].day <= day}
                    IN IF past = {} THEN -1 ELSE reading[Max(past)].score

NextDay ==
    /\ today < MaxDay /\ today' = today + 1
    /\ levels' = Append(levels, [b \in Box |-> Standing(today, b)])
    /\ UNCHANGED <<retained, reading, row, earlier, log, triaged>>
-----------------------------------------------------------------------------
FindingKeys == Box \X Problem
StatusOf(x) == row[x[1]][x[2]].status

\* findings_summary and the report's executive summary: the findings that are
\* active, by severity, whatever became of the device.
Listed == {x \in FindingKeys : StatusOf(x) \in Kept}
BySeverity(w) == {x \in Listed : Weight[x[2]] = w}

\* The totals of an executive summary, frozen in a report.
ExecutiveSummary == [findings |-> Cardinality(Listed), severity |-> [w \in {0, 3, 8, 20, 40} |-> Cardinality(BySeverity(w))]]

Generate ==
    /\ earlier = <<>> /\ earlier' = <<ExecutiveSummary, Len(log)>>
    /\ UNCHANGED <<today, retained, reading, row, log, levels, triaged>>

\* A trend report: what is now, less what the earlier report froze.
FindingsDelta == Cardinality(Listed) - earlier[1].findings
SeverityDelta(w) == Cardinality(BySeverity(w)) - earlier[1].severity[w]
-----------------------------------------------------------------------------
\* grades: the letter of the newest score of every active device that has one,
\* and the estate's.
Grades == <<4, 14, 29, 49, 74, 100>>
GradeFor(score) == Min({g \in DOMAIN Grades : score <= Grades[g]})
ReadingsOf(b) == {i \in DOMAIN reading : reading[i].box = b}
Graded == {b \in retained : ReadingsOf(b) # {}}
Scores == [b \in Graded |-> reading[Max(ReadingsOf(b))].score]
ByGrade(g) == {b \in Graded : GradeFor(Scores[b]) = g}
EstateScore == RollUp(Scores, Graded)

\* priority_for: severity by criticality, against floors of 30, 12 and 4.
PriorityFor(b, p) == LET w == Weight[p] * Criticality[b]
                     IN IF w >= 300 THEN 1 ELSE IF w >= 120 THEN 2 ELSE IF w >= 40 THEN 3 ELSE 4
WorstPriority(b) == Min({PriorityFor(b, x[2]) : x \in {x \in Listed : x[1] = b}} \cup {5})

\* priorities: the open findings of active devices in one of four buckets.
Bucket(code) == {x \in Listed : x[1] \in retained /\ PriorityFor(x[1], x[2]) = code}

\* The series of the trend page.
FirstSeenOn(day) == {x \in FindingKeys : row[x[1]][x[2]].first = day}

\* Mutant: everything ever resolved counts, whatever it is now.
ResolvedOn_Ever(day) == {x \in FindingKeys : row[x[1]][x[2]].resolved = day}

ResolvedOn(day) == {x \in FindingKeys : row[x[1]][x[2]].resolved = day /\ StatusOf(x) = "resolved"}
ReopenedNow == {x \in FindingKeys : StatusOf(x) = "reopened"}
DaysToResolve(x) == row[x[1]][x[2]].resolved - row[x[1]][x[2]].first

\* estate_risk: a window of days.  Its baseline is every active device's last
\* score from before it; each day replaces what that day brought.
Since == Max({1, today - TrendDays + 1})

LastIn(b, days) == LET then == {i \in ReadingsOf(b) : reading[i].day \in days}
                   IN IF then = {} THEN -1 ELSE reading[Max(then)].score

StandingFrom[day \in 0..MaxDay] ==
    IF day < Since THEN [b \in retained |-> LastIn(b, 1..(Since - 1))]
    ELSE [b \in retained |-> IF LastIn(b, {day}) >= 0 THEN LastIn(b, {day}) ELSE StandingFrom[day - 1][b]]

EstateRisk(day) ==
    LET known == {b \in retained : StandingFrom[day][b] >= 0}
    IN [devices |-> Cardinality(known), score |-> RollUp(StandingFrom[day], known)]

PostureNext ==
    \/ \E b \in Box : \/ \E verdict \in [Item -> DOMAIN Share] : Assess(b, verdict)
                      \/ Rematch(b) \/ UpdateFinding(b) \/ Archive(b)
    \/ NextDay \/ Generate

PostureSpec == PostureInit /\ [][PostureNext]_postureVars
-----------------------------------------------------------------------------
\* The trend page against what happened: first sightings stand on the day they
\* were made, a resolution on the day it was made if and only if nothing has
\* undone it, and a problem resolved twice is measured from its first sighting.
\* The count of what is reopened is not, as the page has it, the size of what the
\* resolutions leave out: it also holds what was accepted and came back, and of
\* the undone resolutions it lacks those a person has triaged since - no other.
SeriesAreTrue ==
    \A x \in FindingKeys :
        LET own == {i \in DOMAIN log : log[i].box = x[1] /\ log[i].problem = x[2]}
            ended(status) == own # {} /\ log[Max(own)].to = status
        IN /\ {day \in 1..today : x \in FirstSeenOn(day)} = {log[i].day : i \in {i \in own : log[i].from = "none"}}
           /\ {day \in 1..today : x \in ResolvedOn(day)} = (IF ended("resolved") THEN {log[Max(own)].day} ELSE {})
           /\ x \in ReopenedNow => own # {} /\ log[Max(own)].from \in {"resolved", "risk_accepted"}
           /\ (\E i \in own : i # Max(own) /\ log[i].to = "resolved")
                 => x \in ReopenedNow \/ ended("resolved") \/ ended("open") \/ ended("risk_accepted")
           /\ ended("resolved") => DaysToResolve(x) = log[Max(own)].day - log[Min(own)].day

\* A day of the estate's series is what stood at that day's end, of the devices
\* that are still there, wherever the window opens.
EstateSeriesIsTrue ==
    \A day \in Since..(today - 1) :
        LET known == {b \in retained : levels[day][b] >= 0}
        IN EstateRisk(day) = [devices |-> Cardinality(known), score |-> RollUp(levels[day], known)]

\* A device of at least the criticality that knows as many checks and does no
\* better at any, with no open match less, never scores better, by rounding
\* either.  A check that could not run is scored as if it had passed: a score is
\* the least of those the device may deserve, whatever the missing verdicts are,
\* and the coverage beside it says so unless one in two hundred is missing at
\* most.  The estate lies between its mean and its worst device.
ScoresAreFair ==
    /\ \A one, two \in Range(reading) :
        /\ Criticality[one.box] <= Criticality[two.box] /\ one.found \subseteq two.found
        /\ \A c \in Concluded(one.verdict) : c \in Concluded(two.verdict) /\ Share[one.verdict[c]] <= Share[two.verdict[c]]
        => one.score <= two.score
    /\ \A r \in Range(reading), deserved \in [Item -> DOMAIN Share] :
        (\A c \in Concluded(r.verdict) : deserved[c] = r.verdict[c]) => r.score <= ScoreDevice(r.box, deserved, r.found)
    /\ \A r \in Range(reading) :
        /\ Item # {} /\ Concluded(r.verdict) = Item => CoveragePercent(r.verdict) = 100
        /\ CoveragePercent(r.verdict) = 100 => 200 * Cardinality(Item \ Concluded(r.verdict)) <= Cardinality(Item)
    /\ Graded # {} => EstateScore <= Max(Range(Scores))
    /\ Graded # {} => (EstateScore + 1) * Cardinality(Graded) >= Total(Scores, Graded)

\* Pages over one table agree: what the summary lists is in one bucket of the
\* priorities unless its device is archived, the letters share out the devices
\* that were ever assessed, and the trend report's differences, by severity and
\* in all, are what opened less what closed since the report it is set against.
PagesAgree ==
    /\ {x \in Listed : x[1] \in retained} = UNION {Bucket(c) : c \in 1..4}
    /\ \A c, d \in 1..4 : c # d => Bucket(c) \cap Bucket(d) = {}
    /\ \A b \in retained : WorstPriority(b) = Min({c \in 1..4 : \E x \in Bucket(c) : x[1] = b} \cup {5})
    /\ \A b \in retained : Cardinality({g \in 1..6 : b \in ByGrade(g)}) = (IF b \in Graded THEN 1 ELSE 0)
    /\ earlier # <<>> =>
        LET since == {i \in DOMAIN log : i > earlier[2]}
            opened == {i \in since : log[i].to \in Kept /\ log[i].from \notin Kept}
            closed == {i \in since : log[i].from \in Kept /\ log[i].to \notin Kept}
        IN /\ FindingsDelta = Cardinality(opened) - Cardinality(closed)
           /\ FindingsDelta = Total([w \in {0, 3, 8, 20, 40} |-> SeverityDelta(w)], {0, 3, 8, 20, 40})

PostureHolds == SeriesAreTrue /\ EstateSeriesIsTrue /\ ScoresAreFair /\ PagesAgree
=============================================================================
