---------------------------- MODULE CheckEngine -----------------------------
(***************************************************************************)
(* Checks and the snapshots they are evaluated on.                         *)
(***************************************************************************)
EXTENDS Integers, SequencesExt
-----------------------------------------------------------------------------
(* Evaluating one check against one snapshot (checks/engine.py).  What    *)
(* the parser found is a function `ncm` from paths to values, with Absent *)
(* for a path it did not find; the configuration text is a sequence of    *)
(* lines.  A pattern, or a line a template wants, is the set of the lines *)
(* it matches.                                                            *)

CONSTANTS
    Absent,      \* the parser never found it
    Unknown,     \* a version that was not read, or that does not parse
    Noise        \* the blank and comment lines

Text(t) == [kind |-> "text", text |-> t]
Num(n) == [kind |-> "num", num |-> n]
Items(s) == [kind |-> "items", items |-> s]

AsSequence(v) == IF v = Absent THEN <<>> ELSE IF v.kind = "items" THEN v.items ELSE <<v>>
Counting == {"empty", "count_lte", "count_gte"}

EvaluateAssertion(a, v) ==
    LET items == AsSequence(v)
        Ordered(passes) == v # Absent /\ v.kind = "num" /\ passes
    IN  CASE a.op = "equals" -> v = a.expected
          [] a.op = "not_equals" -> v # a.expected
          [] a.op = "in" -> v \in a.expected
          [] a.op = "not_in" -> v \notin a.expected
          [] a.op = "gt" -> Ordered(v.num > a.expected)
          [] a.op = "lt" -> Ordered(v.num < a.expected)
          [] a.op = "empty" -> (items = <<>>) = a.expected
          [] a.op = "contains" -> a.expected \in ToSet(items)
          [] a.op = "not_contains" -> a.expected \notin ToSet(items)
          [] a.op = "all_equal" -> \A x \in ToSet(items) : x = a.expected
          [] a.op = "count_lte" -> Len(items) <= a.expected
          [] a.op = "count_gte" -> Len(items) >= a.expected
-----------------------------------------------------------------------------
\* An unknown version excludes nothing; a feature that is absent or empty does.
AppliesTo(check, device, ncm) ==
    /\ check.vendors # {} => device.vendor \in check.vendors
    /\ check.platforms # {} => device.platform \in check.platforms
    /\ check.device_classes # {} => device.device_class \in check.device_classes
    /\ device.version # Unknown =>
          /\ check.min_version # Unknown => device.version >= check.min_version
          /\ check.max_version # Unknown => device.version < check.max_version
    /\ \A f \in check.features : ncm[f] \notin {Absent, Items(<<>>)}

\* Mutant: what was not found is judged like an empty value.
EvaluateNcm_NoneIsFalse(check, ncm) ==
    IF check.broken THEN "error"
    ELSE IF EvaluateAssertion(check.assertion, ncm[check.expression]) THEN "pass" ELSE "fail"

\* A value that was not found is no answer, except to an operator that counts.
EvaluateNcm(check, ncm) ==
    LET v == ncm[check.expression]
    IN  IF check.broken THEN "error"
        ELSE IF v = Absent /\ check.assertion.op \notin Counting THEN check.missing
        ELSE IF EvaluateAssertion(check.assertion, v) THEN "pass" ELSE "fail"

Find(wanted, lines) == {i \in DOMAIN lines : lines[i] \in wanted}

\* The lines that mean something.
Tidy(lines) ==
    LET upTo[n \in 0 .. Len(lines)] ==
            IF n = 0 THEN <<>> ELSE IF lines[n] \in Noise THEN upTo[n - 1] ELSE Append(upTo[n - 1], lines[n])
    IN  upTo[Len(lines)]

\* The block's lines one after the other, comments and blanks between them apart.
ContiguousRun(block, lines) ==
    LET meaningful == Tidy(lines)
    IN  \E start \in 0 .. Len(meaningful) - Len(block.lines) :
            \A k \in DOMAIN block.lines : meaningful[start + k] \in block.lines[k]

Satisfied(block, lines) ==
    CASE block.expect = "present" /\ block.contiguous -> ContiguousRun(block, lines)
      [] block.expect = "present" /\ ~block.contiguous ->
             \A wanted \in ToSet(block.lines) : Find(wanted, lines) # {}
      [] block.expect = "absent" -> \A wanted \in ToSet(block.lines) : Find(wanted, lines) = {}

EvaluateGolden(check, lines) ==
    IF lines = <<>> THEN check.missing
    ELSE IF \A block \in check.blocks : Satisfied(block, lines) THEN "pass" ELSE "fail"

EvaluateRegex(check, lines) ==
    IF lines = <<>> THEN check.missing
    ELSE IF (Find(check.pattern, lines) # {}) = (check.expect = "present") THEN "pass" ELSE "fail"

\* Applicability, the declared inputs, then the logic.
EvaluateCheck(check, device, ncm, lines) ==
    IF ~AppliesTo(check, device, ncm) THEN "not_applicable"
    ELSE IF \E p \in check.requires : ncm[p] = Absent THEN check.missing
    ELSE CASE check.type = "ncm" -> EvaluateNcm(check, ncm)
           [] check.type = "regex" -> EvaluateRegex(check, lines)
           [] check.type = "golden" -> EvaluateGolden(check, lines)
-----------------------------------------------------------------------------
(* A collection fills in what is known of a device, answer by answer and  *)
(* line by line, and may stop anywhere (FR-COL-08): every check is        *)
(* evaluated on every such partial snapshot.                              *)

CONSTANTS
    Readings,     \* what each path may hold once its command has answered
    Lines,       \* the lines of a configuration
    MaxLines,    \* bound: lines read
    Library,     \* the checks considered
    Assessed     \* the device

\* Every path that a check names is one a parser may find.
ASSUME CheckAssumption ==
    \A check \in Library :
        /\ check.type \in {"ncm", "regex", "golden"}
        /\ check.features \cup check.requires \subseteq DOMAIN Readings
        /\ check.type = "ncm" => check.expression \in DOMAIN Readings
        /\ check.type = "golden" =>
               \A block \in check.blocks : block.expect \in {"present", "absent"} /\ block.contiguous \in BOOLEAN

VARIABLES ncm, lines

checkVars == <<ncm, lines>>

Result(check) == EvaluateCheck(check, Assessed, ncm, lines)

\* A check that counts a path it has not declared as required takes a path that was
\* not found for one with nothing in it.
Presumes(check) ==
    /\ check.type = "ncm" /\ check.assertion.op \in Counting
    /\ ncm[check.expression] = Absent /\ check.expression \notin check.requires

AsIfNone(check) ==
    EvaluateCheck(check, Assessed, [ncm EXCEPT ![check.expression] = Items(<<>>)], lines)
-----------------------------------------------------------------------------
CheckInit == ncm = [p \in DOMAIN Readings |-> Absent] /\ lines = <<>>

\* A command answers, and the parser finds the path in its output.
Answer ==
    /\ \E p \in DOMAIN Readings : ncm[p] = Absent /\ \E v \in Readings[p] : ncm' = [ncm EXCEPT ![p] = v]
    /\ UNCHANGED lines

ReadLine ==
    /\ Len(lines) < MaxLines
    /\ \E l \in Lines : lines' = Append(lines, l)
    /\ UNCHANGED ncm

CheckNext == Answer \/ ReadLine

CheckSpec == CheckInit /\ [][CheckNext]_checkVars
-----------------------------------------------------------------------------
\* "Absent is not false" does not hold of every check: one that counts (empty,
\* count_lte, count_gte) without declaring its path gives the verdict of an empty
\* list where the command failed, and may take it back when the command answers.
\* This is the only one that judges what nobody could read.  Any other pass or
\* failure said of a partial snapshot, whichever commands failed, is what the
\* complete one says too (unless the author answered for an absent input), and the
\* presumed one stands until its own path is answered for.
VerdictsSurviveAnswers ==
    [][lines' = lines => \A check \in Library :
        (check.missing = "not_evaluated" /\ Result(check) \in {"pass", "fail"}) =>
            /\ Presumes(check) => Result(check) = AsIfNone(check)
            /\ (Presumes(check) /\ ncm'[check.expression] # Absent) \/ Result(check)' = Result(check)]_checkVars

\* A comment or a blank between two lines is formatting: a template that takes
\* no interest in such lines says the same of the configuration without them.
NoiseIsIgnored ==
    Tidy(lines) # <<>> =>
        \A check \in Library :
            (check.type = "golden" /\ \A block \in check.blocks : \A k \in DOMAIN block.lines : block.lines[k] \cap Noise = {}) =>
                    Result(check) = EvaluateCheck(check, Assessed, ncm, Tidy(lines))
\* Neither what was not collected nor formatting moves a verdict.
ChecksAreSteady == []NoiseIsIgnored /\ VerdictsSurviveAnswers
=============================================================================
