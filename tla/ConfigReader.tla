---------------------------- MODULE ConfigReader ----------------------------
(***************************************************************************)
(* What every parser of a configuration is made of.  A configuration is a  *)
(* sequence of statements: what a statement is, whether it is negated, its *)
(* value and, for a block, the statements indented under it.  A parser     *)
(* asks for statements of one kind and keeps the first, the last, all, or  *)
(* whether there is any; a field no statement decides is not found, which  *)
(* is neither on nor off.  Other output collected from the device is kept  *)
(* beside the configuration under the command that printed it.             *)
(***************************************************************************)
EXTENDS Integers, SequencesExt

CONSTANTS
    Platform,           \* platforms with a parser
    Statement,          \* what may be written in the configuration of each
    Repeated,           \* kinds of which a configuration may have several
    MaxConfig,          \* bound: statements of a configuration of each
    NotFound

VARIABLES
    platform, config

configVars == <<platform, config>>

Of(statements, kind) == SelectSeq(statements, LAMBDA s : s.is = kind /\ ~s.no)
Has(statements, kind) == \E i \in DOMAIN statements : statements[i].is = kind /\ ~statements[i].no
Negated(statements, kind) == \E i \in DOMAIN statements : statements[i].is = kind /\ statements[i].no
\* A search of the text finds a statement whether or not it is negated.
Mentions(statements, kind) == \E i \in DOMAIN statements : statements[i].is = kind

FirstOf(statements, kind) == IF Has(statements, kind) THEN Of(statements, kind)[1].val ELSE NotFound
LastOf(statements, kind) == IF Has(statements, kind) THEN LET s == Of(statements, kind) IN s[Len(s)].val ELSE NotFound
EachOf(statements, kind, reading(_)) == LET s == Of(statements, kind) IN [i \in DOMAIN s |-> reading(s[i])]
Bodies(statements, kind) == FlattenSeq(EachOf(statements, kind, LAMBDA s : s.body))

\* A negation is a fact, and absence is none.
ToggleOf(statements, kind) ==
    IF Negated(statements, kind) THEN FALSE ELSE IF Has(statements, kind) THEN TRUE ELSE NotFound
\* What is on when it is there, and otherwise not known.
OrNotFound(b) == IF b THEN TRUE ELSE NotFound
FirstKnown(values) ==
    LET known == SelectSeq(values, LAMBDA v : v # NotFound) IN IF known = <<>> THEN NotFound ELSE known[1]

ConfigInit == platform \in Platform /\ config = <<>>

\* A statement is added to a configuration.
Configured(s) ==
    /\ Len(config) < MaxConfig[platform]
    /\ s.is \in Repeated \/ \A i \in DOMAIN config : config[i].is # s.is
    /\ config' = Append(config, s)
    /\ UNCHANGED platform

ConfigNext == \E s \in Statement[platform] : Configured(s)
=============================================================================
