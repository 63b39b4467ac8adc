------------------------------- MODULE MCReview -------------------------------
(* The instances of what analysts review: findings and their snapshots,    *)
(* feeds, discovered hosts, notifications, devices recorded from others,   *)
(* policies, and what the pages and reports make of all that.              *)
(* One run explores each in turn; they share no table a property speaks    *)
(* of, so `part` is chosen once and the others never move.                 *)
EXTENDS FindingLifecycle, Feeds, DiscoveryReview, Notifications, DerivedDevices, Policies, Posture, TLC

VARIABLE part

\* Configuration a fails the check and runs an outdated cycle; b passes, on
\* another cycle.
MCVerdict == [c \in Config |->
                [check |-> IF c = "a" THEN "fail" ELSE "pass", cycle |-> IF c = "a" THEN "fail" ELSE "silent"]]
MCBackoff == <<1>>

\* One device weighs most and one least; what weighs 20 at the most important
\* device is of the first priority, what weighs 40 at the other of the second.
MCCriticality == [b \in Box |-> IF b = "a" THEN 15 ELSE 8]
MCWeight == [p \in Problem |-> IF p \in Match THEN 40 ELSE 20]

\* The instances share their model values.
Symmetric == Permutations(Run) \cup Permutations(Cve)
-----------------------------------------------------------------------------
MCInit ==
    /\ FindingInit /\ FeedInit /\ DiscoveryInit /\ NoteInit /\ DerivedInit
    /\ PolicyInit /\ PostureInit
    /\ part \in {"findings", "feeds", "discovery", "notifications", "derived", "policies", "posture"}
    /\ part # "findings" => config = "a"

MCNext ==
    /\ UNCHANGED part
    /\ part # "findings" => UNCHANGED findingVars
    /\ part # "feeds" => UNCHANGED feedVars
    /\ part # "discovery" => UNCHANGED discoveryVars
    /\ part # "notifications" => UNCHANGED noteVars
    /\ part # "derived" => UNCHANGED derivedVars
    /\ part # "policies" => UNCHANGED policyVars
    /\ part # "posture" => UNCHANGED postureVars
    /\ \/ part = "findings" /\ FindingNext
       \/ part = "feeds" /\ FeedNext
       \/ part = "discovery" /\ DiscoveryNext
       \/ part = "notifications" /\ NoteNext
       \/ part = "derived" /\ DerivedNext
       \/ part = "policies" /\ PolicyNext
       \/ part = "posture" /\ PostureNext

MCSpec ==
    MCInit /\ [][MCNext]_<<part, findingVars, feedVars, discoveryVars, noteVars, derivedVars, policyVars, postureVars>>
-----------------------------------------------------------------------------
\* The properties of two parts, asked in their own behaviours.  Policies: requests
\* for the default that do not overlap leave one, and a finding is opened or
\* closed only by what governs its device and is not excused.
PoliciesGovern == [][part = "policies" => PolicyStep]_policyVars

\* Posture: series tell what happened, scores do not reward ignorance, and pages
\* over one table agree.
PostureIsTrue == part = "posture" => PostureHolds
=============================================================================
