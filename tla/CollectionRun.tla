--------------------------- MODULE CollectionRun ----------------------------
(***************************************************************************)
(* Collecting one device, and the page loop a collection reads a large     *)
(* rulebase with.                                                          *)
(***************************************************************************)
EXTENDS Integers, SequencesExt
-----------------------------------------------------------------------------
(***************************************************************************)
(* Collecting one device.  Credentials assigned to the device, then those  *)
(* its groups and their ancestors lend it, are tried until one is accepted; *)
(* the session it opens is asked for every entry of the platform's profile,*)
(* each passed by the read-only guard and recorded; what came back is      *)
(* evidence, partial where an entry failed.  The device may refuse, fail or *)
(* fall silent at every step.                                              *)
(***************************************************************************)

CONSTANTS
    Credential,
    Assignments,        \* the tables of assignments to explore
    Profiles            \* platforms' profiles to explore: their entries in order, and whether
                        \* the configuration is every answer together ("bundled") or one's

\* An assignment of a credential: to the device itself, or to one of its groups.
ASSUME CollectionAssumption ==
    /\ \A given \in Assignments : IsFiniteSet(given) /\ given \subseteq [cred : Credential, level : {"device", "group"}, priority : Nat]
    /\ Profiles \subseteq [entries : Seq([kind : {"setup", "config", "required", "data"}, allowed : BOOLEAN]), bundled : BOOLEAN]

VARIABLES
    profile,            \* the platform's
    assigned,           \* the assignments that reach the device
    fallback,           \* credentials not tried yet, in order
    session,            \* the session underway
    outcome,            \* "none", "succeeded", "partial", "auth_failed" or "failed"
    atDevice            \* history: API sessions open on the device and out of reach, the
                        \* credentials it was offered, whether it fell silent or was
                        \* asked too much, the entries answered well in this session

collectionVars == <<profile, assigned, fallback, session, outcome, atDevice>>

NoSession == [step |-> "idle", next |-> 1, config |-> {}, failures |-> {}]
-----------------------------------------------------------------------------
\* ORDER BY priority, in any order among equals.
Ordered(rows) == {s \in [1..Cardinality(rows) -> rows] :
                    /\ ToSet(s) = rows
                    /\ \A i, j \in DOMAIN s : i < j => s[i].priority <= s[j].priority}

AtLevel(given, level) == {row \in given : row.level = level}
Credentials(rows) == [i \in DOMAIN rows |-> rows[i].cred]

\* Of what the groups lend, each credential by its first assignment, unless the
\* device has it itself.
Lent(given) ==
    {row \in AtLevel(given, "group") : \A r \in given \ {row} : r.cred = row.cred => r.level = "group" /\ r.priority > row.priority}

\* resolve_for_device: the device's own first.
ResolveForDevice(given) ==
    {Credentials(rows.own) \o Credentials(rows.lent) :
        rows \in [own : Ordered(AtLevel(given, "device")), lent : Ordered(Lent(given))]}

CollectionInit ==
    /\ profile \in Profiles /\ assigned \in Assignments /\ fallback \in ResolveForDevice(assigned)
    /\ session = NoSession /\ outcome = IF fallback = <<>> THEN "auth_failed" ELSE "none"
    /\ atDevice = [open |-> 0, lost |-> 0, offered |-> <<>>, stopped |-> FALSE, answered |-> {}]
-----------------------------------------------------------------------------
\* Mutant: whatever goes wrong, the next credential is worth a try.
AfterError_Persists(error, left) == IF left = <<>> THEN "auth_failed" ELSE "none"

\* An authentication failure moves to the next credential; nothing else does.
AfterError(error, left) ==
    IF error # "auth" THEN "failed" ELSE IF left = <<>> THEN "auth_failed" ELSE "none"

\* _collect_with: connect and, over an API, log in.  (A credential of the wrong
\* kind for the platform ends the run like a device that is silent.)
Login ==
    /\ outcome = "none" /\ session.step = "idle"
    /\ fallback' = Tail(fallback)
    /\ LET offer == [atDevice EXCEPT !.offered = Append(@, Head(fallback)), !.answered = {}] IN
       \/ /\ atDevice' = [offer EXCEPT !.open = @ + 1] /\ UNCHANGED outcome
          /\ session' = [NoSession EXCEPT !.step = "pinning"]
       \/ \E error \in {"auth", "silence"} :
          /\ atDevice' = [offer EXCEPT !.stopped = error # "auth"]
          /\ outcome' = AfterError(error, fallback')
          /\ UNCHANGED session
    /\ UNCHANGED <<profile, assigned>>

\* The logout of a session whose collection began, in a finally.
Releases == session.step = "commands"

\* The session is left, at its end or by an error raised in it.
Leave(result, stopped) ==
    /\ outcome' = result /\ session' = NoSession
    /\ \E through \in BOOLEAN :
        /\ through => Releases
        /\ atDevice' = [atDevice EXCEPT !.open = IF through THEN @ - 1 ELSE @, !.stopped = @ \/ stopped,
                            !.lost = IF session.step = "pinning" \/ (Releases /\ ~through) THEN @ + 1 ELSE @]
    /\ UNCHANGED <<profile, assigned, fallback>>

\* The key or certificate of a first contact is pinned and flushed; where the
\* database fails there the session is closed without a logout.
Pin ==
    /\ session.step = "pinning"
    /\ \/ session' = [session EXCEPT !.step = "commands"] /\ UNCHANGED <<profile, assigned, fallback, outcome, atDevice>>
       \/ Leave("failed", TRUE)

Asked == profile.entries[session.next]

\* Mutant: an answer is an answer, whatever its status.
Keeps_Any(status, text) == [session EXCEPT
    !.next = @ + 1,
    !.config = IF (Asked.kind = "config" /\ text) \/ profile.bundled THEN @ \cup {session.next} ELSE @]

\* An answer with an error status is no setback to the walk, but a failure.
Keeps(status, text) == [session EXCEPT
    !.next = @ + 1,
    !.failures = IF Asked.kind # "setup" /\ status = "error" THEN @ \cup {session.next} ELSE @,
    !.config = IF IF profile.bundled THEN Asked.kind # "setup" /\ status = "ok" ELSE Asked.kind = "config" /\ text
               THEN @ \cup {session.next} ELSE @]

InProfile == session.step = "commands" /\ session.next <= Len(profile.entries)

\* The device answers, well or with an error status, with some text or none.
Issue ==
    /\ InProfile /\ Asked.allowed
    /\ \E status \in {"ok", "error"}, text \in BOOLEAN :
        /\ session' = Keeps(status, text)
        /\ atDevice' = IF status = "ok" THEN [atDevice EXCEPT !.answered = @ \cup {session.next}] ELSE atDevice
    /\ UNCHANGED <<profile, assigned, fallback, outcome>>

\* It answers that the session may not (HTTP 401, 403), or not at all.  What is
\* required ends the session; the rest is noted and passed over.
IssueFails ==
    /\ InProfile /\ Asked.allowed
    /\ IF Asked.kind \in {"config", "required"} THEN \E error \in {"auth", "silence"} : Leave(AfterError(error, fallback), error # "auth")
       ELSE /\ session' = [session EXCEPT !.next = @ + 1,
                                !.failures = IF Asked.kind = "data" THEN @ \cup {session.next} ELSE @]
            /\ UNCHANGED <<profile, assigned, fallback, outcome, atDevice>>

\* The guard refuses the entry: the collection stops, and sends nothing of it.
Refuse ==
    /\ InProfile /\ ~Asked.allowed
    /\ Leave("failed", TRUE)

\* The profile is through: without a configuration there is nothing to store.
Store ==
    /\ session.step = "commands" /\ session.next > Len(profile.entries)
    /\ Leave(IF session.config = {} THEN "failed" ELSE IF session.failures = {} THEN "succeeded" ELSE "partial", TRUE)

CollectionNext == Login \/ Pin \/ Issue \/ IssueFails \/ Refuse \/ Store

CollectionSpec == CollectionInit /\ [][CollectionNext]_collectionVars
-----------------------------------------------------------------------------
\* A collection that counts as complete has everything the profile asks for,
\* answered without an error in the one session that was stored, whatever the
\* sessions before it got.
CompleteIsComplete ==
    outcome = "succeeded" => \A i \in DOMAIN profile.entries : profile.entries[i].kind # "setup" => i \in atDevice.answered

\* Devices lock accounts and limit sessions: no credential is offered twice,
\* however many groups lend it, and none is lent before the device's own ran out.
\* (Two requests that overlap can assign a device one credential twice, since the
\* unique constraint counts rows without a group as different: that one is.)
EachIsOfferedOnce ==
    LET own == AtLevel(assigned, "device")
    IN  /\ \A i, j \in DOMAIN atDevice.offered :
            i # j /\ atDevice.offered[i] = atDevice.offered[j] => \E r, s \in own : r # s /\ r.cred = atDevice.offered[i] /\ s.cred = r.cred
        /\ \A i \in DOMAIN atDevice.offered :
            (\A r \in own : r.cred # atDevice.offered[i]) => \A r \in own : \E j \in 1 .. i - 1 : atDevice.offered[j] = r.cred

\* Nothing but a rejection leads to another attempt: not silence, a refusal of
\* the guard, a failing database, or success.
OnlyRejectionGoesOn == [][atDevice.stopped => UNCHANGED <<atDevice.offered, outcome>>]_collectionVars

\* No API session stays open behind a collection, however it ended, except
\* where its logout did not get through or the database failed in between.
NoSessionIsLeft == session.step = "idle" => atDevice.open <= atDevice.lost
\* What collecting does to a device: no attempt too many, no session left.
DevicesAreSpared == []EachIsOfferedOnce /\ []NoSessionIsLeft /\ OnlyRejectionGoesOn
-----------------------------------------------------------------------------
(***************************************************************************)
(* Reading a rulebase page by page.  A request names an offset; the server *)
(* answers with some of the rules after it, the position that took it to   *)
(* and the number of rules there are, unless it reports neither.           *)
(* The walk follows the server's position, and the parser compares   *)
(* what arrived with the total the first page announced.  The policy may   *)
(* be edited in the middle.                                                *)
(***************************************************************************)

CONSTANTS
    ServedRule,         \* rules of the policy
    MaxPages,           \* requests before the walk is given up
    MaxPolicyEdits,     \* bound: edits of the policy during the walk
    NotSaid             \* the server leaves a field out

ASSUME PagingAssumption == IsFiniteSet(ServedRule) /\ NotSaid \notin Nat

VARIABLES
    policy,             \* rules on the server, in order
    offset, pages, merged,
    announced,          \* the total of the first page, NotSaid from a server that never says
    walk,               \* "reading", "whole" or "refused"
    added, removed      \* history: rules inserted and deleted since the walk began

pagingVars == <<policy, offset, pages, merged, announced, walk, added, removed>>

PagingInit ==
    /\ policy = SetToSeq(ServedRule) /\ offset = 0 /\ pages = 0 /\ merged = <<>> /\ announced = NotSaid
    /\ walk = "reading" /\ added = {} /\ removed = {}

\* A server that is slow, or limits the page, may send few rules or none.  One
\* that reports its position and the total does so in every answer.
Answers ==
    {[rules |-> SubSeq(policy, offset + 1, to), total |-> total] :
        to \in offset .. Max({offset, Len(policy)}),
        total \in {t \in {NotSaid, Len(policy)} : pages > 0 => (t = NotSaid) = (announced = NotSaid)}}
Reached(page) == offset + Len(page.rules)

\* Mutant: an answer is progress whether or not the position moved.
AfterPage_Stall(page) ==
    IF page.total = NotSaid \/ Reached(page) >= page.total THEN "whole"
    ELSE IF pages + 1 = MaxPages THEN "whole" ELSE "reading"

\* A position that stands still, or a walk without end, is an error: what was
\* read so far is no rulebase.
AfterPage(page) ==
    IF page.total = NotSaid \/ Reached(page) >= page.total THEN "whole"
    ELSE IF Reached(page) <= offset \/ pages + 1 = MaxPages THEN "refused"
    ELSE "reading"

ReadPage ==
    /\ walk = "reading"
    /\ \E page \in Answers :
        /\ merged' = merged \o page.rules
        /\ announced' = IF pages = 0 THEN page.total ELSE announced
        /\ walk' = AfterPage(page)
        /\ offset' = IF walk' = "reading" THEN Reached(page) ELSE offset
    /\ pages' = pages + 1
    /\ UNCHANGED <<policy, added, removed>>

\* An administrator deletes a rule, or inserts one it had before.
EditPolicy ==
    /\ walk = "reading" /\ Cardinality(added) + Cardinality(removed) < MaxPolicyEdits
    /\ \/ \E i \in DOMAIN policy : policy' = RemoveAt(policy, i) /\ removed' = removed \cup {policy[i]} /\ UNCHANGED added
       \/ \E rule \in removed \ ToSet(policy), i \in 1 .. Len(policy) + 1 :
            policy' = InsertAt(policy, i, rule) /\ added' = added \cup {rule} /\ UNCHANGED removed
    /\ UNCHANGED <<offset, pages, merged, announced, walk>>

PagingNext == ReadPage \/ EditPolicy

PagingSpec == PagingInit /\ [][PagingNext]_pagingVars
-----------------------------------------------------------------------------
\* _record_shortfall: the parser has fewer rules than were announced.
ShortfallReported == announced # NotSaid /\ Len(merged) < announced

\* What a walk that ended calls the rulebase is the policy, however few rules
\* the server sends at a time and wherever it stops; and where rules were
\* deleted meanwhile, one that stood there from the first request to the last
\* is missing only if the shortfall is reported.  (An insertion can make up
\* the count again.)
NoSilentGap ==
    walk = "whole" /\ announced # NotSaid =>
        /\ removed = {} => merged = policy
        /\ added = {} => ToSet(policy) \subseteq ToSet(merged) \/ ShortfallReported
=============================================================================
