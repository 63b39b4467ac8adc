------------------------------ MODULE MCPlatform ------------------------------
(* The instances of what the platform itself rests on: one run explores   *)
(* each in turn.  They share no table a property speaks of, so `part` is  *)
(* chosen once and the others never move.                                 *)
EXTENDS AuditLog, Scheduler, Directory, HostPacer, CollectionRun, GraphCache, TLC

VARIABLE part

\* Hourly in UTC; and twice a day an hour east of it, once just before the blackout
\* there, once at an hour that only UTC reads as inside it.
MCCrons == {[at |-> {0, 1, 2}, zone |-> 0, out |-> {1}], [at |-> {0, 2}, zone |-> 1, out |-> {1}]}

\* Up to three assignments; two priorities at group level stand for two groups.
MCAssignments == {given \in SUBSET [cred : Credential, level : {"device", "group"}, priority : {1, 2}] : Cardinality(given) <= 3}

\* A command line with its configuration, one the guard stops, and an API.
Reads(kind) == [kind |-> kind, allowed |-> TRUE]
MCProfiles ==
    {[entries |-> <<Reads("setup"), Reads("config"), Reads("data"), Reads("data")>>, bundled |-> FALSE],
     [entries |-> <<Reads("data"), [kind |-> "data", allowed |-> FALSE]>>, bundled |-> FALSE],
     [entries |-> <<Reads("required"), Reads("data"), Reads("data")>>, bundled |-> TRUE]}

\* The instances share x and y.
Symmetric == Permutations(Content)
-----------------------------------------------------------------------------
MCInit ==
    /\ Init /\ SchedInit /\ GroupInit /\ AccountInit /\ PagingInit /\ PacerInit /\ CollectionInit /\ GraphInit
    /\ part \in {"audit", "schedules", "groups", "accounts", "paging", "pacing", "collection", "graph"}
    /\ part # "collection" => assigned = {} /\ Len(profile.entries) = 4

Others(name, unchanged) == part # name => unchanged

MCNext ==
    /\ UNCHANGED part
    /\ Others("audit", UNCHANGED vars) /\ Others("schedules", UNCHANGED schedVars)
    /\ Others("groups", UNCHANGED groupVars) /\ Others("accounts", UNCHANGED accountVars)
    /\ Others("paging", UNCHANGED pagingVars) /\ Others("pacing", UNCHANGED pacerVars)
    /\ Others("collection", UNCHANGED collectionVars) /\ Others("graph", UNCHANGED graphVars)
    /\ \/ part = "audit" /\ Next
       \/ part = "schedules" /\ SchedNext
       \/ part = "groups" /\ GroupNext
       \/ part = "accounts" /\ AccountNext
       \/ part = "paging" /\ PagingNext
       \/ part = "pacing" /\ PacerNext
       \/ part = "collection" /\ CollectionNext
       \/ part = "graph" /\ GraphNext

MCSpec == MCInit /\ [][MCNext]_<<part, vars, schedVars, groupVars, accountVars, pagingVars, pacerVars, collectionVars, graphVars>>
-----------------------------------------------------------------------------
\* What collections and scans promise about what they brought: no page is missed
\* without a remark, the pace towards a host is kept, and a collection called
\* complete brought every entry of its profile.
CollectionIsHonest == NoSilentGap /\ PaceIsKept /\ CompleteIsComplete
=============================================================================
