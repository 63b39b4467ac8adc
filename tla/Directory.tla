----------------------------- MODULE Directory ------------------------------
(***************************************************************************)
(* Who may see and administer what: the tree of device groups and the      *)
(* administrators, both written by requests that overlap.                  *)
(***************************************************************************)
EXTENDS Integers, SequencesExt, FiniteSets
-----------------------------------------------------------------------------
(***************************************************************************)
(* The tree of device groups, on which a group-scoped user's view rests.   *)
(* Each row holds its parent and, as an ltree path, all its ancestors; a   *)
(* move rewrites the paths below it.  A request reads, writes what changed *)
(* and commits; requests overlap, and nothing locks a group before it is   *)
(* written.                                                                *)
(***************************************************************************)

CONSTANTS
    Group,
    GroupRequest,   \* transactions of API requests
    NoGroup,
    MaxMoves        \* bound: requests

ASSUME GroupAssumption == NoGroup \notin Group

VARIABLES
    parent,         \* of each group, NoGroup at the top
    path,           \* of each group, <<>> before it exists
    pending,        \* what each request is about to write
    mixed,          \* history: two requests overlapped
    moves

groupVars == <<parent, path, pending, mixed, moves>>

NoWrite == [on |-> FALSE, group |-> NoGroup, parent |-> NoGroup, paths |-> [g \in {} |-> <<>>]]

GroupInit == /\ parent = [g \in Group |-> NoGroup] /\ path = [g \in Group |-> <<>>]
             /\ pending = [r \in GroupRequest |-> NoWrite] /\ mixed = FALSE /\ moves = 0

Exists(g) == path[g] # <<>>

\* _path_for
PathFor(g, p) == (IF p = NoGroup THEN <<>> ELSE path[p]) \o <<g>>

Writes(r, g, p, paths) ==
    /\ ~pending[r].on /\ moves < MaxMoves /\ moves' = moves + 1
    /\ pending' = [pending EXCEPT ![r] = [on |-> TRUE, group |-> g, parent |-> p, paths |-> paths]]
    /\ mixed' = (mixed \/ \E q \in GroupRequest \ {r} : pending[q].on)
    /\ UNCHANGED <<parent, path>>

CreateGroup(r, g, p) ==
    /\ ~Exists(g) /\ (\A q \in GroupRequest : pending[q].group # g) /\ (p # NoGroup => Exists(p))
    /\ Writes(r, g, p, [h \in {g} |-> PathFor(g, p)])

\* The new parent lies beneath the group.
Beneath(p, g) == p # NoGroup /\ IsPrefix(path[g], path[p])

\* Every path that began with the old one begins with the new one.
Rewritten(g, new) ==
    [h \in {h \in Group : Exists(h) /\ IsPrefix(path[g], path[h])} |->
        new \o SubSeq(path[h], Len(path[g]) + 1, Len(path[h]))]

MoveGroup(r, g, p) ==
    /\ Exists(g) /\ (p # NoGroup => Exists(p)) /\ ~Beneath(p, g)
    /\ Writes(r, g, p, Rewritten(g, PathFor(g, p)))

\* The rows are written as they were computed.
CommitMove(r) ==
    /\ pending[r].on
    /\ parent' = [parent EXCEPT ![pending[r].group] = pending[r].parent]
    /\ path' = [g \in Group |-> IF g \in DOMAIN pending[r].paths THEN pending[r].paths[g] ELSE path[g]]
    /\ pending' = [pending EXCEPT ![r] = NoWrite]
    /\ UNCHANGED <<mixed, moves>>

\* Two moves that wait for each other's rows: one is undone.
UndoMove(r) == /\ pending[r].on /\ pending' = [pending EXCEPT ![r] = NoWrite]
               /\ UNCHANGED <<parent, path, mixed, moves>>

GroupNext == \E r \in GroupRequest :
    \/ CommitMove(r) \/ UndoMove(r)
    \/ \E g \in Group, p \in Group \cup {NoGroup} : CreateGroup(r, g, p) \/ MoveGroup(r, g, p)

GroupSpec == GroupInit /\ [][GroupNext]_groupVars
-----------------------------------------------------------------------------
\* Every path is its parent's path and the group itself, after whatever moves
\* that did not overlap.  So whoever holds a group sees it, all below it and
\* nothing else (_apply_scope compares paths), and no group is its own ancestor.
PathsFollowParents == ~mixed => \A g \in Group : Exists(g) => path[g] = PathFor(g, parent[g])
-----------------------------------------------------------------------------
(***************************************************************************)
(* User administration: creating, deactivating, deleting users and setting *)
(* their roles, by administrators whose requests overlap.  The request of  *)
(* an administrator checks the state it reads and commits later.           *)
(***************************************************************************)

CONSTANTS
    Account,
    Founder,            \* the administrator made on the command line
    MaxAccountSteps     \* bound: requests

ASSUME AccountAssumption == Founder \in Account

VARIABLES
    account,            \* "none", "active" or "inactive"
    super,              \* accounts holding SUPER_ADMIN
    request,            \* what each administrator is about to commit
    overlapped,         \* history: two requests overlapped
    accountSteps

accountVars == <<account, super, request, overlapped, accountSteps>>

NoRequest == [does |-> "nothing", to |-> {}]

AccountInit ==
    /\ account = [a \in Account |-> IF a = Founder THEN "active" ELSE "none"] /\ super = {Founder}
    /\ request = [a \in Account |-> NoRequest] /\ overlapped = FALSE /\ accountSteps = 0

\* Mutant: accounts that cannot sign in count as well.
OthersRemain_Inactive(a) == super \ {a} # {}

\* _assert_not_last_super_admin counts the other active ones.
OthersRemain(a) == \E b \in super \ {a} : account[b] = "active"

RemovalAllowed(a) == a \in super => OthersRemain(a)

\* The request is made by an active administrator and passes its checks.
Asks(by, does, a) ==
    /\ account[by] = "active" /\ by \in super /\ request[by] = NoRequest /\ accountSteps < MaxAccountSteps
    /\ request' = [request EXCEPT ![by] = [does |-> does, to |-> {a}]]
    /\ overlapped' = (overlapped \/ \E b \in Account : request[b] # NoRequest)
    /\ accountSteps' = accountSteps + 1
    /\ UNCHANGED <<account, super>>

AskCreate(by, a) == account[a] = "none" /\ Asks(by, "create", a)
AskActivate(by, a) == account[a] = "inactive" /\ Asks(by, "activate", a)
AskDeactivate(by, a) == account[a] = "active" /\ a # by /\ RemovalAllowed(a) /\ Asks(by, "deactivate", a)
AskDelete(by, a) == account[a] # "none" /\ a # by /\ RemovalAllowed(a) /\ Asks(by, "delete", a)
AskGrant(by, a) == account[a] # "none" /\ a \notin super /\ Asks(by, "grant", a)
AskRevoke(by, a) == a \in super /\ RemovalAllowed(a) /\ Asks(by, "revoke", a)

\* A user that is gone by now makes the request fail.
Commits(by) ==
    /\ request[by] # NoRequest
    /\ LET does == request[by].does
           to == {a \in request[by].to : does = "create" \/ account[a] # "none"}
       IN /\ account' = [a \in Account |->
                IF a \notin to THEN account[a]
                ELSE CASE does \in {"create", "activate"} -> "active"
                       [] does = "deactivate" -> "inactive"
                       [] does = "delete" -> "none"
                       [] OTHER -> account[a]]
          /\ super' = IF does = "grant" THEN super \cup to ELSE IF does \in {"revoke", "delete"} THEN super \ to ELSE super
    /\ request' = [request EXCEPT ![by] = NoRequest]
    /\ UNCHANGED <<overlapped, accountSteps>>

AccountNext == \E by \in Account :
    \/ Commits(by)
    \/ \E a \in Account : \/ AskCreate(by, a) \/ AskActivate(by, a) \/ AskDeactivate(by, a)
                          \/ AskDelete(by, a) \/ AskGrant(by, a) \/ AskRevoke(by, a)

AccountSpec == AccountInit /\ [][AccountNext]_accountVars
-----------------------------------------------------------------------------
\* Whatever administrators do to each other and to themselves, one active
\* super administrator remains, as long as their requests do not overlap.
OneAdministratorRemains == ~overlapped => \E a \in super : account[a] = "active"

\* After any sequence of requests that do not overlap every group's path is that of
\* its parents, and someone who may administer remains.
DirectoryHolds == PathsFollowParents /\ OneAdministratorRemains
=============================================================================
