---------------------------- MODULE Notifications ----------------------------
(***************************************************************************)
(* Announcing exceptions that are about to expire, and delivering what is  *)
(* announced.  A pass of the notification job is one transaction: it scans *)
(* past a watermark on the expiry date, writes one delivery for each       *)
(* exception found, claims what is due with its row locks and sends it,    *)
(* backing off after a failure and giving up after the last attempt.  What *)
(* was sent stays sent when the transaction is undone.                     *)
(***************************************************************************)
EXTENDS Integers, SequencesExt, TLC

CONSTANTS
    Exception,
    Notifier,       \* transactions that run the job
    MaxAttempts,
    Backoff,        \* the wait after each failure but the last
    Window,         \* EXPIRY_WINDOW
    MaxNoteTime,    \* bound: time
    MaxPasses,      \* bound: passes begun
    MaxRequeues     \* bound: deliveries a person puts back

ASSUME NotificationAssumption ==
    /\ MaxAttempts \in Nat \ {0} /\ Window \in Nat /\ Backoff \in Seq(Nat) /\ Backoff # <<>>
    /\ MaxAttempts <= Len(Backoff) + 1 /\ IsFiniteSet(Exception) /\ 0 \notin Exception \cup Notifier

VARIABLES
    noteClock,
    granted,        \* when each exception was recorded, -1 before
    expires,        \* and when it ends
    horizon,        \* the watermark: the last expiry announced, -1 without one
    deliveries,     \* rows in the order of their insertion
    pass,
    crossed,        \* history: two passes overlapped
    passes, requeues

noteVars == <<noteClock, granted, expires, horizon, deliveries, pass, crossed, passes, requeues>>

NoRow == [about |-> 0, status |-> "none", attempts |-> 0, due |-> 0, since |-> 0, died |-> 0, by |-> 0]
Resting == [step |-> "none", moment |-> 0, floor |-> 0, found |-> {}, todo |-> <<>>, rows |-> {}, wrote |-> [i \in {} |-> NoRow], mark |-> -1]

NoteInit ==
    /\ noteClock = 0 /\ horizon = -1 /\ deliveries = <<>> /\ crossed = FALSE /\ passes = 0 /\ requeues = 0
    /\ granted = [e \in Exception |-> -1] /\ expires = [e \in Exception |-> 0]
    /\ pass = [n \in Notifier |-> Resting]

NoteTick == /\ noteClock < MaxNoteTime /\ noteClock' = noteClock + 1
            /\ UNCHANGED <<granted, expires, horizon, deliveries, pass, crossed, passes, requeues>>

\* create_exception: any date that is not past.
Grant(e) ==
    /\ granted[e] = -1 /\ granted' = [granted EXCEPT ![e] = noteClock]
    /\ \E end \in noteClock + 1 .. MaxNoteTime + Window : expires' = [expires EXCEPT ![e] = end]
    /\ UNCHANGED <<noteClock, horizon, deliveries, pass, crossed, passes, requeues>>
-----------------------------------------------------------------------------
\* Recorded exceptions between the watermark and the window's end, whatever
\* became of them.
Expiring(floor) == {e \in Exception : granted[e] # -1 /\ expires[e] \in floor + 1 .. noteClock + Window}

\* Mutant: the watermark is left at the end of the window.
LastExpiry_Window(found) == noteClock + Window + 1

LastExpiry(found) == Max({expires[e] : e \in found})

\* A pass that has scanned.
Scanned(found) ==
    [step |-> IF found = {} THEN "claim" ELSE "raise", moment |-> noteClock, floor |-> horizon, found |-> found,
     todo |-> <<>>, rows |-> {}, wrote |-> [i \in {} |-> NoRow], mark |-> IF found = {} THEN -1 ELSE LastExpiry(found)]

\* _expiring: without a watermark the search begins now.
ScanExceptions(n) ==
    /\ pass[n].step = "none" /\ passes < MaxPasses /\ passes' = passes + 1
    /\ pass' = [pass EXCEPT ![n] = Scanned(Expiring(IF horizon = -1 THEN noteClock ELSE horizon))]
    /\ crossed' = (crossed \/ \E m \in Notifier \ {n} : pass[m].step # "none")
    /\ UNCHANGED <<noteClock, granted, expires, horizon, deliveries, requeues>>

\* The watermark's row: written by one pass at a time, inserted by one only
\* (the other's insert fails: Undo).
MarkIsFree(n) ==
    /\ \A m \in Notifier \ {n} : pass[m].step \in {"claim", "send"} => pass[m].mark = -1
    /\ pass[n].floor = -1 => horizon = -1

\* raise_event, once for each; the new rows are due at once.
Raise(n) ==
    /\ pass[n].step = "raise" /\ MarkIsFree(n)
    /\ deliveries' = deliveries \o SetToSeq({[NoRow EXCEPT !.about = e, !.status = "queued", !.due = noteClock,
                                                          !.since = noteClock, !.by = n] : e \in pass[n].found})
    /\ pass' = [pass EXCEPT ![n].step = "claim"]
    /\ UNCHANGED <<noteClock, granted, expires, horizon, crossed, passes, requeues>>

Taken(i, n) == \E m \in Notifier \ {n} : i \in pass[m].rows

\* Due rows that are committed or its own, and not held (SKIP LOCKED).
DueRows(n) == {i \in DOMAIN deliveries : /\ deliveries[i].status \in {"queued", "retrying"} /\ deliveries[i].due <= noteClock
                                     /\ deliveries[i].by \in {0, n} /\ ~Taken(i, n)}

ClaimDue(n) ==
    /\ pass[n].step = "claim"
    /\ pass' = [pass EXCEPT ![n].step = "send", ![n].todo = SetToSeq(DueRows(n)), ![n].rows = DueRows(n)]
    /\ UNCHANGED <<noteClock, granted, expires, horizon, deliveries, crossed, passes, requeues>>

\* BACKOFF has an entry for every attempt but the last, MAX_ATTEMPTS ends it.
AfterFailure(row) ==
    IF row.attempts >= MaxAttempts THEN [row EXCEPT !.status = "dead", !.died = noteClock]
    ELSE [row EXCEPT !.status = "retrying", !.due = noteClock + Backoff[Min({row.attempts, Len(Backoff)})]]

Dispatched(row, ok) ==
    LET tried == [row EXCEPT !.attempts = @ + 1] IN IF ok THEN [tried EXCEPT !.status = "sent"] ELSE AfterFailure(tried)

\* The rows a pass has written, with one more.
Updated(wrote, i, row) == [j \in DOMAIN wrote \cup {i} |-> IF j = i THEN row ELSE wrote[j]]

Send(n, ok) ==
    /\ pass[n].step = "send" /\ pass[n].todo # <<>>
    /\ LET i == Head(pass[n].todo)
       IN pass' = [pass EXCEPT ![n].todo = Tail(@), ![n].wrote = Updated(@, i, Dispatched(deliveries[i], ok))]
    /\ UNCHANGED <<noteClock, granted, expires, horizon, deliveries, crossed, passes, requeues>>

CommitPass(n) ==
    /\ pass[n].step = "send" /\ pass[n].todo = <<>>
    /\ deliveries' = [i \in DOMAIN deliveries |->
         LET row == IF i \in DOMAIN pass[n].wrote THEN pass[n].wrote[i] ELSE deliveries[i]
         IN IF row.by = n THEN [row EXCEPT !.by = 0] ELSE row]
    /\ horizon' = IF pass[n].mark = -1 THEN horizon ELSE pass[n].mark
    /\ pass' = [pass EXCEPT ![n] = Resting]
    /\ UNCHANGED <<noteClock, granted, expires, crossed, passes, requeues>>

UndoPass(n) ==
    /\ pass[n].step # "none" /\ pass' = [pass EXCEPT ![n] = Resting]
    /\ deliveries' = [i \in DOMAIN deliveries |-> IF deliveries[i].by = n THEN NoRow ELSE deliveries[i]]
    /\ UNCHANGED <<noteClock, granted, expires, horizon, crossed, passes, requeues>>

\* A person puts a delivery back, whatever its status.
Requeue(i) ==
    /\ requeues < MaxRequeues /\ requeues' = requeues + 1
    /\ deliveries[i].status # "none" /\ deliveries[i].by = 0 /\ \A n \in Notifier : i \notin pass[n].rows
    /\ deliveries' = [deliveries EXCEPT ![i] = [@ EXCEPT !.status = "queued", !.attempts = 0, !.due = noteClock,
                                                         !.since = noteClock]]
    /\ UNCHANGED <<noteClock, granted, expires, horizon, pass, crossed, passes>>

NoteNext ==
    \/ NoteTick
    \/ \E e \in Exception : Grant(e)
    \/ \E n \in Notifier : ScanExceptions(n) \/ Raise(n) \/ ClaimDue(n) \/ CommitPass(n) \/ UndoPass(n)
                           \/ \E ok \in BOOLEAN : Send(n, ok)
    \/ \E i \in DOMAIN deliveries : Requeue(i)

NoteSpec == NoteInit /\ [][NoteNext]_noteVars
-----------------------------------------------------------------------------
Announced(e) == {i \in DOMAIN deliveries : deliveries[i].about = e /\ deliveries[i].by = 0}

\* An exception has one delivery, however passes fail and follow one another.
\* (Two passes side by side both announce what they find.)
AnnouncedOnce == ~crossed => \A e \in Exception : Cardinality(Announced(e)) <= 1

\* An exception recorded more than a window ahead of its end has been announced
\* by the time the watermark reaches that end, unless the end came first: in
\* whatever order exceptions are granted, and whichever passes fail or overlap.
LongGrantsAreAnnounced ==
    [][\A n \in Notifier : CommitPass(n) =>
          \A e \in Exception :
              granted[e] # -1 /\ expires[e] > granted[e] + Window /\ expires[e] \in noteClock + 1 .. horizon' =>
                  \E i \in DOMAIN deliveries' : deliveries'[i].about = e]_noteVars

\* A delivery whose row says sent, or dead, was claimed by nobody since: no
\* pass sends it again, whichever passes ran beside the one that settled it.
SettledStaysSilent ==
    [][\A n \in Notifier, ok \in BOOLEAN :
          Send(n, ok) => deliveries[Head(pass[n].todo)].status \in {"queued", "retrying"}]_noteVars

\* The waits after so many failures, together.
Waited[k \in 0 .. Len(Backoff)] == IF k = 0 THEN 0 ELSE Waited[k - 1] + Backoff[k]

\* A delivery is given up only after the whole back-off, so that a receiver who
\* is back by then is told.
DeadWaitedItsTurn ==
    \A i \in DOMAIN deliveries : deliveries[i].status = "dead" =>
        deliveries[i].died - deliveries[i].since >= Waited[MaxAttempts - 1]
-----------------------------------------------------------------------------
\* An exception that is about to end is announced, and once; a delivery is tried for
\* as long as it was promised, and not after.
AnnouncementsSettle ==
    []AnnouncedOnce /\ LongGrantsAreAnnounced /\ []DeadWaitedItsTurn /\ SettledStaysSilent
=============================================================================
