---------------------------- MODULE SchedulerProofs ----------------------------
(***************************************************************************)
(* Machine-checked proofs about Scheduler, for any number of scheduler     *)
(* processes, requests and schedules and any set of definitions: a tick    *)
(* runs only what stands in the table while it is locked, and only at a    *)
(* time the schedule was promised.                                         *)
(***************************************************************************)
EXTENDS Scheduler, WellFoundedInduction, TLAPS

----------------------------------------------------------------------------
(* The inductive invariant *)

\* A row nobody has locked has one version.
RowAgrees == \A s \in Schedule : rowLock[s] = NoHolder => wrow[s] = row[s]

\* What a tick still has to fire it has locked and not written, and it stands
\* committed as live, enabled and due.
Held ==
    \A p \in Proc :
        /\ pc[p] # "fire" => due[p] = {}
        /\ \A s \in due[p] : /\ rowLock[s] = p /\ wrow[s] = row[s]
                             /\ row[s].live /\ row[s].enabled /\ row[s].next \in 1..moment[p]

\* The next run of a schedule that was not edited since it last ran is one of its
\* occurrences, outside its blackout, and later than that run.
Promise(r) ==
    ~r.edited /\ r.next > 0 =>
        /\ r.next > r.last /\ Occurs(r.def, r.next)
        /\ ~Blocked(r.def, r.next, r.def.zone)

Promised == \A s \in Schedule : Promise(row[s]) /\ Promise(wrow[s])

SInv == ScheduleTypeOK /\ RowAgrees /\ Held /\ Promised

----------------------------------------------------------------------------
(* Occurrences *)

\* A set of times has a first one.
LEMMA FirstTime ==
    ASSUME NEW S, S \subseteq Nat, S # {}
    PROVE  \E m \in S : \A x \in S : m <= x
<1>1. PICK m \in S : \A y \in S : ~ (<<y, m>> \in OpToRel(<, Nat))
  BY NatLessThanWellFounded, WFMin, Zenon
<1>2. ASSUME NEW x \in S PROVE m <= x
  <2>1. ~ (x < m) /\ x \in Nat /\ m \in Nat
    BY <1>1 DEF OpToRel
  <2> QED BY <2>1
<1> QED BY <1>2

\* The horizon is a number of hours.
LEMMA HorizonType == Horizon \in Nat
<1>1. Day \in Nat /\ MaxSkips \in Nat
  BY SchedulerAssumption DEF SchedulerAssumption
<1>2. \A a, b \in Nat : a * b \in Nat
  OBVIOUS
<1> QED BY <1>1, <1>2 DEF Horizon

\* The next occurrence, if there is one, is an occurrence after the time it was
\* asked for, within the horizon and outside the blackout.
LEMMA NextIsOpen ==
    ASSUME NEW d \in Cron, NEW after \in Nat
    PROVE  /\ NextOccurrence(d, after) \in 0..(after + Horizon)
           /\ NextOccurrence(d, after) > 0 =>
                /\ NextOccurrence(d, after) > after
                /\ Occurs(d, NextOccurrence(d, after))
                /\ ~Blocked(d, NextOccurrence(d, after), d.zone)
<1> DEFINE open == Open(d, after)
<1>1. /\ \A t \in open : /\ t \in (after + 1)..(after + Horizon)
                         /\ Occurs(d, t) /\ ~Blocked(d, t, d.zone)
  BY DEF Open, Candidates
<1>2. NextOccurrence(d, after) =
        IF open = {} THEN 0 ELSE CHOOSE t \in open : \A u \in open : t <= u
  BY DEF NextOccurrence
<1>3. CASE open = {}
  BY <1>2, <1>3, HorizonType
<1>4. CASE open # {}
  <2>1. open \subseteq Nat
    BY <1>1, HorizonType
  <2> HIDE DEF open
  <2>2. NextOccurrence(d, after) \in open
    BY <1>2, <1>4, <2>1, FirstTime
  <2>3. NextOccurrence(d, after) \in (after + 1)..(after + Horizon)
    BY <1>1, <2>2
  <2> QED BY <1>1, <2>2, <2>3, HorizonType
<1> QED BY <1>3, <1>4

----------------------------------------------------------------------------
(* Rows *)

\* What the invariant asks of every version of a row.
Fit(r) == r \in Row /\ Promise(r)

\* A row that was never created promises nothing.
LEMMA BlankFits == Fit(Blank)
<1>1. (CHOOSE d \in Cron : TRUE) \in Cron
  BY SchedulerAssumption DEF SchedulerAssumption
<1>2. MaxTime \in Nat /\ Horizon \in Nat
  BY SchedulerAssumption, HorizonType DEF SchedulerAssumption
<1> DEFINE d0 == CHOOSE d \in Cron : TRUE
<1>3. Blank = [live |-> FALSE, def |-> d0, enabled |-> FALSE, next |-> 0, last |-> 0,
               job |-> 0, owner |-> NoUser, edited |-> FALSE] /\ d0 \in Cron
  BY <1>1 DEF Blank
<1> HIDE DEF d0
<1> QED BY <1>2, <1>3 DEF Fit, Row, Promise

\* A new row promises the next occurrence.
LEMMA CreatedFits ==
    ASSUME NEW d \in Cron, NEW on \in BOOLEAN, NEW u \in User, NEW now \in 1..MaxTime
    PROVE  Fit([Blank EXCEPT !.live = TRUE, !.def = d, !.enabled = on, !.owner = u,
                             !.next = NextOccurrence(d, now)])
<1> DEFINE n == NextOccurrence(d, now)
           r == [Blank EXCEPT !.live = TRUE, !.def = d, !.enabled = on, !.owner = u, !.next = n]
<1>1. Blank \in Row /\ Blank.last = 0 /\ Blank.edited = FALSE
  BY BlankFits DEF Fit, Blank
<1>2. /\ n \in 0..(MaxTime + Horizon)
      /\ n > 0 => n > now /\ Occurs(d, n) /\ ~Blocked(d, n, d.zone)
  <2>1. now \in Nat /\ now <= MaxTime /\ MaxTime \in Nat /\ Horizon \in Nat
    BY SchedulerAssumption, HorizonType DEF SchedulerAssumption
  <2>2. /\ n \in 0..(now + Horizon)
        /\ n > 0 => n > now /\ Occurs(d, n) /\ ~Blocked(d, n, d.zone)
    BY <2>1, NextIsOpen
  <2> HIDE DEF n
  <2> QED BY <2>1, <2>2
<1> HIDE DEF n
<1>3. r \in Row
  BY <1>1, <1>2 DEF Row
<1>4. r.next = n /\ r.def = d /\ r.last = 0
  BY <1>1 DEF Row
<1>5. Promise(r)
  BY <1>2, <1>4, SchedulerAssumption DEF Promise, SchedulerAssumption
<1> QED BY <1>3, <1>5 DEF Fit, n

\* What fire() leaves in a row promises the next occurrence after this tick.
LEMMA FiredFits ==
    ASSUME NEW r \in Row, NEW m \in 0..MaxTime, NEW made \in BOOLEAN
    PROVE  Fit(Fired(r, m, made))
<1> DEFINE n == NextOccurrence(r.def, m)
           f == [r EXCEPT !.last = m, !.job = IF made THEN 1 + (r.job % 2) ELSE r.job, !.next = n,
                          !.enabled = r.enabled /\ n # 0, !.edited = FALSE]
<1>1. r.def \in Cron /\ r.job \in 0..2 /\ r.enabled \in BOOLEAN
  BY DEF Row
<1>2. /\ n \in 0..(MaxTime + Horizon)
      /\ n > 0 => n > m /\ Occurs(r.def, n) /\ ~Blocked(r.def, n, r.def.zone)
  <2>1. m \in Nat /\ m <= MaxTime /\ MaxTime \in Nat /\ Horizon \in Nat
    BY SchedulerAssumption, HorizonType DEF SchedulerAssumption
  <2>2. /\ n \in 0..(m + Horizon)
        /\ n > 0 => n > m /\ Occurs(r.def, n) /\ ~Blocked(r.def, n, r.def.zone)
    BY <1>1, <2>1, NextIsOpen
  <2> HIDE DEF n
  <2> QED BY <2>1, <2>2
<1>3. Fired(r, m, made) = f
  BY DEF Fired
<1> HIDE DEF n
<1>4. f \in Row
  <2>1. (IF made THEN 1 + (r.job % 2) ELSE r.job) \in 0..2
    BY <1>1
  <2>2. (r.enabled /\ n # 0) \in BOOLEAN
    OBVIOUS
  <2> QED BY <1>2, <2>1, <2>2 DEF Row
<1>5. f.next = n /\ f.def = r.def /\ f.last = m
  BY DEF Row
<1>6. Promise(f)
  BY <1>2, <1>5 DEF Promise
<1> QED BY <1>3, <1>4, <1>6 DEF Fit

----------------------------------------------------------------------------
(* What a step keeps *)

RowsFit == /\ row \in [Schedule -> Row] /\ wrow \in [Schedule -> Row]
           /\ rowLock \in [Schedule -> Holder \cup {NoHolder}]
           /\ RowAgrees /\ Promised

\* No process is a request, and nobody is no one.
LEMMA HoldersDiffer ==
    /\ \A p \in Proc : p # NoHolder /\ p \in Holder /\ p \notin Editor
    /\ \A e \in Editor : e # NoHolder /\ e \in Holder /\ e \notin Proc
BY SchedulerAssumption DEF SchedulerAssumption, Holder

\* A transaction that ends publishes or forgets what it wrote, frees its rows, and
\* touches no row another has locked.
LEMMA EndKeepsRows ==
    ASSUME RowsFit, NEW t \in Holder, Publish(t) \/ Revert(t)
    PROVE  /\ RowsFit'
           /\ \A s \in Schedule : rowLock[s] \notin {t, NoHolder} =>
                  rowLock'[s] = rowLock[s] /\ row'[s] = row[s] /\ wrow'[s] = wrow[s]
<1>0. t # NoHolder
  BY HoldersDiffer DEF Holder
<1>1. rowLock' = Free(t)
  BY DEF Publish, Revert
<1>2. /\ rowLock' \in [Schedule -> Holder \cup {NoHolder}]
      /\ \A s \in Schedule : rowLock'[s] = IF rowLock[s] = t THEN NoHolder ELSE rowLock[s]
  BY <1>1 DEF Free, RowsFit
<1>3. /\ row' \in [Schedule -> Row] /\ wrow' \in [Schedule -> Row]
      /\ \A s \in Schedule : /\ row'[s] \in {row[s], wrow[s]} /\ wrow'[s] \in {row[s], wrow[s]}
                             /\ rowLock[s] = t => row'[s] = wrow'[s]
                             /\ rowLock[s] # t => row'[s] = row[s] /\ wrow'[s] = wrow[s]
  <2>1. CASE Publish(t)
    BY <2>1 DEF Publish, RowsFit
  <2>2. CASE Revert(t)
    BY <2>2 DEF Revert, RowsFit
  <2> QED BY <2>1, <2>2
<1>4. RowAgrees'
  BY <1>2, <1>3 DEF RowsFit, RowAgrees
<1>5. Promised'
  BY <1>3 DEF RowsFit, Promised
<1> QED BY <1>2, <1>3, <1>4, <1>5 DEF RowsFit

\* A tick that has not ended keeps what it has to fire while nobody touches its rows.
LEMMA HeldKept ==
    ASSUME Held, NEW p \in Proc,
           due'[p] \subseteq due[p], moment'[p] = moment[p],
           pc'[p] # "fire" => due'[p] = {},
           \A s \in due'[p] : /\ rowLock'[s] = rowLock[s]
                              /\ row'[s] = row[s] /\ wrow'[s] = wrow[s]
    PROVE  /\ pc'[p] # "fire" => due'[p] = {}
           /\ \A s \in due'[p] :
                /\ rowLock'[s] = p /\ wrow'[s] = row'[s]
                /\ row'[s].live /\ row'[s].enabled /\ row'[s].next \in 1..moment'[p]
<1> SUFFICES ASSUME NEW s \in due'[p]
             PROVE  /\ rowLock'[s] = p /\ wrow'[s] = row'[s]
                    /\ row'[s].live /\ row'[s].enabled /\ row'[s].next \in 1..moment'[p]
  OBVIOUS
<1>1. s \in due[p]
  OBVIOUS
<1>2. /\ rowLock[s] = p /\ wrow[s] = row[s]
      /\ row[s].live /\ row[s].enabled /\ row[s].next \in 1..moment[p]
  BY <1>1 DEF Held
<1> QED BY <1>2

\* The end of a transaction keeps what the ticks still running hold.
LEMMA EndKeepsHeld ==
    ASSUME RowsFit, Held, NEW t \in Holder, Publish(t) \/ Revert(t),
           UNCHANGED moment, due \in [Proc -> SUBSET Schedule],
           \A p \in Proc : IF p = t THEN due'[p] = {} ELSE due'[p] = due[p] /\ pc'[p] = pc[p]
    PROVE  Held'
<1>1. ASSUME NEW p \in Proc
      PROVE  /\ pc'[p] # "fire" => due'[p] = {}
             /\ \A s \in due'[p] :
                  /\ rowLock'[s] = p /\ wrow'[s] = row'[s]
                  /\ row'[s].live /\ row'[s].enabled /\ row'[s].next \in 1..moment'[p]
  <2>1. CASE p = t
    BY <2>1
  <2>2. CASE p # t
    <3>1. due'[p] = due[p] /\ pc'[p] = pc[p] /\ due[p] \subseteq Schedule
      BY <2>2
    <3>2. ASSUME NEW s \in due[p]
          PROVE  rowLock'[s] = rowLock[s] /\ row'[s] = row[s] /\ wrow'[s] = wrow[s]
      <4>1. rowLock[s] = p /\ s \in Schedule
        BY <3>1 DEF Held
      <4> QED BY <2>2, <4>1, EndKeepsRows, HoldersDiffer
    <3>3. pc[p] # "fire" => due[p] = {}
      BY DEF Held
    <3> QED BY <3>1, <3>2, <3>3, HeldKept
  <2> QED BY <2>1, <2>2
<1> QED BY <1>1 DEF Held

----------------------------------------------------------------------------
(* The steps of a tick *)

Others == /\ clock \in 1..MaxTime
          /\ audit \in Holder \cup {NoHolder} /\ users \subseteq User
          /\ pc \in [Proc -> {"idle", "claim", "fire"}]
          /\ moment \in [Proc -> 0..MaxTime] /\ due \in [Proc -> SUBSET Schedule]
          /\ ed \in [Editor -> [pc : {"idle", "write", "commit", "delete"}, s : Schedule,
                                seen : Row, new : Row]]
          /\ crashes \in 0..MaxCrashes /\ edits \in 0..MaxEdits

\* The invariant in three parts.
LEMMA Parts == SInv <=> RowsFit /\ Others /\ Held
BY DEF SInv, RowsFit, Others, ScheduleTypeOK

\* Beginning a tick notes the time.
LEMMA BeginTickStep == ASSUME SInv, NEW p \in Proc, BeginTick(p) PROVE SInv'
<1>0. RowsFit /\ Others /\ Held
  BY Parts
<1>1. RowsFit'
  BY <1>0 DEF BeginTick, table, RowsFit, RowAgrees, Promised
<1>2. Others'
  <2>1. clock \in 0..MaxTime
    BY <1>0, SchedulerAssumption DEF SchedulerAssumption, Others
  <2> QED BY <1>0, <2>1 DEF BeginTick, table, Others
<1>3. Held'
  <2>1. /\ UNCHANGED <<row, wrow, rowLock, due>> /\ due[p] = {}
        /\ \A q \in Proc : q # p => moment'[q] = moment[q] /\ pc'[q] = pc[q]
    BY <1>0 DEF BeginTick, table, Others, Held
  <2> QED BY <1>0, <2>1 DEF Held
<1> QED BY <1>1, <1>2, <1>3 DEF SInv, RowsFit, Others, ScheduleTypeOK

\* Claiming locks free rows only, which stand as they were committed.
LEMMA ClaimStep == ASSUME SInv, NEW p \in Proc, Claim(p) PROVE SInv'
<1>0. RowsFit /\ Others /\ Held /\ p \in Holder /\ p # NoHolder
  BY Parts, HoldersDiffer
<1> DEFINE mine == {s \in Due(p) : rowLock[s] = NoHolder}
<1>1. /\ pc[p] = "claim"
      /\ rowLock' = [s \in Schedule |-> IF s \in mine THEN p ELSE rowLock[s]]
      /\ due' = [due EXCEPT ![p] = mine]
      /\ pc' = [pc EXCEPT ![p] = IF mine = {} THEN "idle" ELSE "fire"]
      /\ UNCHANGED <<clock, row, wrow, audit, users, moment, ed, crashes, edits>>
  BY DEF Claim
<1>2. /\ mine \subseteq Schedule
      /\ \A s \in mine : /\ rowLock[s] = NoHolder /\ row[s].live /\ row[s].enabled
                         /\ row[s].next \in 1..moment[p]
  BY DEF Due
<1> HIDE DEF mine
<1>3. RowsFit'
  BY <1>0, <1>1, <1>2 DEF RowsFit, RowAgrees, Promised
<1>4. Others'
  BY <1>0, <1>1, <1>2 DEF Others
<1>5. Held'
  <2>1. ASSUME NEW q \in Proc
        PROVE  /\ pc'[q] # "fire" => due'[q] = {}
               /\ \A s \in due'[q] :
                    /\ rowLock'[s] = q /\ wrow'[s] = row'[s]
                    /\ row'[s].live /\ row'[s].enabled /\ row'[s].next \in 1..moment'[q]
    <3>1. CASE q = p
      <4>1. due'[q] = mine /\ pc'[q] = IF mine = {} THEN "idle" ELSE "fire"
        BY <1>0, <1>1, <3>1 DEF Others
      <4>2. \A s \in mine : rowLock'[s] = q /\ wrow[s] = row[s]
        BY <1>0, <1>1, <1>2, <3>1 DEF RowsFit, RowAgrees
      <4> QED BY <1>1, <1>2, <3>1, <4>1, <4>2
    <3>2. CASE q # p
      <4>1. due'[q] = due[q] /\ pc'[q] = pc[q] /\ due[q] \subseteq Schedule
        BY <1>0, <1>1, <3>2 DEF Others
      <4>2. \A s \in due[q] : s \notin mine
        BY <1>0, <1>2, HoldersDiffer DEF Held
      <4>3. \A s \in due[q] : rowLock'[s] = rowLock[s]
        BY <1>1, <4>1, <4>2
      <4>4. pc[q] # "fire" => due[q] = {}
        BY <1>0 DEF Held
      <4> QED BY <1>0, <1>1, <4>1, <4>3, <4>4, HeldKept
    <3> QED BY <3>1, <3>2
  <2> QED BY <2>1 DEF Held
<1> QED BY <1>3, <1>4, <1>5 DEF SInv, RowsFit, Others, ScheduleTypeOK

\* Firing writes one row the tick has locked.
LEMMA FireStep == ASSUME SInv, NEW p \in Proc, Fire(p) PROVE SInv'
<1>0. RowsFit /\ Others /\ Held /\ p \in Holder /\ p # NoHolder
  BY Parts, HoldersDiffer
<1>1. PICK s \in Schedule : /\ FirstDue(p, s)
                            /\ Skip(p, s) \/ CreateJob(p, s) \/ CreateNone(p, s)
                            /\ due' = [due EXCEPT ![p] = @ \ {s}]
  BY DEF Fire
<1>2. /\ pc[p] = "fire" /\ s \in due[p] /\ rowLock[s] = p /\ wrow[s] \in Row
      /\ UNCHANGED <<clock, row, rowLock, users, pc, moment, ed, crashes, edits>>
  BY <1>0, <1>1 DEF Fire, FirstDue, Held, RowsFit
<1>3. PICK made \in BOOLEAN : wrow' = [wrow EXCEPT ![s] = Fired(wrow[s], moment[p], made)]
  BY <1>1 DEF Skip, CreateJob, CreateNone
<1>4. Fit(Fired(wrow[s], moment[p], made))
  BY <1>0, <1>2, FiredFits DEF Others
<1>5. RowsFit'
  <2>1. wrow' \in [Schedule -> Row]
    BY <1>0, <1>3, <1>4 DEF RowsFit, Fit
  <2>2. \A r \in Schedule : rowLock[r] = NoHolder => wrow'[r] = row[r]
    BY <1>0, <1>2, <1>3 DEF RowsFit, RowAgrees
  <2>3. \A r \in Schedule : Promise(wrow'[r])
    BY <1>0, <1>3, <1>4 DEF RowsFit, Promised, Fit
  <2> QED BY <1>0, <1>2, <2>1, <2>2, <2>3 DEF RowsFit, RowAgrees, Promised
<1>6. Others'
  <2>1. audit' \in Holder \cup {NoHolder}
    BY <1>0, <1>1 DEF Others, Skip, CreateJob, CreateNone
  <2> QED BY <1>0, <1>1, <1>2, <2>1 DEF Others
<1>7. Held'
  <2>1. ASSUME NEW q \in Proc
        PROVE  /\ pc'[q] # "fire" => due'[q] = {}
               /\ \A r \in due'[q] :
                    /\ rowLock'[r] = q /\ wrow'[r] = row'[r]
                    /\ row'[r].live /\ row'[r].enabled /\ row'[r].next \in 1..moment'[q]
    <3>1. due'[q] \subseteq due[q] /\ due[q] \subseteq Schedule /\ s \notin due'[p]
      BY <1>0, <1>1 DEF Others
    <3>2. \A r \in due'[q] : r # s
      BY <1>0, <1>2, <3>1 DEF Held
    <3>3. \A r \in due'[q] : wrow'[r] = wrow[r]
      BY <1>0, <1>3, <3>1, <3>2 DEF RowsFit
    <3>4. pc'[q] # "fire" => due'[q] = {}
      BY <1>0, <1>2, <3>1 DEF Held
    <3> QED BY <1>0, <1>2, <3>1, <3>3, <3>4, HeldKept
  <2> QED BY <2>1 DEF Held
<1> QED BY <1>5, <1>6, <1>7 DEF SInv, RowsFit, Others, ScheduleTypeOK

\* However a tick ends, its rows are free and it has nothing left to fire.
LEMMA TickEndStep ==
    ASSUME SInv, NEW p \in Proc, Publish(p) \/ Revert(p), EndTick(p),
           crashes' \in 0..MaxCrashes
    PROVE  SInv'
<1>0. RowsFit /\ Others /\ Held /\ p \in Holder
  BY Parts, HoldersDiffer
<1>1. RowsFit'
  BY <1>0, EndKeepsRows
<1>2. Others'
  <2>1. audit' \in Holder \cup {NoHolder} /\ users' = users
    BY <1>0 DEF Publish, Revert, FreeAudit, Others
  <2> QED BY <1>0, <2>1 DEF EndTick, Others
<1>3. Held'
  <2>1. /\ UNCHANGED moment /\ due \in [Proc -> SUBSET Schedule]
        /\ \A q \in Proc : IF q = p THEN due'[q] = {} ELSE due'[q] = due[q] /\ pc'[q] = pc[q]
    BY <1>0 DEF EndTick, Others
  <2> QED BY <1>0, <2>1, EndKeepsHeld
<1> QED BY <1>1, <1>2, <1>3 DEF SInv, RowsFit, Others, ScheduleTypeOK

----------------------------------------------------------------------------
(* The steps of requests *)

\* A step that leaves rows, locks and ticks alone keeps the rest.
LEMMA RowsUntouched ==
    ASSUME SInv, UNCHANGED <<row, wrow, rowLock, pc, moment, due>>, Others'
    PROVE  SInv'
BY DEF SInv, Others, ScheduleTypeOK, RowAgrees, Held, Promised

\* A request that writes rows no tick has locked keeps what the ticks hold.
LEMMA HeldUntouched ==
    ASSUME Held, Others, UNCHANGED <<pc, moment, due>>,
           \A s \in Schedule : rowLock[s] \in Proc =>
               rowLock'[s] = rowLock[s] /\ row'[s] = row[s] /\ wrow'[s] = wrow[s]
    PROVE  Held'
<1>1. ASSUME NEW p \in Proc
      PROVE  /\ pc'[p] # "fire" => due'[p] = {}
             /\ \A s \in due'[p] :
                  /\ rowLock'[s] = p /\ wrow'[s] = row'[s]
                  /\ row'[s].live /\ row'[s].enabled /\ row'[s].next \in 1..moment'[p]
  <2>1. \A s \in due[p] : s \in Schedule /\ rowLock[s] = p
    BY DEF Held, Others
  <2>2. pc[p] # "fire" => due[p] = {}
    BY DEF Held
  <2> QED BY <2>1, <2>2, HeldKept
<1> QED BY <1>1 DEF Held

\* A new schedule.
LEMMA CreateStep ==
    ASSUME SInv, NEW s \in Schedule, NEW d \in Cron, NEW on \in BOOLEAN, NEW u \in User,
           Create(s, d, on, u)
    PROVE  SInv'
<1>0. RowsFit /\ Others /\ Held
  BY Parts
<1> DEFINE r == [Blank EXCEPT !.live = TRUE, !.def = d, !.enabled = on, !.owner = u,
                              !.next = NextOccurrence(d, clock)]
<1>1. /\ rowLock[s] = NoHolder
      /\ row' = [row EXCEPT ![s] = r] /\ wrow' = [wrow EXCEPT ![s] = r]
      /\ UNCHANGED <<clock, rowLock, audit, users, pc, moment, due, ed, crashes, edits>>
  BY DEF Create
<1>2. Fit(r)
  BY <1>0, CreatedFits DEF Others
<1> HIDE DEF r
<1>3. RowsFit'
  BY <1>0, <1>1, <1>2 DEF RowsFit, RowAgrees, Promised, Fit
<1>4. Held'
  <2>1. \A x \in Schedule : rowLock[x] \in Proc =>
            rowLock'[x] = rowLock[x] /\ row'[x] = row[x] /\ wrow'[x] = wrow[x]
    BY <1>0, <1>1, HoldersDiffer DEF RowsFit
  <2> QED BY <1>0, <1>1, <2>1, HeldUntouched
<1> QED BY <1>0, <1>1, <1>3, <1>4 DEF SInv, RowsFit, Others, ScheduleTypeOK

\* What an edit computes is a row.
LEMMA EditStep ==
    ASSUME SInv, NEW e \in Editor, NEW s \in Schedule, NEW d \in Cron, NEW on \in BOOLEAN,
           Edit(e, s, d, on)
    PROVE  SInv'
<1>0. RowsFit /\ Others
  BY Parts
<1> DEFINE n == NextOccurrence(d, clock)
           new == [row[s] EXCEPT !.def = d, !.enabled = on, !.next = n]
           work == [pc |-> "write", s |-> s, seen |-> row[s], new |-> new]
<1>1. ed' = [ed EXCEPT ![e] = work] /\ edits < MaxEdits /\ edits' = edits + 1
      /\ UNCHANGED <<clock, table, pc, moment, due, crashes>>
  BY DEF Edit
<1>2. n \in 0..(MaxTime + Horizon)
  <2>1. clock \in Nat /\ clock <= MaxTime /\ MaxTime \in Nat /\ Horizon \in Nat
    BY <1>0, SchedulerAssumption, HorizonType DEF SchedulerAssumption, Others
  <2>2. n \in 0..(clock + Horizon)
    BY <2>1, NextIsOpen
  <2> HIDE DEF n
  <2> QED BY <2>1, <2>2
<1> HIDE DEF n
<1>3. row[s] \in Row /\ new \in Row
  BY <1>0, <1>2 DEF RowsFit, Row
<1> HIDE DEF new
<1>4. Others'
  <2>1. edits' \in 0..MaxEdits
    BY <1>0, <1>1, SchedulerAssumption DEF SchedulerAssumption, Others
  <2> QED BY <1>0, <1>1, <1>3, <2>1 DEF Others, table
<1> QED BY <1>1, <1>4, RowsUntouched DEF table

\* Writing an edit locks the row and marks it edited.
LEMMA EditWriteStep ==
    ASSUME SInv, NEW e \in Editor, EditWrite(e) PROVE SInv'
<1>0. RowsFit /\ Others /\ Held /\ e # NoHolder /\ e \in Holder /\ e \notin Proc
  BY Parts, HoldersDiffer
<1>1. PICK s \in Schedule : s = ed[e].s
  BY <1>0 DEF Others
<1>2. PICK seen \in Row : seen = ed[e].seen
  BY <1>0 DEF Others
<1>3. PICK new \in Row : new = ed[e].new
  BY <1>0 DEF Others
<1> DEFINE d == IF new.def = seen.def THEN wrow[s].def ELSE new.def
           on == IF new.enabled = seen.enabled THEN wrow[s].enabled ELSE new.enabled
           n == IF new.next = seen.next THEN wrow[s].next ELSE new.next
           r == [wrow[s] EXCEPT !.def = d, !.enabled = on, !.next = n, !.edited = TRUE]
<1>4. /\ rowLock[s] = NoHolder
      /\ rowLock' = [rowLock EXCEPT ![s] = e] /\ wrow' = [wrow EXCEPT ![s] = r]
      /\ ed' = [ed EXCEPT ![e].pc = "commit"]
      /\ UNCHANGED <<clock, row, audit, users, pc, moment, due, crashes, edits>>
  BY <1>1, <1>2, <1>3 DEF EditWrite
<1>5. r \in Row /\ r.edited = TRUE
  <2>1. wrow[s] \in Row
    BY <1>0 DEF RowsFit
  <2>2. d \in Cron /\ on \in BOOLEAN /\ n \in 0..(MaxTime + Horizon)
    BY <2>1 DEF Row
  <2> HIDE DEF d, on, n
  <2> QED BY <2>1, <2>2 DEF Row
<1> HIDE DEF r
<1>6. RowsFit'
  BY <1>0, <1>4, <1>5 DEF RowsFit, RowAgrees, Promised, Promise
<1>7. Held'
  <2>1. \A x \in Schedule : rowLock[x] \in Proc =>
            rowLock'[x] = rowLock[x] /\ row'[x] = row[x] /\ wrow'[x] = wrow[x]
    BY <1>0, <1>4, HoldersDiffer DEF RowsFit
  <2> QED BY <1>0, <1>4, <2>1, HeldUntouched
<1>8. Others'
  BY <1>0, <1>4 DEF Others
<1> QED BY <1>6, <1>7, <1>8 DEF SInv, RowsFit, Others, ScheduleTypeOK

\* A request that ends frees its rows, whether it commits or is undone.
LEMMA RequestEndStep ==
    ASSUME SInv, NEW e \in Editor, Publish(e) \/ Revert(e), ed' = [ed EXCEPT ![e] = EdIdle],
           UNCHANGED <<clock, pc, moment, due, crashes, edits>>
    PROVE  SInv'
<1>0. RowsFit /\ Others /\ Held /\ e \in Holder /\ e \notin Proc
  BY Parts, HoldersDiffer
<1>1. RowsFit'
  BY <1>0, EndKeepsRows
<1>2. Others'
  <2>1. audit' \in Holder \cup {NoHolder} /\ users' = users
    BY <1>0 DEF Publish, Revert, FreeAudit, Others
  <2>2. EdIdle \in [pc : {"idle", "write", "commit", "delete"}, s : Schedule,
                    seen : Row, new : Row]
    BY BlankFits, SchedulerAssumption DEF EdIdle, Fit, SchedulerAssumption
  <2> QED BY <1>0, <2>1, <2>2 DEF Others
<1>3. Held'
  BY <1>0, EndKeepsHeld DEF Others
<1> QED BY <1>1, <1>2, <1>3 DEF SInv, RowsFit, Others, ScheduleTypeOK

\* An edit of a row that is gone changes nothing.
LEMMA EditFailsStep ==
    ASSUME SInv, NEW e \in Editor, EditFails(e) PROVE SInv'
<1>0. Others
  BY Parts
<1>1. EdIdle \in [pc : {"idle", "write", "commit", "delete"}, s : Schedule,
                  seen : Row, new : Row]
  BY BlankFits, SchedulerAssumption DEF EdIdle, Fit, SchedulerAssumption
<1>2. Others'
  BY <1>0, <1>1 DEF EditFails, table, Others
<1> QED BY <1>2, RowsUntouched DEF EditFails, table

\* A deletion takes the audit lock ...
LEMMA DeleteStep ==
    ASSUME SInv, NEW e \in Editor, NEW s \in Schedule, Delete(e, s) PROVE SInv'
<1>0. Others /\ e \in Holder
  BY Parts, HoldersDiffer
<1>1. edits' \in 0..MaxEdits
  BY <1>0, SchedulerAssumption DEF SchedulerAssumption, Others, Delete
<1>2. ed' \in [Editor -> [pc : {"idle", "write", "commit", "delete"}, s : Schedule,
                          seen : Row, new : Row]]
  BY <1>0 DEF Delete, Others
<1>3. Others'
  BY <1>0, <1>1, <1>2 DEF Delete, Others
<1> QED BY <1>3, RowsUntouched DEF Delete

\* ... and removes a free row.
LEMMA DeleteRowStep ==
    ASSUME SInv, NEW e \in Editor, DeleteRow(e) PROVE SInv'
<1>0. RowsFit /\ Others /\ Held
  BY Parts
<1>1. PICK s \in Schedule : s = ed[e].s
  BY <1>0 DEF Others
<1> DEFINE gone == [row[s] EXCEPT !.live = FALSE]
<1>2. /\ rowLock[s] = NoHolder
      /\ row' = [row EXCEPT ![s] = gone] /\ wrow' = [wrow EXCEPT ![s] = gone]
      /\ audit' = FreeAudit(e) /\ ed' = [ed EXCEPT ![e] = EdIdle]
      /\ UNCHANGED <<clock, rowLock, users, pc, moment, due, crashes, edits>>
  BY <1>1 DEF DeleteRow
<1>3. gone \in Row /\ Promise(gone)
  <2>1. row[s] \in Row /\ Promise(row[s])
    BY <1>0 DEF RowsFit, Promised
  <2>2. gone \in Row /\ gone.next = row[s].next /\ gone.last = row[s].last
        /\ gone.def = row[s].def /\ gone.edited = row[s].edited
    BY <2>1 DEF Row
  <2> HIDE DEF gone
  <2> QED BY <2>1, <2>2 DEF Promise
<1> HIDE DEF gone
<1>4. RowsFit'
  BY <1>0, <1>2, <1>3 DEF RowsFit, RowAgrees, Promised
<1>5. Held'
  <2>1. \A x \in Schedule : rowLock[x] \in Proc =>
            rowLock'[x] = rowLock[x] /\ row'[x] = row[x] /\ wrow'[x] = wrow[x]
    BY <1>0, <1>2, HoldersDiffer DEF RowsFit
  <2> QED BY <1>0, <1>2, <2>1, HeldUntouched
<1>6. Others'
  <2>1. EdIdle \in [pc : {"idle", "write", "commit", "delete"}, s : Schedule,
                    seen : Row, new : Row]
    BY BlankFits, SchedulerAssumption DEF EdIdle, Fit, SchedulerAssumption
  <2>2. audit' \in Holder \cup {NoHolder}
    BY <1>0, <1>2 DEF FreeAudit, Others
  <2> QED BY <1>0, <1>2, <2>1, <2>2 DEF Others
<1> QED BY <1>4, <1>5, <1>6 DEF SInv, RowsFit, Others, ScheduleTypeOK

\* Deleting a user changes the creator of rows nobody has locked.
LEMMA DeleteUserStep ==
    ASSUME SInv, NEW u \in User, DeleteUser(u) PROVE SInv'
<1>0. RowsFit /\ Others /\ Held
  BY Parts
<1>1. /\ \A s \in Schedule : row[s].owner = u => rowLock[s] = NoHolder
      /\ row' = [s \in Schedule |-> IF row[s].owner = u THEN [row[s] EXCEPT !.owner = NoUser]
                                    ELSE row[s]]
      /\ wrow' = [s \in Schedule |-> IF wrow[s].owner = u THEN [wrow[s] EXCEPT !.owner = NoUser]
                                     ELSE wrow[s]]
      /\ users' = users \ {u}
      /\ UNCHANGED <<clock, rowLock, audit, pc, moment, due, ed, crashes, edits>>
  BY DEF DeleteUser
<1>2. ASSUME NEW r \in Row, Promise(r)
      PROVE  [r EXCEPT !.owner = NoUser] \in Row /\ Promise([r EXCEPT !.owner = NoUser])
  <2> DEFINE o == [r EXCEPT !.owner = NoUser]
  <2>1. o \in Row /\ o.next = r.next /\ o.last = r.last /\ o.def = r.def /\ o.edited = r.edited
    BY DEF Row
  <2> HIDE DEF o
  <2>2. Promise(o)
    BY <1>2, <2>1 DEF Promise
  <2> QED BY <2>1, <2>2 DEF o
<1>3. RowsFit'
  <2>1. row' \in [Schedule -> Row] /\ wrow' \in [Schedule -> Row] /\ Promised'
    BY <1>0, <1>1, <1>2 DEF RowsFit, Promised
  <2>2. \A s \in Schedule : rowLock'[s] = NoHolder => wrow'[s] = row'[s]
    BY <1>0, <1>1 DEF RowsFit, RowAgrees
  <2> QED BY <1>0, <1>1, <2>1, <2>2 DEF RowsFit, RowAgrees
<1>4. Held'
  <2>1. ASSUME NEW p \in Proc
        PROVE  /\ pc'[p] # "fire" => due'[p] = {}
               /\ \A s \in due'[p] :
                    /\ rowLock'[s] = p /\ wrow'[s] = row'[s]
                    /\ row'[s].live /\ row'[s].enabled /\ row'[s].next \in 1..moment'[p]
    <3>1. ASSUME NEW s \in due[p] PROVE row'[s] = row[s] /\ wrow'[s] = wrow[s]
      <4>1. s \in Schedule /\ rowLock[s] = p /\ wrow[s] = row[s]
        BY <1>0 DEF Held, Others
      <4>2. row[s].owner # u
        BY <1>1, <4>1, HoldersDiffer
      <4> QED BY <1>1, <4>1, <4>2
    <3>2. pc[p] # "fire" => due[p] = {}
      BY <1>0 DEF Held
    <3>3. /\ due'[p] = due[p] /\ pc'[p] = pc[p] /\ moment'[p] = moment[p]
          /\ \A s \in due[p] : /\ rowLock'[s] = rowLock[s]
                               /\ row'[s] = row[s] /\ wrow'[s] = wrow[s]
      BY <1>1, <3>1
    <3> QED BY <1>0, <3>2, <3>3, HeldKept
  <2> QED BY <2>1 DEF Held
<1> QED BY <1>0, <1>1, <1>3, <1>4 DEF SInv, RowsFit, Others, ScheduleTypeOK

----------------------------------------------------------------------------
(* The theorems *)

\* The initial state satisfies the invariant.
LEMMA SchedInitInv == SchedInit => SInv
<1> SUFFICES ASSUME SchedInit PROVE SInv
  OBVIOUS
<1>1. EdIdle \in [pc : {"idle", "write", "commit", "delete"}, s : Schedule,
                  seen : Row, new : Row]
  BY BlankFits, SchedulerAssumption DEF EdIdle, Fit, SchedulerAssumption
<1>2. Others
  BY <1>1, SchedulerAssumption DEF SchedulerAssumption, SchedInit, Others
<1>3. RowsFit
  BY BlankFits DEF SchedInit, RowsFit, RowAgrees, Promised, Fit
<1>4. Held
  BY DEF SchedInit, Held
<1> QED BY <1>2, <1>3, <1>4, Parts

\* Every step keeps it.
LEMMA SchedStepInv == SInv /\ [SchedNext]_schedVars => SInv'
<1> SUFFICES ASSUME SInv, SchedNext \/ UNCHANGED schedVars PROVE SInv'
  OBVIOUS
<1>0. Others
  BY Parts
<1>1. ASSUME NEW p \in Proc, TickStep(p) \/ TickIsVictim(p) \/ Crash(p) PROVE SInv'
  <2>1. ASSUME CommitTick(p) \/ TickRaises(p) \/ TickIsVictim(p) \/ Crash(p) PROVE SInv'
    <3>1. crashes' \in 0..MaxCrashes
      BY <1>0, <2>1, SchedulerAssumption
         DEF SchedulerAssumption, Others, CommitTick, TickRaises, TickIsVictim, Crash
    <3>2. (Publish(p) \/ Revert(p)) /\ EndTick(p)
      BY <2>1 DEF CommitTick, TickRaises, TickIsVictim, Crash
    <3> QED BY <3>1, <3>2, TickEndStep
  <2> QED BY <1>1, <2>1, BeginTickStep, ClaimStep, FireStep DEF TickStep
<1>2. ASSUME NEW e \in Editor, Request(e) \/ RequestIsVictim(e) PROVE SInv'
  <2>1. EditCommit(e) \/ RequestIsVictim(e) => SInv'
    BY RequestEndStep DEF EditCommit, RequestIsVictim
  <2> QED BY <1>2, <2>1, EditWriteStep, EditFailsStep, DeleteRowStep DEF Request
<1>3. ASSUME NEW e \in Editor, NEW s \in Schedule, NEW d \in Cron, NEW on \in BOOLEAN,
             Edit(e, s, d, on)
      PROVE  SInv'
  BY <1>3, EditStep
<1>4. ASSUME NEW e \in Editor, NEW s \in Schedule, Delete(e, s) PROVE SInv'
  BY <1>4, DeleteStep
<1>5. ASSUME NEW s \in Schedule, NEW d \in Cron, NEW on \in BOOLEAN, NEW u \in User,
             Create(s, d, on, u)
      PROVE  SInv'
  BY <1>5, CreateStep
<1>6. ASSUME NEW u \in User, DeleteUser(u) PROVE SInv'
  BY <1>6, DeleteUserStep
<1>7. ASSUME Tick PROVE SInv'
  <2>1. Others'
    BY <1>0, <1>7, SchedulerAssumption DEF SchedulerAssumption, Tick, table, Others
  <2> QED BY <1>7, <2>1, RowsUntouched DEF Tick, table
<1>8. ASSUME UNCHANGED schedVars PROVE SInv'
  <2>1. Others'
    BY <1>0, <1>8 DEF schedVars, table, Others
  <2> QED BY <1>8, <2>1, RowsUntouched DEF schedVars, table
<1> QED BY <1>1, <1>2, <1>3, <1>4, <1>5, <1>6, <1>7, <1>8 DEF SchedNext

\* The invariant holds in every reachable state.
THEOREM SchedulerInductive == SchedSpec => []SInv
BY SchedInitInv, SchedStepInv, PTL DEF SchedSpec

\* What a step that creates a job is: the tick fires a row it holds.
LEMMA CreatingIsFiring ==
    ASSUME SInv, SchedNext \/ UNCHANGED schedVars, NEW p \in Proc, NEW s \in Schedule,
           Creates(p, s)
    PROVE  ~Skips(wrow[s], moment[p])
<1>0. /\ RowsFit /\ Others /\ Held /\ s \in due[p] /\ wrow'[s] # wrow[s]
      /\ rowLock[s] = p /\ wrow[s] = row[s] /\ p \notin Editor /\ p # NoHolder
  BY Parts, HoldersDiffer DEF Creates, Held
<1>1. ASSUME NEW q \in Proc, TickStep(q) \/ TickIsVictim(q) \/ Crash(q)
      PROVE  ~Skips(wrow[s], moment[p])
  <2>1. CASE Fire(q)
    <3>1. PICK x \in Schedule : /\ FirstDue(q, x)
                                /\ Skip(q, x) \/ CreateJob(q, x) \/ CreateNone(q, x)
      BY <2>1 DEF Fire
    <3>2. x \in due[q] /\ rowLock[x] = q
      BY <1>0, <3>1 DEF FirstDue, Held
    <3>3. \E made \in BOOLEAN : wrow' = [wrow EXCEPT ![x] = Fired(wrow[x], moment[q], made)]
      BY <3>1 DEF Skip, CreateJob, CreateNone
    <3>4. x = s
      BY <1>0, <3>3 DEF RowsFit
    <3>5. q = p
      BY <1>0, <3>2, <3>4
    <3>6. CASE Skip(q, x)
      <4>1. wrow'[s] = Fired(wrow[s], moment[p], FALSE)
        BY <1>0, <3>4, <3>5, <3>6 DEF Skip, RowsFit
      <4>2. wrow'[s].job = wrow[s].job
        BY <1>0, <4>1 DEF Fired, RowsFit, Row
      <4> QED BY <4>2 DEF Creates
    <3>7. CASE CreateJob(q, x) \/ CreateNone(q, x)
      BY <3>4, <3>5, <3>7 DEF CreateJob, CreateNone
    <3> QED BY <3>1, <3>6, <3>7
  <2>2. CASE Publish(q) \/ Revert(q)
    BY <1>0, <2>2 DEF Publish, Revert, RowsFit
  <2>3. CASE BeginTick(q) \/ Claim(q)
    BY <1>0, <2>3 DEF BeginTick, Claim, table
  <2> QED BY <1>1, <2>1, <2>2, <2>3 DEF TickStep, CommitTick, TickRaises, TickIsVictim, Crash
<1>2. ASSUME NEW e \in Editor, Request(e) \/ RequestIsVictim(e) PROVE FALSE
  <2>1. e # p
    BY <1>0
  <2>2. CASE EditWrite(e)
    BY <1>0, <2>2 DEF EditWrite, RowsFit
  <2>3. CASE DeleteRow(e)
    BY <1>0, <2>3 DEF DeleteRow, RowsFit
  <2>4. CASE EditFails(e)
    BY <1>0, <2>4 DEF EditFails, table
  <2>5. CASE EditCommit(e) \/ RequestIsVictim(e)
    BY <1>0, <2>1, <2>5 DEF EditCommit, RequestIsVictim, Publish, Revert, RowsFit
  <2> QED BY <1>2, <2>2, <2>3, <2>4, <2>5 DEF Request
<1>3. ASSUME NEW e \in Editor, NEW x \in Schedule, NEW d \in Cron, NEW on \in BOOLEAN,
             Edit(e, x, d, on)
      PROVE  FALSE
  BY <1>0, <1>3 DEF Edit, table
<1>4. ASSUME NEW e \in Editor, NEW x \in Schedule, Delete(e, x) PROVE FALSE
  BY <1>0, <1>4 DEF Delete
<1>5. ASSUME NEW x \in Schedule, NEW d \in Cron, NEW on \in BOOLEAN, NEW u \in User,
             Create(x, d, on, u)
      PROVE  FALSE
  BY <1>0, <1>5 DEF Create, RowsFit
<1>6. ASSUME NEW u \in User, DeleteUser(u) PROVE FALSE
  <2>1. row[s].owner # u
    BY <1>0, <1>6 DEF DeleteUser
  <2> QED BY <1>0, <1>6, <2>1 DEF DeleteUser
<1>7. Tick \/ UNCHANGED schedVars => FALSE
  BY <1>0 DEF Tick, schedVars, table
<1> QED BY <1>1, <1>2, <1>3, <1>4, <1>5, <1>6, <1>7 DEF SchedNext

\* A tick runs a schedule once per promise: at an occurrence after its last run,
\* outside its blackout as UTC reads it, while it stands live; and in the blackout
\* of its own zone only late or after an edit, and only in another zone.
THEOREM TicksFollowSchedules == SchedSpec => FiresAsScheduled
<1> DEFINE A == \A p \in Proc, s \in Schedule :
                  Creates(p, s) /\ wrow[s].last > 0 /\ ~wrow[s].edited =>
                      \E t \in (wrow[s].last + 1)..moment[p] : Occurs(wrow[s].def, t)
           B == \A p \in Proc, s \in Schedule :
                  Creates(p, s) =>
                      LET r == wrow[s] IN
                      /\ ~Blocked(r.def, moment[p], 0)
                      /\ Blocked(r.def, moment[p], r.def.zone) =>
                            r.def.zone # 0 /\ (r.edited \/ moment[p] > r.next)
           C == \A p \in Proc, s \in Schedule : Creates(p, s) => row[s].live /\ row[s].enabled
<1>1. ASSUME SInv, SchedNext \/ UNCHANGED schedVars, NEW p \in Proc, NEW s \in Schedule,
             Creates(p, s)
      PROVE  /\ row[s].live /\ row[s].enabled
             /\ ~wrow[s].edited => \E t \in (wrow[s].last + 1)..moment[p] : Occurs(wrow[s].def, t)
             /\ ~Blocked(wrow[s].def, moment[p], 0)
             /\ Blocked(wrow[s].def, moment[p], wrow[s].def.zone) =>
                   wrow[s].def.zone # 0 /\ (wrow[s].edited \/ moment[p] > wrow[s].next)
  <2>1. s \in due[p] /\ RowsFit /\ Others /\ Held
    BY <1>1, Parts DEF Creates
  <2>2. /\ wrow[s] = row[s] /\ row[s].live /\ row[s].enabled
        /\ row[s].next \in 1..moment[p] /\ row[s] \in Row /\ moment[p] \in Nat
        /\ Promise(wrow[s])
    BY <2>1, SchedulerAssumption DEF SchedulerAssumption, Held, RowsFit, Promised, Others
  <2>3. ASSUME ~wrow[s].edited
        PROVE  \E t \in (wrow[s].last + 1)..moment[p] : Occurs(wrow[s].def, t)
    <3>1. wrow[s].last \in Nat
      BY <2>2, SchedulerAssumption DEF SchedulerAssumption, Row
    <3>2. wrow[s].next \in (wrow[s].last + 1)..moment[p] /\ Occurs(wrow[s].def, wrow[s].next)
      BY <2>2, <2>3, <3>1 DEF Promise
    <3> QED BY <3>2
  <2>4. ~Blocked(wrow[s].def, moment[p], 0)
    BY <1>1, CreatingIsFiring DEF Skips
  <2>5. ASSUME Blocked(wrow[s].def, moment[p], wrow[s].def.zone)
        PROVE  wrow[s].def.zone # 0 /\ (wrow[s].edited \/ moment[p] > wrow[s].next)
    <3>1. wrow[s].def.zone # 0
      BY <2>4, <2>5
    <3>2. ASSUME ~wrow[s].edited PROVE moment[p] > wrow[s].next
      <4>1. wrow[s].next \in 1..moment[p]
        BY <2>2
      <4>2. wrow[s].next # moment[p]
        BY <2>2, <2>5, <3>2, <4>1 DEF Promise
      <4> QED BY <2>2, <4>1, <4>2
    <3> QED BY <3>1, <3>2
  <2> QED BY <2>2, <2>3, <2>4, <2>5
<1>2. SInv /\ [SchedNext]_schedVars => [A]_schedVars /\ [B]_schedVars /\ [C]_schedVars
  BY <1>1
<1>3. FiresAsScheduled <=> [][A]_schedVars /\ [][B]_schedVars /\ [][C]_schedVars
  BY DEF FiresAsScheduled, FiresAreApart, BlackoutsHoldInUtc, FiresLiveRows
<1> HIDE DEF A, B, C
<1> QED BY SchedulerInductive, <1>2, <1>3, PTL DEF SchedSpec

\* A schedule claimed on time is turned away only if it has another zone than UTC,
\* and never for the blackout of its own zone.
THEOREM PromisesAreKept == SchedSpec => []OnTimeRuns
<1>1. ASSUME SInv PROVE OnTimeRuns
  <2> SUFFICES ASSUME NEW p \in Proc, NEW s \in due[p],
                      ~wrow[s].edited, moment[p] = wrow[s].next, Skips(wrow[s], moment[p])
               PROVE  /\ wrow[s].def.zone # 0
                      /\ ~Blocked(wrow[s].def, moment[p], wrow[s].def.zone)
    BY DEF OnTimeRuns
  <2>1. RowsFit /\ Held /\ Others /\ s \in Schedule
    BY <1>1, Parts DEF Others
  <2>2. /\ wrow[s] = row[s] /\ row[s].next \in 1..moment[p] /\ wrow[s] \in Row
        /\ Promise(wrow[s])
    BY <2>1 DEF Held, RowsFit, Promised
  <2>3. ~Blocked(wrow[s].def, moment[p], wrow[s].def.zone)
    BY <2>2 DEF Promise
  <2>4. wrow[s].def.zone # 0
    BY <2>3 DEF Skips
  <2> QED BY <2>3, <2>4
<1> QED BY SchedulerInductive, <1>1, PTL
=============================================================================
